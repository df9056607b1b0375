---------------------------- MODULE QueriesProofs ----------------------------
(***************************************************************************)
(* import_from_txt: for files of any length, with and without weights, and *)
(* record files of any size, what is imported is the file.                 *)
(*                                                                         *)
(* bfs, dfs and dijkstra on every graph that can be imported, of any size  *)
(* and with any weights that are not negative, whatever order the heap     *)
(* returns entries of the same key in.                                     *)
(***************************************************************************)
EXTENDS WalkProofs, HeapFileProofs

------------------------------------------------------------------------------
(* The invariant *)

LEMMA SameRecordsKeep ==
    ASSUME SlotInv, GraphInv, UNCHANGED <<nodeVars, relVars, first_relationship, deleting>>
    PROVE  SlotInv' /\ GraphInv'
<1>1. SlotInv'
  BY SameSlotsKeep, Zenon DEF SlotInv, nodeVars
<1>2. GraphInv'
  BY SameGraphInv, Zenon DEF nodeVars, relVars
<1> QED BY <1>1, <1>2, Zenon

\* The line that is being read: its first fields are ids of nodes, the others are
\* labels still to be looked up.
LineRight ==
    LET line == lines[Len(lines)]
        done == {i \in {1, 2} : i <= Len(from_to)}
    IN
    /\ Len(lines) = Len(txt_to_db_id_r) + 1
    /\ Len(from_to) + Len(todo) >= 2
    /\ ~weighted => Len(from_to) + Len(todo) = 2
    /\ \A i \in done : line[i] \in Known /\ from_to[i] = txt_to_db_id_n[line[i]]
    /\ \A i \in {1, 2} \ done : todo[i - Len(from_to)] = line[i]
    /\ ~weighted => Known = LabelsRead \cup {line[i] : i \in done}

\* What ImportExact needs: the slots that are handed out are free, the chains
\* are rings, and the state within a line.
ImportInv ==
    /\ SlotInv /\ GraphInv /\ NeverDangling
    /\ import \in {"before", "reading", "line", "after"}
    /\ weighted \in BOOLEAN
    /\ lines \in Seq(Labels \X Labels)
    /\ todo \in Seq(Labels)
    /\ from_to \in Seq(NodeIds)
    /\ txt_to_db_id_r \in Seq(RelIds)
    /\ import = "before" => lines = <<>> /\ Known = {}
    /\ import # "line" => from_to = <<>> /\ Len(lines) = Len(txt_to_db_id_r)
    /\ import = "line" => LineRight
    /\ ImportExact


LEMMA ImportInvInitial == ImportInit => ImportInv
<1> SUFFICES ASSUME ImportInit PROVE ImportInv
  BY Zenon
<1>1. SlotInv /\ GraphInv /\ NeverDangling
  BY ChainInvInitial, Zenon DEF ImportInit, ChainInv
<1>3. Known = {} /\ LabelsRead = {}
  BY DEF ImportInit, Known, LabelsRead
<1>4. ImportExact
  BY <1>3 DEF ImportInit, Init, ImportExact
<1>5. /\ lines = <<>> /\ todo = <<>> /\ from_to = <<>> /\ txt_to_db_id_r = <<>>
      /\ import = "before" /\ weighted = FALSE
  BY Zenon DEF ImportInit
<1>6. weighted \in BOOLEAN
  BY <1>5, Zenon
<1>7. /\ lines \in Seq(Labels \X Labels) /\ todo \in Seq(Labels) /\ from_to \in Seq(NodeIds)
      /\ txt_to_db_id_r \in Seq(RelIds) /\ Len(lines) = Len(txt_to_db_id_r)
  BY <1>5
<1>8. import \in {"before", "reading", "line", "after"} /\ import # "line"
  BY <1>5, Zenon
<1>9. lines = <<>> /\ from_to = <<>>
  BY <1>5, Zenon
<1> QED BY <1>1, <1>3, <1>4, <1>6, <1>7, <1>8, <1>9, Zenon DEF ImportInv

LEMMA PagesOfType ==
    ASSUME NEW k \in Nat, NEW s \in Nat PROVE PagesOf(k, s) \in Nat
<1>1. k * s \in Nat
  OBVIOUS
<1>2. (k * s) \div SlotsPerPage \in Nat
  BY <1>1, SlotAssumption
<1> QED BY <1>2 DEF PagesOf

LEMMA BeginImportKeeps ==
    ASSUME ImportInv, BeginImport
    PROVE  ImportInv'
<1>1. /\ PagesOf(DatasetNodes, 1) \in Nat /\ PagesOf(DatasetRels, SlotsPerRel) \in Nat
      /\ node_pages \in Nat /\ rel_pages \in Nat
  BY PagesOfType, ImportAssumption, SlotAssumption, Zenon DEF ImportInv, SlotInv
<1>2. /\ node_pages' \in Nat /\ rel_pages' \in Nat
      /\ node_pages <= node_pages' /\ rel_pages <= rel_pages'
  BY <1>1 DEF BeginImport
<1>3. /\ node_pages * SlotsPerPage <= node_pages' * SlotsPerPage
      /\ rel_pages * SlotsPerPage <= rel_pages' * SlotsPerPage
  BY <1>1, <1>2, PagesMonotone, Zenon
<1>4. /\ node_pages * SlotsPerPage \in Nat /\ node_pages' * SlotsPerPage \in Nat
      /\ rel_pages * SlotsPerPage \in Nat /\ rel_pages' * SlotsPerPage \in Nat
  BY <1>1, <1>2, PageMultiple, Zenon
<1>5. /\ \A i \in nodes : i < node_pages' * SlotsPerPage
      /\ \A i \in rels : i + SlotsPerRel <= rel_pages' * SlotsPerPage
  <2>1. /\ \A i \in nodes : i \in Nat /\ i < node_pages * SlotsPerPage
        /\ \A i \in rels : i \in Nat /\ i + SlotsPerRel <= rel_pages * SlotsPerPage
    BY IdTypes, Zenon DEF ImportInv, SlotInv, SlotsAccounted
  <2> DEFINE a == node_pages * SlotsPerPage
             b == node_pages' * SlotsPerPage
             c == rel_pages * SlotsPerPage
             d == rel_pages' * SlotsPerPage
  <2>2. a \in Nat /\ b \in Nat /\ c \in Nat /\ d \in Nat /\ a <= b /\ c <= d
    BY <1>3, <1>4, Zenon
  <2>3. /\ \A i \in nodes : i \in Nat /\ i < a
        /\ \A i \in rels : i \in Nat /\ i + SlotsPerRel <= c
    BY <2>1, Zenon
  <2> HIDE DEF a, b, c, d
  <2>4. (\A i \in nodes : i < b) /\ \A i \in rels : i + SlotsPerRel <= d
    BY <2>2, <2>3, SlotAssumption
  <2> QED BY <2>4, Zenon DEF b, d
<1>6. UNCHANGED <<nodes, last_alloc_node_id, n_nodes, rels, last_alloc_rel_id, n_rels, deleting>>
  BY Zenon DEF BeginImport
<1>7. SlotInv'
  BY <1>2, <1>5, <1>6, Zenon DEF ImportInv, SlotInv, SlotsAccounted
<1>8. GraphInv' /\ NeverDangling'
  BY SameGraphInv, Zenon DEF ImportInv, BeginImport, NeverDangling
<1>9. import = "before" /\ import' = "reading" /\ weighted' \in BOOLEAN /\ UNCHANGED <<lineVars, mapVars>>
  BY ImportAssumption, Zenon DEF BeginImport
<1>10. txt_to_db_id_r = <<>> /\ lines = <<>>
  BY <1>9 DEF ImportInv
<1>11. Known' = {} /\ LabelsRead' = {}
  BY <1>9, <1>10 DEF ImportInv, mapVars, lineVars, Known, LabelsRead
<1>12. ImportExact'
  BY <1>6, <1>9, <1>10, <1>11 DEF ImportInv, ImportExact, mapVars, lineVars, Known, BeginImport
<1> QED BY <1>7, <1>8, <1>9, <1>11, <1>12, Zenon DEF ImportInv, lineVars, mapVars

LEMMA ReadLineKeeps ==
    ASSUME ImportInv, NEW from \in Labels, NEW to \in Labels, NEW behind \in Labels,
           ReadLine(from, to, behind)
    PROVE  ImportInv'
<1>1. /\ import = "reading" /\ import' = "line" /\ lines' = Append(lines, <<from, to>>)
      /\ todo' = IF weighted THEN <<from, to, behind>> ELSE <<from, to>>
      /\ UNCHANGED vars /\ UNCHANGED <<weighted, from_to>> /\ UNCHANGED mapVars
  BY Zenon DEF ReadLine
<1>2. SlotInv' /\ GraphInv' /\ NeverDangling'
  BY <1>1, SameRecordsKeep, Zenon DEF ImportInv, NeverDangling, vars
<1>3. from_to = <<>> /\ Len(lines) = Len(txt_to_db_id_r) /\ lines \in Seq(Labels \X Labels)
  BY <1>1, Zenon DEF ImportInv
<1>4. /\ lines' \in Seq(Labels \X Labels) /\ Len(lines') = Len(txt_to_db_id_r) + 1
      /\ lines'[Len(lines')] = <<from, to>>
      /\ \A k \in DOMAIN txt_to_db_id_r : lines'[k] = lines[k]
  BY <1>1, <1>3 DEF ImportInv
<1>5. todo' \in Seq(Labels) /\ Len(todo') >= 2 /\ todo'[1] = from /\ todo'[2] = to
      /\ (~weighted => Len(todo') = 2)
  BY <1>1 DEF ImportInv
<1>6. LabelsRead' = LabelsRead /\ Known' = Known
  BY <1>1, <1>4 DEF LabelsRead, Known, mapVars
<1>7. ImportExact'
  BY <1>1, <1>4, <1>6 DEF ImportInv, ImportExact, mapVars, vars, nodeVars, relVars
<1>8. ~weighted => Known = LabelsRead
  BY <1>1, Zenon DEF ImportInv, ImportExact
<1>9. LineRight'
  <2>1. Len(from_to') = 0
    BY <1>1, <1>3, Zenon
  <2>2. {i \in {1, 2} : i <= Len(from_to')} = {}
    BY <2>1
  <2> QED BY <1>1, <1>4, <1>5, <1>6, <1>8, <2>1, <2>2 DEF LineRight, mapVars
<1> QED BY <1>1, <1>2, <1>4, <1>5, <1>6, <1>7, <1>9, Zenon DEF ImportInv, mapVars

\* The node of a label is found in the dictionary or created; either way the
\* dictionary then leads from different labels to different nodes.
LEMMA ImportFieldKeeps ==
    ASSUME ImportInv, ImportField
    PROVE  ImportInv'
<1> DEFINE label == Head(todo)
           id    == IF label \in Known THEN txt_to_db_id_n[label] ELSE FreeNode
<1>1. /\ import = "line" /\ import' = "line" /\ todo # <<>>
      /\ IF label \in Known THEN UNCHANGED vars ELSE CreateNode
      /\ txt_to_db_id_n' = Put(txt_to_db_id_n, label, id)
      /\ todo' = Tail(todo) /\ from_to' = Append(from_to, id)
      /\ UNCHANGED <<weighted, lines, txt_to_db_id_r>>
  BY Zenon DEF ImportField
<1>2. SlotInv' /\ GraphInv' /\ NeverDangling'
  <2>1. CASE label \in Known
    BY <1>1, <2>1, SameRecordsKeep, Zenon DEF ImportInv, NeverDangling, vars
  <2>2. CASE label \notin Known
    BY <1>1, <2>2, CreateNodeKeeps, CreateNodeRings, SlotsAreFree, Zenon DEF ImportInv, NeverDangling, CreateNode
  <2> QED BY <2>1, <2>2, Zenon
<1>3. nodes' = nodes \cup {id} /\ rels' = rels /\ relationship' = relationship
  <2>1. CASE label \in Known
    BY <1>1, <2>1 DEF ImportInv, ImportExact, vars, nodeVars, relVars
  <2>2. CASE label \notin Known
    BY <1>1, <2>2, Zenon DEF CreateNode, relVars
  <2> QED BY <2>1, <2>2, Zenon
<1>4. label \notin Known => id \notin nodes
  BY SlotsAreFree, Zenon DEF ImportInv
<1>5. id \in NodeIds
  BY <1>2, <1>3, Zenon DEF GraphInv
<1>6. /\ Known' = Known \cup {label}
      /\ txt_to_db_id_n'[label] = id
      /\ \A x \in Known : txt_to_db_id_n'[x] = txt_to_db_id_n[x]
  BY <1>1, Zenon DEF Known, Put
<1> HIDE DEF id
<1>7. LabelsRead' = LabelsRead
  BY <1>1, Zenon DEF LabelsRead
<1>8. ImportExact'
  <2> DEFINE ids == txt_to_db_id_n
             r   == txt_to_db_id_r
  <2>1. /\ nodes = {ids[x] : x \in Known}
        /\ \A x, y \in Known : ids[x] = ids[y] => x = y
        /\ rels = {r[k] : k \in DOMAIN r}
        /\ \A j, k \in DOMAIN r : r[j] = r[k] => j = k
        /\ \A k \in DOMAIN r : /\ lines[k][1] \in Known /\ lines[k][2] \in Known
                               /\ relationship[r[k]].source = ids[lines[k][1]]
                               /\ relationship[r[k]].target = ids[lines[k][2]]
    BY Zenon DEF ImportInv, ImportExact
  <2>2. (\A x \in Known : ids[x] \in nodes) /\ \A n \in nodes : \E x \in Known : n = ids[x]
    BY <2>1, Zenon
  <2>3. \A x, y \in Known' : ids'[x] = ids'[y] => x = y
    BY <1>4, <1>6, <2>1, <2>2
  <2>4. nodes' = {ids'[x] : x \in Known'}
    <3>1. \A x \in Known' : ids'[x] \in nodes'
      BY <1>3, <1>6, <2>2, Zenon
    <3>2. \A n \in nodes' : \E x \in Known' : n = ids'[x]
      BY <1>3, <1>6, <2>2, Zenon
    <3> QED BY <3>1, <3>2, Zenon
  <2>5. r' = r /\ lines' = lines /\ weighted' = weighted /\ import' = "line"
    BY <1>1, Zenon
  <2>6. ASSUME NEW k \in DOMAIN r
        PROVE  /\ lines[k][1] \in Known' /\ lines[k][2] \in Known'
               /\ relationship'[r[k]].source = ids'[lines[k][1]]
               /\ relationship'[r[k]].target = ids'[lines[k][2]]
    BY <1>3, <1>6, <2>1, Zenon
  <2> QED BY <1>3, <2>1, <2>3, <2>4, <2>5, <2>6 DEF ImportExact
<1>9. /\ todo' \in Seq(Labels) /\ Len(todo') = Len(todo) - 1 /\ Len(todo) \in Nat \ {0}
      /\ \A i \in 1 .. Len(todo) - 1 : todo'[i] = todo[i + 1]
      /\ label = todo[1]
  BY <1>1 DEF ImportInv
<1>10. /\ from_to' \in Seq(NodeIds) /\ Len(from_to) \in Nat /\ Len(from_to') = Len(from_to) + 1
       /\ from_to'[Len(from_to) + 1] = id
       /\ \A i \in 1 .. Len(from_to) : from_to'[i] = from_to[i]
  BY <1>1, <1>5 DEF ImportInv
<1> HIDE DEF label
<1>11. LineRight'
  <2> DEFINE line == lines[Len(lines)]
             done == {i \in {1, 2} : i <= Len(from_to)}
             Done == {i \in {1, 2} : i <= Len(from_to) + 1}
  <2>1. /\ Len(lines) = Len(txt_to_db_id_r) + 1
        /\ Len(from_to) + Len(todo) >= 2
        /\ ~weighted => Len(from_to) + Len(todo) = 2
        /\ \A i \in done : line[i] \in Known /\ from_to[i] = txt_to_db_id_n[line[i]]
        /\ \A i \in {1, 2} \ done : todo[i - Len(from_to)] = line[i]
        /\ ~weighted => Known = LabelsRead \cup {line[i] : i \in done}
    BY <1>1, Zenon DEF ImportInv, LineRight
  <2>2. Len(from_to) + 1 \in {1, 2} => line[Len(from_to) + 1] = label
    BY <2>1, <1>9, <1>10
  <2>3. \A i \in Done : i \in done \/ i = Len(from_to) + 1
    BY <1>10
  <2> HIDE DEF line
  <2>4. ASSUME NEW i \in Done
        PROVE  line[i] \in Known' /\ from_to'[i] = txt_to_db_id_n'[line[i]]
    <3>1. CASE i \in done
      BY <3>1, <2>1, <1>6, <1>10
    <3>2. CASE i = Len(from_to) + 1
      BY <3>2, <2>2, <1>6, <1>10, Zenon
    <3> QED BY <3>1, <3>2, <2>3, Zenon
  <2>5. ASSUME NEW i \in {1, 2} \ Done PROVE todo'[i - (Len(from_to) + 1)] = line[i]
    <3>1. i \in {1, 2} \ done /\ i - (Len(from_to) + 1) \in 1 .. Len(todo) - 1
      BY <2>1, <1>9, <1>10
    <3>2. todo'[i - (Len(from_to) + 1)] = todo[i - (Len(from_to) + 1) + 1]
      BY <3>1, <1>9, Zenon
    <3>3. i - (Len(from_to) + 1) + 1 = i - Len(from_to)
      BY <1>10
    <3> QED BY <3>1, <3>2, <3>3, <2>1, Zenon
  <2>6. ASSUME ~weighted PROVE Known' = LabelsRead \cup {line[i] : i \in Done}
    <3>1. Len(from_to) + 1 \in {1, 2} /\ Len(from_to) + 1 \in Done
      BY <2>6, <2>1, <1>9, <1>10
    <3>2. Done = done \cup {Len(from_to) + 1}
      BY <3>1, <1>10
    <3> QED BY <3>1, <3>2, <2>1, <2>2, <2>6, <1>6
  <2>7. Len(from_to') + Len(todo') = Len(from_to) + Len(todo)
    BY <1>9, <1>10
  <2>8. /\ lines'[Len(lines')] = line /\ {i \in {1, 2} : i <= Len(from_to')} = Done
        /\ Len(from_to') = Len(from_to) + 1
    BY <1>1, <1>10, Zenon DEF line
  <2> HIDE DEF Done, done
  <2> QED BY <1>1, <1>7, <2>1, <2>4, <2>5, <2>6, <2>7, <2>8 DEF LineRight
<1> QED BY <1>1, <1>2, <1>8, <1>9, <1>10, <1>11, Zenon DEF ImportInv

\* The line becomes a relationship in a free slot, and the earlier lines keep
\* theirs.
LEMMA ImportRelationshipKeeps ==
    ASSUME ImportInv, ImportRelationship
    PROVE  ImportInv'
<1> DEFINE line == lines[Len(lines)]
           r    == FreeRel
           n    == Len(txt_to_db_id_r)
<1>1. /\ import = "line" /\ todo = <<>> /\ import' = "reading"
      /\ CreateRelationship(from_to[1], from_to[2])
      /\ txt_to_db_id_r' = Append(txt_to_db_id_r, r)
      /\ from_to' = <<>> /\ UNCHANGED <<weighted, lines, todo, txt_to_db_id_n>>
  BY Zenon DEF ImportRelationship
<1>2. SlotInv' /\ GraphInv' /\ NeverDangling'
  BY <1>1, CreateRelationshipKeeps, CreateRelationshipRings, SlotsAreFree, Zenon
     DEF ImportInv, NeverDangling, CreateRelationship
<1>3. /\ r \in RelIds /\ r \notin rels /\ rels' = rels \cup {r} /\ nodes' = nodes
      /\ relationship' = Linked(r, from_to[1], from_to[2])
      /\ from_to[1] \in nodes /\ from_to[2] \in nodes
  BY <1>1, SlotsAreFree, Zenon DEF ImportInv, CreateRelationship, nodeVars
<1> HIDE DEF r
<1>4. /\ relationship'[r].source = from_to[1] /\ relationship'[r].target = from_to[2]
      /\ \A s \in RelIds \ {r} : /\ relationship'[s].source = relationship[s].source
                                 /\ relationship'[s].target = relationship[s].target
  BY <1>3, LinkedRight DEF ImportInv
<1>5. /\ n \in Nat /\ Len(lines) = n + 1 /\ Len(from_to) >= 2
      /\ line[1] \in Known /\ from_to[1] = txt_to_db_id_n[line[1]]
      /\ line[2] \in Known /\ from_to[2] = txt_to_db_id_n[line[2]]
      /\ ~weighted => Known = LabelsRead \cup {line[1], line[2]}
  <2>1. LineRight /\ Len(todo) = 0 /\ Len(from_to) \in Nat /\ n \in Nat
    BY <1>1 DEF ImportInv
  <2>2. Len(from_to) >= 2
    BY <2>1 DEF LineRight
  <2>3. {i \in {1, 2} : i <= Len(from_to)} = {1, 2}
    BY <2>1, <2>2
  <2> QED BY <2>1, <2>2, <2>3 DEF LineRight
<1>6. /\ txt_to_db_id_r' \in Seq(RelIds) /\ Len(txt_to_db_id_r') = n + 1
      /\ txt_to_db_id_r'[n + 1] = r
      /\ DOMAIN txt_to_db_id_r' = DOMAIN txt_to_db_id_r \cup {n + 1}
      /\ \A k \in DOMAIN txt_to_db_id_r :
            k # n + 1 /\ txt_to_db_id_r'[k] = txt_to_db_id_r[k] /\ txt_to_db_id_r[k] \in RelIds
  BY <1>1, <1>3, <1>5 DEF ImportInv
<1>7. Known' = Known /\ lines'[n + 1] = line
  BY <1>1, <1>5, Zenon DEF Known
<1> HIDE DEF line, n
<1>8. LabelsRead' = LabelsRead \cup {line[1], line[2]}
  BY <1>1, <1>6, <1>7 DEF LabelsRead
<1>9. ImportExact'
  <2>1. \A k \in DOMAIN txt_to_db_id_r : txt_to_db_id_r[k] \in rels /\ txt_to_db_id_r[k] # r
    BY <1>3 DEF ImportInv, ImportExact
  <2>2. rels' = {txt_to_db_id_r'[k] : k \in DOMAIN txt_to_db_id_r'}
    <3>1. \A s \in rels : \E k \in DOMAIN txt_to_db_id_r : s = txt_to_db_id_r[k]
      BY Zenon DEF ImportInv, ImportExact
    <3>2. \A k \in DOMAIN txt_to_db_id_r' : txt_to_db_id_r'[k] \in rels'
      BY <1>3, <1>6, <2>1, Zenon
    <3>3. \A s \in rels' : \E k \in DOMAIN txt_to_db_id_r' : s = txt_to_db_id_r'[k]
      BY <1>3, <1>6, <3>1, Zenon
    <3> QED BY <3>2, <3>3, Zenon
  <2>3. \A j, k \in DOMAIN txt_to_db_id_r' : txt_to_db_id_r'[j] = txt_to_db_id_r'[k] => j = k
    BY <1>6, <2>1, Zenon DEF ImportInv, ImportExact
  <2>4. ASSUME NEW k \in DOMAIN txt_to_db_id_r'
        PROVE  /\ {lines'[k][1], lines'[k][2]} \subseteq Known'
               /\ relationship'[txt_to_db_id_r'[k]].source = txt_to_db_id_n'[lines'[k][1]]
               /\ relationship'[txt_to_db_id_r'[k]].target = txt_to_db_id_n'[lines'[k][2]]
    <3>1. CASE k = n + 1
      BY <3>1, <1>1, <1>4, <1>5, <1>6, <1>7, Zenon
    <3>2. CASE k \in DOMAIN txt_to_db_id_r
      <4>1. txt_to_db_id_r'[k] = txt_to_db_id_r[k] /\ txt_to_db_id_r[k] \in RelIds \ {r}
        BY <3>2, <1>6, <2>1, Zenon
      <4> QED BY <3>2, <4>1, <1>1, <1>4, <1>7, Zenon DEF ImportInv, ImportExact
    <3> QED BY <3>1, <3>2, <1>6, Zenon
  <2>5. \A x, y \in Known' : txt_to_db_id_n'[x] = txt_to_db_id_n'[y] => x = y
    BY <1>1, <1>7, Zenon DEF ImportInv, ImportExact
  <2>6. nodes' = {txt_to_db_id_n'[x] : x \in Known'}
    BY <1>1, <1>3, <1>7 DEF ImportInv, ImportExact
  <2>7. ~weighted' => Known' = LabelsRead'
    BY <1>1, <1>5, <1>7, <1>8, Zenon
  <2> QED BY <2>2, <2>3, <2>4, <2>5, <2>6, <2>7, Zenon DEF ImportExact
<1> QED BY <1>1, <1>2, <1>5, <1>6, <1>9 DEF ImportInv

\* A step that changes neither the file nor what the importer knows.
LEMMA SameFileKeeps ==
    ASSUME ImportInv, Exit(status') \/ UNCHANGED vars, status' # "dangling",
           UNCHANGED <<weighted, lineVars, mapVars>>,
           import' = import \/ (import = "reading" /\ import' = "after")
    PROVE  ImportInv'
<1>1. UNCHANGED <<nodeVars, relVars, first_relationship, deleting>>
  BY Zenon DEF Exit, vars
<1>2. SlotInv' /\ GraphInv'
  BY <1>1, SameRecordsKeep, Zenon DEF ImportInv
<1>3. Known' = Known /\ LabelsRead' = LabelsRead
  BY Zenon DEF Known, LabelsRead, mapVars, lineVars
<1>4. LineRight' = LineRight
  BY <1>3 DEF LineRight, mapVars, lineVars
<1>5. ImportExact'
  BY <1>1, <1>3 DEF ImportInv, ImportExact, mapVars, lineVars, nodeVars, relVars
<1> QED BY <1>2, <1>3, <1>4, <1>5, Zenon DEF ImportInv, NeverDangling, mapVars, lineVars

LEMMA ImportInvStep == ImportInv /\ [ImportNext]_<<vars, importVars>> => ImportInv'
<1> SUFFICES ASSUME ImportInv, [ImportNext]_<<vars, importVars>> PROVE ImportInv'
  BY Zenon
<1>1. CASE BeginImport
  BY <1>1, BeginImportKeeps, Zenon
<1>2. ASSUME NEW from \in Labels, NEW to \in Labels, NEW behind \in Labels,
             ReadLine(from, to, behind)
      PROVE  ImportInv'
  BY <1>2, ReadLineKeeps, Zenon
<1>3. CASE ImportField
  BY <1>3, ImportFieldKeeps, Zenon
<1>4. CASE ImportRelationship
  BY <1>4, ImportRelationshipKeeps, Zenon
<1>5. CASE ReadLineFails
  BY <1>5, SameFileKeeps, Zenon DEF ReadLineFails, BadCall, Exit, importVars
<1>6. CASE EndImport
  BY <1>6, SameFileKeeps, Zenon DEF EndImport, ImportInv, NeverDangling, vars
<1>7. CASE UNCHANGED <<vars, importVars>>
  BY <1>7, SameFileKeeps, Zenon DEF importVars, ImportInv, NeverDangling, vars
<1> QED BY <1>1, <1>2, <1>3, <1>4, <1>5, <1>6, <1>7, Zenon DEF ImportNext

\* For every file and every size of the record files: no two labels share a node,
\* every line is one relationship of its own between the nodes of its labels,
\* however the records are placed and linked, and nothing else is created.
THEOREM ImportIsExact == ImportSpec => []ImportExact
<1>1. ImportInv => ImportExact
  BY Zenon DEF ImportInv
<1> QED BY <1>1, ImportInvInitial, ImportInvStep, PTL DEF ImportSpec

\* For every file and every size of the record files, the records are a graph after
\* every line: every chain is one ring and expand returns each relationship of a
\* node once.
THEOREM ImportStaysSound == ImportSpec => []ImportSound
<1>1. ImportInv => ImportSound
  BY RingsIntact, RingsExpand, Zenon DEF ImportInv, ImportSound, GraphSound
<1> QED BY <1>1, ImportInvInitial, ImportInvStep, PTL DEF ImportSpec

------------------------------------------------------------------------------
(* The graph a query runs on *)

\* What an import leaves is a graph that every query can run on.
LEMMA ImportReady == ImportInv => GraphReady
<1> SUFFICES ASSUME ImportInv PROVE GraphReady
  BY Zenon
<1>1. GraphInv /\ nodes \subseteq NodeIds /\ GetNodes = nodes
  BY Zenon DEF ImportInv, SlotInv, SlotsAccounted, GetNodes
<1>2. \A r \in rels : relationship[r].source \in nodes /\ relationship[r].target \in nodes
  BY <1>1, Zenon DEF GraphInv
<1>3. ASSUME NEW n \in nodes, NEW d
      PROVE  LET out == Expand(n, d) IN
             /\ DOMAIN out \subseteq Nat
             /\ \A j \in DOMAIN out : \A i \in Nat : i <= j => i \in DOMAIN out
             /\ \A j \in DOMAIN out : out[j] \in rels /\ Matches(n, out[j], d)
             /\ \A r \in rels : Matches(n, r, d) => \E j \in DOMAIN out : out[j] = r
  <2>1. PICK e, all : e = Expand(n, d) /\ all = Matching(n, d)
    BY Zenon
  <2>2. /\ Cardinality(all) \in Nat /\ DOMAIN e = 0 .. Cardinality(all) - 1
        /\ {e[i] : i \in DOMAIN e} = all
    BY <1>1, <2>1, ExpandExact, Zenon
  <2>3. DOMAIN e \subseteq Nat /\ \A j \in DOMAIN e : \A i \in Nat : i <= j => i \in DOMAIN e
    BY <2>2
  <2>4. /\ \A j \in DOMAIN e : e[j] \in rels /\ Matches(n, e[j], d)
        /\ \A r \in rels : Matches(n, r, d) => \E j \in DOMAIN e : e[j] = r
    BY <2>1, <2>2, Zenon DEF Matching
  <2> QED BY <2>1, <2>3, <2>4, Zenon
<1> QED BY <1>1, <1>2, <1>3, Zenon DEF GraphReady

------------------------------------------------------------------------------
(* degree.c *)

\* A relationship, and a node that it is a relationship of in the direction d.
Ends(d) == {p \in nodes \X rels : Matches(p[1], p[2], d)}

LEMMA DegreeRight ==
    ASSUME GraphInv, NEW n \in nodes, NEW d
    PROVE  /\ Degree(n, d) = Cardinality({p \in Ends(d) : p[1] = n})
           /\ Degree(n, d) \in Nat
<1>1. PICK e, M : e = Expand(n, d) /\ M = Matching(n, d)
  BY Zenon
<1>2. IsFiniteSet(M) /\ Cardinality(M) \in Nat /\ DOMAIN e = 0 .. Cardinality(M) - 1
  BY <1>1, ExpandExact, Zenon
<1>3. Cardinality(0 .. Cardinality(M) - 1) = Cardinality(M)
  BY <1>2, FS_Interval
<1>4. Degree(n, d) = Cardinality(M)
  BY <1>1, <1>2, <1>3, Zenon DEF Degree
<1> DEFINE T == {p \in Ends(d) : p[1] = n}
           f == [r \in M |-> <<n, r>>]
<1>5. Cardinality(T) = Cardinality(M)
  <2>1. \A r \in M : f[r] \in T
    BY <1>1, Zenon DEF Ends, Matching
  <2>2. ASSUME NEW p \in T PROVE \E r \in M : f[r] = p
    <3>1. p \in nodes \X rels /\ Matches(p[1], p[2], d) /\ p[1] = n
      BY Zenon DEF Ends
    <3>2. p = <<n, p[2]>> /\ p[2] \in M
      BY <3>1, <1>1 DEF Matching
    <3> QED BY <3>2, Zenon
  <2>3. \A x, y \in M : f[x] = f[y] => x = y
    BY Zenon
  <2>4. DOMAIN f = M /\ f = [x \in M |-> f[x]]
    BY Zenon
  <2> HIDE DEF f, T
  <2> QED BY <1>2, <2>1, <2>2, <2>3, <2>4, ImageSize
<1> QED BY <1>2, <1>4, <1>5, Zenon

\* The function that TotalDegree defines: sum[k] is the sum of the degrees of the
\* first k nodes.
IsSum(f, d) ==
    f = [k \in 0 .. n_nodes |->
            IF k = 0 THEN 0
            ELSE f[k - 1] + Degree(CHOOSE n \in GetNodes : Cardinality({m \in GetNodes : m < n}) = k - 1, d)]

\* The k-th node, from 0.
NodeAt(k) == CHOOSE n \in nodes : Rank(nodes, n) = k

LEMMA NodeAtRight ==
    ASSUME ImportInv
    PROVE  /\ IsFiniteSet(nodes) /\ n_nodes = Cardinality(nodes) /\ n_nodes \in Nat
           /\ \A k \in 0 .. n_nodes - 1 : NodeAt(k) \in nodes /\ Rank(nodes, NodeAt(k)) = k
           /\ \A n \in nodes : Rank(nodes, n) \in 0 .. n_nodes - 1 /\ NodeAt(Rank(nodes, n)) = n
<1>1. IsFiniteSet(nodes) /\ n_nodes = Cardinality(nodes) /\ n_nodes \in Nat /\ nodes \in SUBSET Nat
  BY ImportReady, NodeIsId, IdTypes, FS_Subset, FS_CardinalityType, Zenon DEF ImportInv, SlotInv, SlotsAccounted
<1>2. ASSUME NEW k \in 0 .. n_nodes - 1 PROVE NodeAt(k) \in nodes /\ Rank(nodes, NodeAt(k)) = k
  <2>1. k \in Nat /\ k < Cardinality(nodes)
    BY <1>1
  <2>2. \E n \in nodes : Rank(nodes, n) = k
    BY <1>1, <2>1, RankExists, Zenon
  <2> QED BY <2>2, Zenon DEF NodeAt
<1>3. ASSUME NEW n \in nodes PROVE Rank(nodes, n) \in 0 .. n_nodes - 1
  BY <1>1, RankRight
<1>4. ASSUME NEW n \in nodes PROVE NodeAt(Rank(nodes, n)) = n
  <2>1. PICK m : m = NodeAt(Rank(nodes, n))
    BY Zenon
  <2>2. m \in nodes /\ Rank(nodes, m) = Rank(nodes, n)
    BY <1>2, <1>3, <2>1, Zenon
  <2>3. ~(m < n) /\ ~(n < m)
    BY <1>1, <1>3, <2>2, RankRight
  <2>4. m \in Nat /\ n \in Nat
    BY <1>1, <2>2, Zenon
  <2> QED BY <2>1, <2>3, <2>4
<1> QED BY <1>1, <1>2, <1>3, <1>4, Zenon

EndsBelow(k, d) == {p \in Ends(d) : Rank(nodes, p[1]) < k}

LEMMA EndsBelowRight ==
    ASSUME ImportInv, NEW d, NEW k \in 0 .. n_nodes
    PROVE  /\ IsFiniteSet(EndsBelow(k, d)) /\ Cardinality(EndsBelow(k, d)) \in Nat
           /\ k = 0 => Cardinality(EndsBelow(k, d)) = 0
           /\ k # 0 => Cardinality(EndsBelow(k, d)) =
                          Cardinality(EndsBelow(k - 1, d)) + Degree(NodeAt(k - 1), d)
           /\ k = n_nodes => EndsBelow(k, d) = Ends(d)
<1>1. /\ IsFiniteSet(nodes) /\ n_nodes \in Nat
      /\ \A i \in 0 .. n_nodes - 1 : NodeAt(i) \in nodes /\ Rank(nodes, NodeAt(i)) = i
      /\ \A n \in nodes : Rank(nodes, n) \in 0 .. n_nodes - 1 /\ NodeAt(Rank(nodes, n)) = n
  BY NodeAtRight, Zenon
<1>2. IsFiniteSet(Ends(d)) /\ \A p \in Ends(d) : p[1] \in nodes
  <2>1. IsFiniteSet(rels)
    BY FiniteCounts, Zenon DEF ImportInv
  <2>2. IsFiniteSet(nodes \X rels)
    BY <1>1, <2>1, FS_Product, Zenon
  <2> QED BY <2>2, FS_Subset, Zenon DEF Ends
<1>3. \A i : EndsBelow(i, d) \in SUBSET Ends(d)
  BY Zenon DEF EndsBelow
<1>4. \A i : IsFiniteSet(EndsBelow(i, d)) /\ Cardinality(EndsBelow(i, d)) \in Nat
  BY <1>2, <1>3, FS_Subset, FS_CardinalityType, Zenon
<1>5. k = 0 => EndsBelow(k, d) = {}
  BY <1>1, <1>2 DEF EndsBelow
<1>6. k = n_nodes => EndsBelow(k, d) = Ends(d)
  BY <1>1, <1>2 DEF EndsBelow
<1>7. ASSUME k # 0
      PROVE  Cardinality(EndsBelow(k, d)) = Cardinality(EndsBelow(k - 1, d)) + Degree(NodeAt(k - 1), d)
  <2> DEFINE n == NodeAt(k - 1)
             A == EndsBelow(k - 1, d)
             B == {p \in Ends(d) : p[1] = n}
  <2>1. k - 1 \in 0 .. n_nodes - 1 /\ n \in nodes /\ Rank(nodes, n) = k - 1
    BY <1>1, <1>7
  <2> HIDE DEF n
  <2>2. \A m \in nodes : Rank(nodes, m) < k <=> Rank(nodes, m) < k - 1 \/ m = n
    <3> SUFFICES ASSUME NEW m \in nodes PROVE Rank(nodes, m) < k <=> Rank(nodes, m) < k - 1 \/ m = n
      BY Zenon
    <3>1. Rank(nodes, m) \in Nat /\ (Rank(nodes, m) = k - 1 <=> m = n)
      <4>1. Rank(nodes, m) = k - 1 => m = n
        BY <1>1, <2>1, Zenon DEF n
      <4> QED BY <1>1, <2>1, <4>1
    <3> QED BY <3>1, <2>1, <1>7
  <2>3. EndsBelow(k, d) = A \cup B /\ A \cap B = {}
    <3>1. \A p \in Ends(d) : p \in EndsBelow(k, d) <=> p \in A \cup B
      BY <1>2, <2>2, Zenon DEF EndsBelow
    <3>2. A \cap B = {}
      BY <2>1 DEF EndsBelow
    <3> QED BY <1>3, <3>1, <3>2, Zenon
  <2>4. IsFiniteSet(A) /\ IsFiniteSet(B) /\ Cardinality(A) \in Nat
    BY <1>2, <1>4, FS_Subset, Zenon
  <2>5. Cardinality(A \cup B) = Cardinality(A) + Cardinality(B) - Cardinality({})
    BY <2>3, <2>4, FS_Union
  <2>6. GraphInv
    BY Zenon DEF ImportInv
  <2>7. Degree(n, d) = Cardinality(B) /\ Degree(n, d) \in Nat
    BY <2>1, <2>6, DegreeRight, Zenon
  <2>8. Cardinality({}) = 0
    BY FS_EmptySet, Zenon
  <2> HIDE DEF A, B
  <2>9. Cardinality(EndsBelow(k, d)) = Cardinality(A) + Degree(n, d)
    BY <2>3, <2>4, <2>5, <2>7, <2>8
  <2> QED BY <2>9, Zenon DEF A, n
<1> QED BY <1>4, <1>5, <1>6, <1>7, FS_EmptySet, Zenon

\* The sums of degree.c count the ends of relationships.
LEMMA TotalRight ==
    ASSUME ImportInv, NEW d
    PROVE  TotalDegree(d) = Cardinality(Ends(d))
<1> DEFINE N == n_nodes
           g == [k \in 0 .. N |-> Cardinality(EndsBelow(k, d))]
           f == CHOOSE h : IsSum(h, d)
<1>1. N \in Nat
  BY NodeAtRight, Zenon
<1>2. \A k : (CHOOSE n \in GetNodes : Cardinality({m \in GetNodes : m < n}) = k) = NodeAt(k)
  BY ImportReady, GetNodesAll, Zenon DEF NodeAt, Rank
<1>3. \A h : IsSum(h, d) <=>
         h = [k \in 0 .. N |-> IF k = 0 THEN 0 ELSE h[k - 1] + Degree(NodeAt(k - 1), d)]
  BY <1>2, Zenon DEF IsSum
<1>4. \A k \in 0 .. N : g[k] = IF k = 0 THEN 0 ELSE g[k - 1] + Degree(NodeAt(k - 1), d)
  <2> SUFFICES ASSUME NEW k \in 0 .. N
               PROVE  g[k] = IF k = 0 THEN 0 ELSE g[k - 1] + Degree(NodeAt(k - 1), d)
    BY Zenon
  <2>1. k # 0 => k - 1 \in 0 .. N
    BY <1>1
  <2> QED BY <2>1, EndsBelowRight, Zenon
<1>5. IsSum(g, d)
  <2>1. g = [k \in 0 .. N |-> g[k]]
    BY Zenon
  <2> HIDE DEF g
  <2> QED BY <1>3, <1>4, <2>1, Zenon
<1>6. IsSum(f, d)
  BY <1>5, Zenon
<1>7. TotalDegree(d) = f[N]
  BY Zenon DEF TotalDegree, IsSum
<1> HIDE DEF f, g
<1>8. \A k \in 0 .. N : f[k] = IF k = 0 THEN 0 ELSE f[k - 1] + Degree(NodeAt(k - 1), d)
  BY <1>3, <1>6, Zenon
<1>9. \A k \in 0 .. N : f[k] = g[k]
  <2> DEFINE T == {k \in 0 .. N : f[k] # g[k]}
  <2> SUFFICES ASSUME T # {} PROVE FALSE
    BY Zenon
  <2>1. T \in SUBSET Nat
    BY <1>1
  <2>2. PICK m \in T : \A y \in T : m <= y
    BY <2>1, LeastElement, Zenon
  <2>3. m \in 0 .. N /\ f[m] # g[m]
    BY Zenon
  <2>4. m # 0
    BY <2>3, <1>4, <1>8, Zenon
  <2>5. m - 1 \in 0 .. N /\ f[m - 1] = g[m - 1]
    BY <2>2, <2>3, <2>4, <1>1
  <2> QED BY <2>3, <2>4, <2>5, <1>4, <1>8, Zenon
<1>10. f[N] = g[N] /\ N \in 0 .. N
  BY <1>1, <1>9
<1>11. g[N] = Cardinality(Ends(d))
  BY <1>10, EndsBelowRight, Zenon DEF g
<1> QED BY <1>7, <1>10, <1>11, Zenon

\* Every relationship leaves one node and enters one, and a self loop is one
\* relationship of its node.
LEMMA EndsCounted ==
    ASSUME ImportInv
    PROVE  /\ Cardinality(Ends("OUTGOING")) = n_rels
           /\ Cardinality(Ends("INCOMING")) = n_rels
           /\ Cardinality(Ends("BOTH")) =
                 2 * n_rels - Cardinality({r \in rels : relationship[r].source = relationship[r].target})
<1> DEFINE O == Ends("OUTGOING")
           I == Ends("INCOMING")
           L == {r \in rels : relationship[r].source = relationship[r].target}
           o == [r \in rels |-> <<relationship[r].source, r>>]
           i == [r \in rels |-> <<relationship[r].target, r>>]
           l == [r \in L |-> <<relationship[r].source, r>>]
<1>1. /\ IsFiniteSet(rels) /\ Cardinality(rels) = n_rels /\ n_rels \in Nat
      /\ \A r \in rels : relationship[r].source \in nodes /\ relationship[r].target \in nodes
  BY FiniteCounts, FS_CardinalityType, Zenon DEF ImportInv, GraphInv, SlotInv, SlotsAccounted
<1>2. \A p : /\ p \in O <=> p \in nodes \X rels /\ relationship[p[2]].source = p[1]
             /\ p \in I <=> p \in nodes \X rels /\ relationship[p[2]].target = p[1]
             /\ p \in Ends("BOTH") <=> p \in O \/ p \in I
  BY Zenon DEF Ends, Matches
<1> HIDE DEF O, I
<1>3. \A p \in nodes \X rels : p = <<p[1], p[2]>> /\ p[2] \in rels
  OBVIOUS
<1>4. IsFiniteSet(O) /\ Cardinality(O) = Cardinality(rels)
  <2>1. \A r \in rels : o[r] \in O
    BY <1>1, <1>2, Zenon
  <2>2. \A p \in O : \E r \in rels : o[r] = p
    <3> SUFFICES ASSUME NEW p \in O PROVE \E r \in rels : o[r] = p
      BY Zenon
    <3>1. p = <<relationship[p[2]].source, p[2]>> /\ p[2] \in rels
      BY <1>2, <1>3, Zenon
    <3> QED BY <3>1, Zenon
  <2>3. DOMAIN o = rels /\ o = [x \in rels |-> o[x]] /\ \A x, y \in rels : o[x] = o[y] => x = y
    BY Zenon
  <2> HIDE DEF o
  <2> QED BY <1>1, <2>1, <2>2, <2>3, ImageSize
<1>5. IsFiniteSet(I) /\ Cardinality(I) = Cardinality(rels)
  <2>1. \A r \in rels : i[r] \in I
    BY <1>1, <1>2, Zenon
  <2>2. \A p \in I : \E r \in rels : i[r] = p
    <3> SUFFICES ASSUME NEW p \in I PROVE \E r \in rels : i[r] = p
      BY Zenon
    <3>1. p = <<relationship[p[2]].target, p[2]>> /\ p[2] \in rels
      BY <1>2, <1>3, Zenon
    <3> QED BY <3>1, Zenon
  <2>3. DOMAIN i = rels /\ i = [x \in rels |-> i[x]] /\ \A x, y \in rels : i[x] = i[y] => x = y
    BY Zenon
  <2> HIDE DEF i
  <2> QED BY <1>1, <2>1, <2>2, <2>3, ImageSize
<1>6. Cardinality(O \cap I) = Cardinality(L) /\ Cardinality(L) \in Nat
  <2>1. \A r \in L : l[r] \in O \cap I
    BY <1>1, <1>2, Zenon
  <2>2. \A p \in O \cap I : \E r \in L : l[r] = p
    <3> SUFFICES ASSUME NEW p \in O \cap I PROVE \E r \in L : l[r] = p
      BY Zenon
    <3>1. p = <<relationship[p[2]].source, p[2]>> /\ p[2] \in L
      BY <1>2, <1>3, Zenon
    <3> QED BY <3>1, Zenon
  <2>3. DOMAIN l = L /\ l = [x \in L |-> l[x]] /\ \A x, y \in L : l[x] = l[y] => x = y
    BY Zenon
  <2>4. IsFiniteSet(L) /\ Cardinality(L) \in Nat
    BY <1>1, FS_Subset, FS_CardinalityType, Zenon
  <2> HIDE DEF l, L
  <2> QED BY <2>1, <2>2, <2>3, <2>4, ImageSize
<1>7. Ends("BOTH") = O \cup I
  BY <1>2, Zenon
<1>8. Cardinality(O \cup I) = Cardinality(O) + Cardinality(I) - Cardinality(O \cap I)
  BY <1>4, <1>5, FS_Union, Zenon
<1> HIDE DEF L
<1>9. Cardinality(Ends("BOTH")) = 2 * n_rels - Cardinality(L)
  <2>1. PICK a, b, c : a = Cardinality(O) /\ b = Cardinality(I) /\ c = Cardinality(L)
    BY Zenon
  <2>2. a = n_rels /\ b = n_rels /\ c \in Nat /\ n_rels \in Nat
    BY <1>1, <1>4, <1>5, <1>6, <2>1, Zenon
  <2>3. Cardinality(Ends("BOTH")) = a + b - c
    BY <1>6, <1>7, <1>8, <2>1, Zenon
  <2>4. a + b - c = 2 * n_rels - c
    BY <2>2
  <2> QED BY <2>1, <2>3, <2>4, Zenon
<1> QED BY <1>1, <1>4, <1>5, <1>9, Zenon DEF O, I, L

\* A bound of all degrees, times the number of nodes, bounds their sum.
LEMMA DegreesBounded ==
    ASSUME ImportInv, NEW d, NEW b \in Nat
    PROVE  /\ (\A n \in nodes : b <= Degree(n, d)) => b * n_nodes <= Cardinality(Ends(d))
           /\ (\A n \in nodes : Degree(n, d) <= b) => Cardinality(Ends(d)) <= b * n_nodes
<1> DEFINE N == n_nodes
           E(k) == Cardinality(EndsBelow(k, d))
<1>1. /\ N \in Nat
      /\ \A k \in 0 .. N - 1 : NodeAt(k) \in nodes
  BY NodeAtRight, Zenon
<1>2. \A k \in 0 .. N : E(k) \in Nat /\ (k = 0 => E(k) = 0)
  BY EndsBelowRight, Zenon
<1>3. \A k \in 1 .. N : E(k) = E(k - 1) + Degree(NodeAt(k - 1), d)
  BY EndsBelowRight
<1>4. E(N) = Cardinality(Ends(d)) /\ N \in 0 .. N
  BY <1>1, EndsBelowRight
<1>5. \A n \in nodes : Degree(n, d) \in Nat
  BY DegreeRight, Zenon DEF ImportInv
<1>6. \A k \in 1 .. N : k - 1 \in 0 .. N /\ k - 1 \in 0 .. N - 1 /\ k - 1 \in Nat /\ k \in Nat
  BY <1>1
<1>7. \A k \in Nat : b * k \in Nat
  OBVIOUS
<1>8. \A k \in 1 .. N : b * k = b * (k - 1) + b
  BY <1>1
<1>9. b * 0 = 0
  OBVIOUS
<1> HIDE DEF E, N
<1>10. ASSUME \A n \in nodes : b <= Degree(n, d) PROVE b * N <= E(N)
  <2> DEFINE T == {k \in 0 .. N : ~(b * k <= E(k))}
  <2> SUFFICES ASSUME T # {} PROVE FALSE
    BY <1>1
  <2>1. T \in SUBSET Nat
    BY <1>1
  <2>2. PICK m \in T : \A y \in T : m <= y
    BY <2>1, LeastElement, Zenon
  <2>3. m \in 0 .. N /\ m \in Nat /\ ~(b * m <= E(m))
    BY <2>1, Zenon
  <2>4. m # 0 /\ m \in 1 .. N
    BY <2>3, <1>2, <1>9
  <2>5. b * (m - 1) <= E(m - 1)
    <3>1. m - 1 \in 0 .. N /\ ~(m <= m - 1)
      BY <2>4, <1>6
    <3> QED BY <3>1, <2>2, Zenon
  <2>6. PICK g \in Nat : g = Degree(NodeAt(m - 1), d) /\ b <= g
    BY <1>1, <1>5, <1>6, <1>10, <2>4, Zenon
  <2>7. PICK x, y, u, v : x = b * m /\ y = b * (m - 1) /\ u = E(m) /\ v = E(m - 1)
    BY Zenon
  <2>8. x \in Nat /\ y \in Nat /\ u \in Nat /\ v \in Nat
    BY <2>3, <2>4, <2>7, <1>2, <1>6, <1>7, Zenon
  <2>9. x = y + b /\ u = v + g /\ y <= v /\ ~(x <= u)
    BY <2>3, <2>4, <2>5, <2>6, <2>7, <1>3, <1>8, Zenon
  <2> QED BY <2>6, <2>8, <2>9
<1>11. ASSUME \A n \in nodes : Degree(n, d) <= b PROVE E(N) <= b * N
  <2> DEFINE T == {k \in 0 .. N : ~(E(k) <= b * k)}
  <2> SUFFICES ASSUME T # {} PROVE FALSE
    BY <1>1
  <2>1. T \in SUBSET Nat
    BY <1>1
  <2>2. PICK m \in T : \A y \in T : m <= y
    BY <2>1, LeastElement, Zenon
  <2>3. m \in 0 .. N /\ m \in Nat /\ ~(E(m) <= b * m)
    BY <2>1, Zenon
  <2>4. m # 0 /\ m \in 1 .. N
    BY <2>3, <1>2, <1>9
  <2>5. E(m - 1) <= b * (m - 1)
    <3>1. m - 1 \in 0 .. N /\ ~(m <= m - 1)
      BY <2>4, <1>6
    <3> QED BY <3>1, <2>2, Zenon
  <2>6. PICK g \in Nat : g = Degree(NodeAt(m - 1), d) /\ g <= b
    BY <1>1, <1>5, <1>6, <1>11, <2>4, Zenon
  <2>7. PICK x, y, u, v : x = b * m /\ y = b * (m - 1) /\ u = E(m) /\ v = E(m - 1)
    BY Zenon
  <2>8. x \in Nat /\ y \in Nat /\ u \in Nat /\ v \in Nat
    BY <2>3, <2>4, <2>7, <1>2, <1>6, <1>7, Zenon
  <2>9. x = y + b /\ u = v + g /\ v <= y /\ ~(u <= x)
    BY <2>3, <2>4, <2>5, <2>6, <2>7, <1>3, <1>8, Zenon
  <2> QED BY <2>6, <2>8, <2>9
<1> QED BY <1>4, <1>10, <1>11, Zenon DEF N

LEMMA DegreesRight == ImportInv => DegreesAddUp
<1> SUFFICES ASSUME ImportInv PROVE DegreesAddUp
  BY Zenon
<1>1. GetNodes = nodes /\ n_nodes \in Nat /\ n_nodes = Cardinality(nodes) /\ IsFiniteSet(nodes)
  BY ImportReady, GetNodesAll, NodeAtRight, Zenon
<1>2. \A d : TotalDegree(d) = Cardinality(Ends(d))
  BY TotalRight, Zenon
<1>3. ASSUME n_nodes > 0, NEW d \in Directions
      PROVE  /\ Landmarks(d) # {}
             /\ MinDegree(d) * n_nodes <= TotalDegree(d)
             /\ MaxDegree(d) * n_nodes >= TotalDegree(d)
  <2> DEFINE D == {Degree(n, d) : n \in nodes}
  <2>1. nodes # {}
    BY <1>1, <1>3, FS_EmptySet
  <2>2. \A n \in nodes : Degree(n, d) \in Nat /\ Degree(n, d) <= Cardinality(Ends(d))
    <3> SUFFICES ASSUME NEW n \in nodes PROVE Degree(n, d) \in Nat /\ Degree(n, d) <= Cardinality(Ends(d))
      BY Zenon
    <3>1. n_nodes \in 0 .. n_nodes
      BY <1>1
    <3>2. IsFiniteSet(Ends(d))
      BY <3>1, EndsBelowRight, Zenon
    <3>3. Cardinality({p \in Ends(d) : p[1] = n}) <= Cardinality(Ends(d))
      BY <3>2, FS_Subset, Zenon
    <3> QED BY <3>3, DegreeRight, Zenon DEF ImportInv
  <2>3. \E x \in D : \A n \in nodes : x <= Degree(n, d)
    <3>1. D \in SUBSET Nat /\ D # {}
      BY <2>1, <2>2, Zenon
    <3>2. PICK x \in D : \A y \in D : x <= y
      BY <3>1, LeastElement, Zenon
    <3> QED BY <3>2, Zenon
  <2>4. \E x \in D : \A n \in nodes : x >= Degree(n, d)
    <3> DEFINE C == Cardinality(Ends(d))
               M == {C - Degree(n, d) : n \in nodes}
    <3>1. C \in Nat
      <4>1. n_nodes \in 0 .. n_nodes
        BY <1>1
      <4> QED BY <4>1, EndsBelowRight, Zenon
    <3> HIDE DEF C
    <3>2. \A n \in nodes : C - Degree(n, d) \in Nat
      BY <2>2, <3>1 DEF C
    <3>3. M \in SUBSET Nat /\ M # {}
      BY <2>1, <3>2, Zenon
    <3>4. PICK y \in M : \A z \in M : y <= z
      BY <3>3, LeastElement, Zenon
    <3>5. PICK m \in nodes : y = C - Degree(m, d)
      BY Zenon
    <3>6. \A n \in nodes : C - Degree(m, d) <= C - Degree(n, d)
      BY <3>4, <3>5, Zenon
    <3>7. \A n \in nodes : Degree(m, d) >= Degree(n, d)
      BY <3>1, <3>6, <2>2
    <3> QED BY <3>7, Zenon
  <2>5. MinDegree(d) \in D /\ \A n \in nodes : MinDegree(d) <= Degree(n, d)
    BY <1>1, <2>3, Zenon DEF MinDegree
  <2>6. MaxDegree(d) \in D /\ \A n \in nodes : MaxDegree(d) >= Degree(n, d)
    BY <1>1, <2>4, Zenon DEF MaxDegree
  <2>7. PICK b \in Nat, c \in Nat : b = MinDegree(d) /\ c = MaxDegree(d)
    BY <2>2, <2>5, <2>6, Zenon
  <2>8. \A n \in nodes : b <= Degree(n, d) /\ Degree(n, d) <= c
    BY <2>2, <2>5, <2>6, <2>7, Zenon
  <2>9. b * n_nodes <= TotalDegree(d) /\ TotalDegree(d) <= c * n_nodes
    BY <1>2, <2>8, DegreesBounded, Zenon
  <2>10. PICK n \in nodes : c = Degree(n, d)
    BY <2>6, <2>7, Zenon
  <2>11. TotalDegree(d) \in Nat /\ c * n_nodes \in Nat
    <3>1. n_nodes \in 0 .. n_nodes
      BY <1>1
    <3>2. Cardinality(Ends(d)) \in Nat
      BY <3>1, EndsBelowRight, Zenon
    <3> QED BY <3>2, <1>1, <1>2
  <2>12. c * n_nodes >= TotalDegree(d)
    <3>1. PICK x, y : x = c * n_nodes /\ y = TotalDegree(d)
      BY Zenon
    <3>2. x \in Nat /\ y \in Nat /\ y <= x
      BY <3>1, <2>9, <2>11, Zenon
    <3>3. x >= y
      BY <3>2, Zenon
    <3> QED BY <3>1, <3>3, Zenon
  <2>13. n \in Landmarks(d)
    BY <1>1, <2>10, <2>12, Zenon DEF Landmarks
  <2> QED BY <2>7, <2>9, <2>12, <2>13, Zenon
<1> QED BY <1>2, <1>3, EndsCounted, Zenon DEF DegreesAddUp

------------------------------------------------------------------------------
(* contains_relationship_from_to *)

\* The loop is at a relationship of the chain of from, and none of those before it
\* is the one searched for.
SearchedTo(m, c, i) ==
    /\ IsRing(relationship, rels, search.start, search.from, m, c)
    /\ search.at = c[i]
    /\ \A j \in 1 .. i - 1 : ~IsFromTo(c[j], search.from, search.to, search.dir)

SearchInv ==
    /\ search = [state |-> search.state, from |-> search.from, to |-> search.to,
                 dir |-> search.dir, start |-> search.start, at |-> search.at]
    /\ search.dir \in Directions
    /\ search.state = "running" => \E m \in Nat : \E c, i : i \in 1 .. m /\ SearchedTo(m, c, i)
    /\ AnswerRight

LEMMA FromToMatches ==
    ASSUME NEW r, NEW from, NEW to, NEW d \in Directions, IsFromTo(r, from, to, d)
    PROVE  Matches(from, r, d)
BY Zenon DEF IsFromTo, Matches, Directions

LEMMA BeginSearchRight ==
    ASSUME GraphInv, NEW from, NEW to, NEW d \in Directions, Begin(from, to, d)
    PROVE  SearchInv'
<1> DEFINE s == [state |-> "none", from |-> from, to |-> to, dir |-> d, start |-> NoId, at |-> NoId]
           starts == {from, to} \subseteq nodes /\ NoId \notin {first_relationship[from], first_relationship[to]}
<1>0. s = [NoSearch EXCEPT !.from = from, !.to = to, !.dir = d]
  <2> DEFINE a == [state |-> "none", from |-> from, to |-> NoId, dir |-> "BOTH", start |-> NoId, at |-> NoId]
             b == [state |-> "none", from |-> from, to |-> to, dir |-> "BOTH", start |-> NoId, at |-> NoId]
  <2>1. a = [NoSearch EXCEPT !.from = from]
    BY DEF NoSearch
  <2>2. b = [a EXCEPT !.to = to]
    OBVIOUS
  <2>3. s = [b EXCEPT !.dir = d]
    OBVIOUS
  <2> HIDE DEF s, a, b
  <2> QED BY <2>1, <2>2, <2>3, Zenon
<1> HIDE DEF s
<1>1. /\ search' = IF starts THEN [s EXCEPT !.state = "running", !.start = first_relationship[from],
                                            !.at = first_relationship[from]]
                   ELSE [s EXCEPT !.state = "not found"]
      /\ UNCHANGED vars
  BY <1>0, Zenon DEF Begin
<1>2. relationship' = relationship /\ rels' = rels
  BY <1>1, Zenon DEF vars, relVars
<1>3. CASE starts
  <2>1. PICK first : first = first_relationship[from]
    BY Zenon
  <2>2. search' = [state |-> "running", from |-> from, to |-> to, dir |-> d, start |-> first, at |-> first]
    BY <1>1, <1>3, <2>1, Zenon DEF s
  <2>0. PICK m \in Nat : \E c : IsRing(relationship, rels, first, from, m, c)
    BY <1>3, <2>1, Zenon DEF GraphInv, HasRing
  <2>3. PICK c : IsRing(relationship, rels, first, from, m, c)
    BY <2>0, Zenon
  <2>4. 1 \in 1 .. m /\ first = c[1]
    BY <1>3, <2>1, <2>3 DEF IsRing
  <2>5. SearchedTo(m, c, 1)'
    <3>1. 1 .. 1 - 1 = {}
      OBVIOUS
    <3> QED BY <1>2, <2>2, <2>3, <2>4, <3>1, Zenon DEF SearchedTo
  <2> QED BY <2>2, <2>4, <2>5, Zenon DEF SearchInv, AnswerRight
<1>4. CASE ~starts
  <2>1. search' = [state |-> "not found", from |-> from, to |-> to, dir |-> d, start |-> NoId, at |-> NoId]
    BY <1>1, <1>4, Zenon DEF s
  <2>2. ASSUME NEW r \in rels, IsFromTo(r, from, to, d) PROVE FALSE
    <3>1. {from, to} \subseteq nodes /\ EndOf(relationship, from, r) /\ EndOf(relationship, to, r)
      BY <2>2, Zenon DEF GraphInv, IsFromTo, EndOf
    <3>2. ASSUME NEW n \in {from, to} PROVE first_relationship[n] # NoId
      <4>0. PICK m \in Nat : \E c : IsRing(relationship, rels, first_relationship[n], n, m, c)
        BY <3>1, Zenon DEF GraphInv, HasRing
      <4>1. PICK c : IsRing(relationship, rels, first_relationship[n], n, m, c)
        BY <4>0, Zenon
      <4>2. \E i \in 1 .. m : c[i] = r
        BY <3>1, <4>1, Zenon DEF IsRing
      <4>3. 1 \in 1 .. m /\ m # 0
        BY <4>2
      <4>4. first_relationship[n] = c[1] /\ c[1] \in rels
        BY <4>1, <4>3, Zenon DEF IsRing
      <4> QED BY <4>4, NoIdApart, Zenon DEF GraphInv
    <3> QED BY <1>4, <3>1, <3>2, Zenon
  <2>3. AnswerRight'
    BY <1>2, <2>1, <2>2, Zenon DEF AnswerRight, IsFromTo
  <2> QED BY <2>1, <2>3, Zenon DEF SearchInv
<1> QED BY <1>3, <1>4, Zenon

LEMMA SearchStepRight ==
    ASSUME GraphInv, SearchInv, Step
    PROVE  SearchInv'
<1> DEFINE n  == search.from
           d  == search.dir
           at == search.at
           x  == NextRelationshipId(n, at, d)
<1>1. d \in Directions
  BY Zenon DEF SearchInv
<1>2. PICK m \in Nat : \E c, i : i \in 1 .. m /\ SearchedTo(m, c, i)
  BY Zenon DEF SearchInv, Step
<1>3. PICK c : \E i \in 1 .. m : SearchedTo(m, c, i)
  BY <1>2, Zenon
<1>4. PICK i \in 1 .. m : SearchedTo(m, c, i)
  BY <1>3, Zenon
<1>5. PICK first : first = search.start
  BY Zenon
<1>6. /\ IsRing(relationship, rels, first, n, m, c) /\ at = c[i]
      /\ \A j \in 1 .. i - 1 : ~IsFromTo(c[j], n, search.to, d)
  BY <1>4, <1>5, Zenon DEF SearchedTo
<1>7. /\ c \in [1 .. m -> rels] /\ first = c[1] /\ 1 \in 1 .. m
      /\ \A p, q \in 1 .. m : c[p] = c[q] => p = q
      /\ \A r \in rels : EndOf(relationship, n, r) => \E p \in 1 .. m : c[p] = r
  BY <1>6 DEF IsRing
<1>8. UNCHANGED <<relationship, rels>> /\ \A r, f, t, e : IsFromTo(r, f, t, e)' = IsFromTo(r, f, t, e)
  BY DEF Step, vars, relVars, IsFromTo
<1>9. CASE IsFromTo(at, n, search.to, d) /\ search' = [search EXCEPT !.state = "found"]
  <2>1. search' = [state |-> "found", from |-> n, to |-> search.to, dir |-> d,
                   start |-> search.start, at |-> at]
    BY <1>9, Zenon DEF SearchInv
  <2>2. at \in rels
    BY <1>6, <1>7, Zenon
  <2> HIDE DEF at, n, d
  <2>3. /\ search'.state = "found" /\ search'.at = at /\ search'.from = n
        /\ search'.to = search.to /\ search'.dir = d
    BY <2>1, Zenon
  <2>4. AnswerRight'
    BY <1>8, <1>9, <2>2, <2>3, Zenon DEF AnswerRight
  <2> QED BY <1>1, <2>1, <2>4, Zenon DEF SearchInv
<1>10. ASSUME ~IsFromTo(at, n, search.to, d), x \in {first, NoId} PROVE \A r \in rels : ~IsFromTo(r, n, search.to, d)
  <2> SUFFICES ASSUME NEW r \in rels, IsFromTo(r, n, search.to, d) PROVE FALSE
    BY Zenon
  <2>1. Matches(n, r, d) /\ EndOf(relationship, n, r)
    BY <1>1, FromToMatches, Zenon DEF IsFromTo, EndOf
  <2>2. PICK p \in 1 .. m : c[p] = r
    BY <1>7, <2>1, Zenon
  <2>3. p \in i + 1 .. m
    BY <1>6, <1>10, <2>2
  <2>4. \/ x = NoId /\ \A q \in 1 .. m : q # i => ~Matches(n, c[q], d)
        \/ \E k \in 1 .. m - 1 :
              /\ x = c[Place(m, i + k)] /\ Matches(n, x, d)
              /\ \A j \in 1 .. k - 1 : ~Matches(n, c[Place(m, i + j)], d)
    BY <1>6, NextIdRight, Zenon
  <2>5. PICK k \in 1 .. m - 1 : /\ x = c[Place(m, i + k)]
                                /\ \A j \in 1 .. k - 1 : ~Matches(n, c[Place(m, i + j)], d)
    BY <2>1, <2>2, <2>3, <2>4
  <2>6. Place(m, i + k) \in 1 .. m
    BY DEF Place
  <2>7. x \in rels
    BY <1>7, <2>5, <2>6
  <2>8. x = c[1]
    BY <1>7, <1>10, <2>7, NoIdApart DEF GraphInv
  <2>9. Place(m, i + k) = 1
    BY <1>7, <2>5, <2>6, <2>8, Zenon
  <2>10. i + k = m + 1
    BY <2>9 DEF Place
  <2>11. p - i \in 1 .. k - 1 /\ Place(m, i + (p - i)) = p
    BY <2>3, <2>10 DEF Place
  <2> QED BY <2>1, <2>2, <2>5, <2>11, Zenon
<1>11. CASE /\ ~IsFromTo(at, n, search.to, d) /\ x \in {first, NoId}
           /\ search' = [search EXCEPT !.state = "not found", !.at = NoId]
  <2>1. search' = [state |-> "not found", from |-> n, to |-> search.to, dir |-> d,
                   start |-> search.start, at |-> NoId]
    BY <1>11, Zenon DEF SearchInv
  <2> QED BY <1>8, <1>10, <1>11, <2>1, Zenon DEF SearchInv, AnswerRight
<1>12. CASE ~IsFromTo(at, n, search.to, d) /\ x \notin {first, NoId} /\ search' = [search EXCEPT !.at = x]
  <2>1. search.state = "running"
    BY Zenon DEF Step
  <2>2. search' = [state |-> "running", from |-> n, to |-> search.to, dir |-> d,
                   start |-> search.start, at |-> x]
    BY <1>12, <2>1, Zenon DEF SearchInv
  <2>3. \/ x = NoId /\ \A q \in 1 .. m : q # i => ~Matches(n, c[q], d)
        \/ \E k \in 1 .. m - 1 :
              /\ x = c[Place(m, i + k)] /\ Matches(n, x, d)
              /\ \A j \in 1 .. k - 1 : ~Matches(n, c[Place(m, i + j)], d)
    BY <1>6, NextIdRight, Zenon
  <2>4. PICK k \in 1 .. m - 1 : /\ x = c[Place(m, i + k)]
                                /\ \A j \in 1 .. k - 1 : ~Matches(n, c[Place(m, i + j)], d)
    BY <1>12, <2>3, Zenon
  <2>5. PICK p \in 1 .. m : p = Place(m, i + k)
    <3>1. Place(m, i + k) \in 1 .. m
      BY DEF Place
    <3> QED BY <3>1, Zenon
  <2>6. ASSUME NEW j \in 1 .. p - 1 PROVE ~IsFromTo(c[j], n, search.to, d)
    <3>1. CASE j < i
      BY <3>1, <1>6
    <3>2. CASE j = i
      BY <3>2, <1>6, <1>12, Zenon
    <3>3. CASE j > i
      <4>1. p = i + k /\ j - i \in 1 .. k - 1 /\ Place(m, i + (j - i)) = j
        BY <2>5, <3>3 DEF Place
      <4>2. ~Matches(n, c[j], d)
        BY <2>4, <4>1, Zenon
      <4> QED BY <1>1, <4>2, FromToMatches, Zenon
    <3> QED BY <3>1, <3>2, <3>3
  <2>7. SearchedTo(m, c, p)'
    BY <1>5, <1>6, <1>8, <2>2, <2>4, <2>5, <2>6, Zenon DEF SearchedTo
  <2> QED BY <2>2, <2>7, Zenon DEF SearchInv, AnswerRight
<1> QED BY <1>5, <1>9, <1>11, <1>12, Zenon DEF Step

LEMMA SameSearchKeeps ==
    ASSUME SearchInv, UNCHANGED <<vars, search>> \/ (Exit(status') /\ search' = search)
    PROVE  SearchInv'
<1>1. UNCHANGED <<rels, relationship, search>>
  BY Zenon DEF Exit, vars, relVars
<1>2. \A m, c, i : SearchedTo(m, c, i)' = SearchedTo(m, c, i)
  BY <1>1 DEF SearchedTo, IsFromTo
<1>3. AnswerRight' = AnswerRight
  BY <1>1, Zenon DEF AnswerRight, IsFromTo
<1> QED BY <1>1, <1>2, <1>3, Zenon DEF SearchInv

------------------------------------------------------------------------------
(* All calls *)

QueryInv ==
    /\ ImportInv
    /\ SearchInv
    /\ search.state # "none" => import = "after"
    /\ LoopsInv

LEMMA SameGraphKeeps ==
    ASSUME ImportInv, SearchInv, Exit("bad call") \/ UNCHANGED vars, UNCHANGED <<importVars, search>>
    PROVE  ImportInv' /\ SearchInv'
<1>1. (Exit(status') \/ UNCHANGED vars) /\ status' # "dangling"
  BY Zenon DEF Exit, ImportInv, NeverDangling, vars
<1>2. SearchInv'
  BY <1>1, SameSearchKeeps, Zenon
<1> QED BY <1>1, <1>2, SameFileKeeps, Zenon DEF importVars

\* No query changes the graph: one step is either of the import, or of a search, or
\* leaves everything but the query as it is.
LEMMA OneAtATime ==
    ASSUME [QueryNext]_queryVars
    PROVE  \/ ImportNext /\ UNCHANGED search
           \/ SearchStep \/ SearchReturns
           \/ \E from, to : \E d \in Directions : BeginSearch(from, to, d) /\ MayQuery
           \/ (Exit("bad call") \/ UNCHANGED vars) /\ UNCHANGED <<importVars, search>>
<1>1. UNCHANGED graphOnly => UNCHANGED vars /\ UNCHANGED <<importVars, search>>
  BY Zenon DEF graphOnly
<1>2. CASE QueryStep
  BY <1>1, <1>2, Zenon DEF QueryStep, VisitNext, LookAt, ExtractMin, Relax, AStarNext, AStarRelax,
                           AStarFound, AStarFails, AStarNotFound, WalkOn, WalkEnds, Return
<1>3. CASE BeginQuery
  <2>1. \A source, target, d, weight, h : BeginAStar(source, target, d, weight, h) => UNCHANGED graphOnly
    BY Zenon DEF BeginAStar
  <2>2. \A source, target, d, weight : BeginAlt(source, target, d, weight) => UNCHANGED graphOnly
    BY <2>1, Zenon DEF BeginAlt
  <2>3. \A source, d, k, weight :
           BeginTraversal(k, source, d) \/ BeginDijkstra(source, d, weight) \/ BeginWalk(source, d, k, weight)
              => UNCHANGED graphOnly
    BY Zenon DEF BeginTraversal, BeginDijkstra, BeginWalk
  <2>4. UNCHANGED graphOnly \/ \E from, to : \E d \in Directions : BeginSearch(from, to, d)
    BY <1>3, <2>1, <2>2, <2>3, Zenon DEF BeginQuery
  <2> QED BY <1>1, <1>3, <2>4, Zenon DEF BeginQuery
<1>4. CASE QueryFails
  BY <1>4, Zenon DEF QueryFails, BadCall
<1>5. CASE UNCHANGED queryVars
  BY <1>1, <1>5, Zenon DEF queryVars
<1> QED BY <1>2, <1>3, <1>4, <1>5, Zenon DEF QueryNext

LEMMA QueryInvStep == QueryInv /\ [QueryNext]_queryVars => QueryInv'
<1> SUFFICES ASSUME QueryInv, [QueryNext]_queryVars PROVE QueryInv'
  BY Zenon
<1>1. ImportInv /\ SearchInv /\ (search.state # "none" => import = "after") /\ LoopsInv
  BY Zenon DEF QueryInv
<1>2. LoopsInv'
  BY <1>1, ImportReady, LoopsInvStep, Zenon
<1>3. CASE ImportNext /\ UNCHANGED search
  <2>1. search.state = "none"
    BY <1>1, <1>3, Zenon DEF ImportNext, BeginImport, ReadLine, ImportField, ImportRelationship, ReadLineFails, EndImport
  <2>2. ImportInv' /\ SearchInv'
    BY <1>1, <1>3, <2>1, ImportInvStep, Zenon DEF SearchInv, AnswerRight
  <2> QED BY <1>2, <1>3, <2>1, <2>2, Zenon DEF QueryInv
<1>4. CASE (Exit("bad call") \/ UNCHANGED vars) /\ UNCHANGED <<importVars, search>>
  <2>1. ImportInv' /\ SearchInv'
    BY <1>1, <1>4, SameGraphKeeps, Zenon
  <2> QED BY <1>1, <1>2, <1>4, <2>1, Zenon DEF QueryInv, importVars
<1>5. ASSUME UNCHANGED vars, UNCHANGED importVars PROVE ImportInv' /\ import' = import
  BY <1>1, <1>5, SameFileKeeps, Zenon DEF ImportInv, NeverDangling, importVars, vars
<1>6. ASSUME NEW from, NEW to, NEW d \in Directions, BeginSearch(from, to, d), MayQuery PROVE QueryInv'
  <2>1. UNCHANGED vars /\ UNCHANGED importVars
    BY <1>6, Zenon DEF BeginSearch, Begin
  <2>2. SearchInv'
    BY <1>1, <1>6, BeginSearchRight, Zenon DEF BeginSearch, ImportInv
  <2>3. import = "after"
    BY <1>6, Zenon DEF MayQuery
  <2> QED BY <1>2, <1>5, <2>1, <2>2, <2>3, Zenon DEF QueryInv
<1>7. CASE SearchStep
  <2>1. UNCHANGED vars /\ UNCHANGED importVars /\ search.state # "none"
    BY <1>7, Zenon DEF SearchStep, Step
  <2>2. SearchInv'
    BY <1>1, <1>7, SearchStepRight, Zenon DEF SearchStep, ImportInv
  <2> QED BY <1>1, <1>2, <1>5, <2>1, <2>2, Zenon DEF QueryInv
<1>8. CASE SearchReturns
  <2>1. UNCHANGED vars /\ UNCHANGED importVars /\ search'.state = "none"
    BY <1>8, Zenon DEF SearchReturns, NoSearch
  <2>2. SearchInv'
    BY <1>8, Zenon DEF SearchReturns, SearchInv, NoSearch, AnswerRight, Directions
  <2> QED BY <1>2, <1>5, <2>1, <2>2, Zenon DEF QueryInv
<1> QED BY <1>3, <1>4, <1>6, <1>7, <1>8, OneAtATime, Zenon

LEMMA QueryInvInitial == QueryInit => QueryInv
<1> SUFFICES ASSUME QueryInit PROVE QueryInv
  BY Zenon
<1>1. ImportInv /\ LoopsInv
  BY ImportInvInitial, LoopsInvInitial, Zenon DEF QueryInit
<1>2. search.state = "none" /\ search.dir = "BOTH"
  BY Zenon DEF QueryInit, NoSearch
<1>3. search = [state |-> search.state, from |-> search.from, to |-> search.to,
                dir |-> search.dir, start |-> search.start, at |-> search.at]
  BY Zenon DEF QueryInit, NoSearch
<1>4. SearchInv
  BY <1>2, <1>3, Zenon DEF SearchInv, AnswerRight, Directions
<1> QED BY <1>1, <1>2, <1>4, Zenon DEF QueryInv

\* What an import leaves is a graph for every query: no chain leads to a record that
\* is not there, every chain is one ring, and expand returns each relationship of a
\* node once.
THEOREM ImportedGraphIsSound == QuerySpec => []GraphSound
<1>1. QueryInv => GraphSound
  BY RingsIntact, RingsExpand, Zenon DEF QueryInv, ImportInv, GraphSound
<1> QED BY <1>1, QueryInvInitial, QueryInvStep, PTL DEF QuerySpec

\* get_avg_degree, get_min_degree and get_max_degree on every graph that can be
\* imported: the degrees add up to the relationships, a self loop counted once where
\* both directions are asked for, and alt finds a landmark.
THEOREM DegreesAlwaysAddUp == QuerySpec => []DegreesAddUp
<1>1. QueryInv => DegreesAddUp
  BY DegreesRight, Zenon DEF QueryInv
<1> QED BY <1>1, QueryInvInitial, QueryInvStep, PTL DEF QuerySpec

\* contains_relationship_from_to, on every graph that can be imported: the answer
\* is a relationship of the direction asked for, and NULL only if there is none,
\* though the loop skips what next_relationship_id skips.
THEOREM AnswersAreRight == QuerySpec => []AnswerRight
<1>1. QueryInv => AnswerRight
  BY Zenon DEF QueryInv, SearchInv
<1> QED BY <1>1, QueryInvInitial, QueryInvStep, PTL DEF QuerySpec

\* On every graph that can be imported, bfs and dfs reach a node only by a
\* relationship of the direction asked for from a node with the number before, and
\* end only when no relationship that expand returns leads out of what they have
\* reached; dijkstra ends only when none shortens a distance, whatever the weights
\* and the order of the heap.
THEOREM LoopsAreSound == QuerySpec => []LoopsSound
<1>1. QueryInv => LoopsSound
  BY ImportReady, LoopsInvSound, Zenon DEF QueryInv
<1> QED BY <1>1, QueryInvInitial, QueryInvStep, PTL DEF QuerySpec

\* bfs numbers every node by its distance from the source, on every graph that can
\* be imported, dfs numbers every node that is reachable, and both no others.  The
\* number of nodes is below DBL_MAX, which stands for no distance.
THEOREM NumbersAreRight ==
    ASSUME Cardinality(NodeIds) < DblMax
    PROVE  QuerySpec => []NumbersRight
<1>1. QueryInv => NumbersRight
  BY ImportReady, LoopsInvNumbers, Zenon DEF QueryInv
<1> QED BY <1>1, QueryInvInitial, QueryInvStep, PTL DEF QuerySpec

\* dijkstra returns the lengths of shortest paths, on every graph that can be
\* imported, for all weights that are not negative and whatever order the heap has,
\* and the parents lead along such paths: when the heap is empty, a distance that
\* became shorter after it was used has been used again.
THEOREM DijkstraIsRight ==
    ASSUME NEW M, WeightsFit(M)
    PROVE  QuerySpec => []DijkstraRight
<1>1. QueryInv => DijkstraRight
  BY ImportReady, LoopsInvDistances, Zenon DEF QueryInv
<1> QED BY <1>1, QueryInvInitial, QueryInvStep, PTL DEF QuerySpec

==============================================================================
