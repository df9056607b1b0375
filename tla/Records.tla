--------------------------------- MODULE Records ---------------------------------
(***************************************************************************)
(* The record files for TLC, in three usages over the same variables: the  *)
(* chains, with small pages of few records; the slots, with records that   *)
(* fill several pages and are deleted at will; and reordering.  A          *)
(* behaviour is of one usage.                                              *)
(***************************************************************************)
EXTENDS Reorder

VARIABLE used_for  \* "chains", "slots", "reordering"

ChainFile == INSTANCE HeapFile WITH
                 SlotsPerPage <- 3, SlotsPerRel <- 1, NodePages <- 1, RelPages <- 1, Deletions <- "repaired"
SlotFile  == INSTANCE HeapFile WITH
                 SlotsPerPage <- 2, SlotsPerRel <- 2, NodePages <- 2, RelPages <- 2, Deletions <- "any"

recordVars == <<used_for, reorderVars>>

RecordsInit ==
    /\ used_for \in {"chains", "slots", "reordering"}
    /\ call = NoCall /\ changes = 0
    /\ CASE used_for = "chains" -> ChainFile!Init
         [] used_for = "slots" -> SlotFile!Init
         [] used_for = "reordering" -> Init

RecordsNext ==
    \/ used_for = "chains" /\ ChainFile!Next /\ UNCHANGED <<used_for, call, changes>>
    \/ used_for = "slots" /\ SlotFile!Next /\ UNCHANGED <<used_for, call, changes>>
    \/ used_for = "reordering" /\ ReorderNext /\ UNCHANGED used_for

RecordsSpec == RecordsInit /\ [][RecordsNext]_recordVars

------------------------------------------------------------------------------
(* The properties of HeapFile in the usages they are about *)

\* After every sequence of creations, deletions, swaps and sorts the chain of
\* every node is one ring through all its relationships; and without the last two
\* expand returns each that matches once, and no operation follows a chain to a
\* record that is gone, see HeapFile.
ChainsSound ==
    /\ used_for = "chains" => ChainFile!GraphSound
    /\ used_for = "reordering" => ChainsIntact

\* Creating and deleting keep the order of a chain, see HeapFile.
ChainOrderKept == [][used_for = "chains" /\ status' = "up" => ChainFile!OrderStep]_recordVars

\* No free slot is lost and the counters are exact, for records of several
\* slots, any deletion and reopening, see HeapFile.
SlotsSound == used_for = "slots" => SlotFile!TypeOK /\ SlotFile!SlotsAccounted
==============================================================================
