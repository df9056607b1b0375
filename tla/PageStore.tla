------------------------------ MODULE PageStore ------------------------------
(***************************************************************************)
(* What the page cache promises to the layers above it.  A database is a   *)
(* set of pages, every page has one current content, and there is a        *)
(* durable copy of it in the disk files.  A client sees the last write to  *)
(* a page, whatever the cache evicts, flushes or resizes meanwhile; an     *)
(* orderly shutdown makes every write durable; an exit(EXIT_FAILURE) keeps *)
(* exactly what had been written back.                                     *)
(***************************************************************************)
EXTENDS Integers

CONSTANTS
    Pages,      \* the pages of all disk files
    Values,     \* page contents
    Zero        \* the content of a freshly grown page

VARIABLES
    content,    \* content[p]: what a client that pins p reads
    durable,    \* durable[p]: what the disk file holds
    state       \* "up", "closed" (orderly), or "failed" (exit)

vars == <<content, durable, state>>

Init ==
    /\ content = [p \in Pages |-> Zero]
    /\ durable = content
    /\ state = "up"

\* The durable copies of the pages in S are brought up to date.
WrittenBack(S) ==
    durable' = [p \in Pages |-> IF p \in S THEN content[p] ELSE durable[p]]

Write(p, v) ==
    /\ state = "up"
    /\ content' = [content EXCEPT ![p] = v]
    /\ UNCHANGED <<durable, state>>

\* Pinning, unpinning, evicting, flushing, resizing: invisible to the client.
WriteBack ==
    /\ state = "up"
    /\ \E S \in SUBSET Pages : WrittenBack(S)
    /\ UNCHANGED <<content, state>>

Close ==
    /\ state = "up"
    /\ WrittenBack(Pages)
    /\ state' = "closed"
    /\ UNCHANGED content

Fail ==
    /\ state = "up"
    /\ \E S \in SUBSET Pages : WrittenBack(S)
    /\ content' = durable'
    /\ state' = "failed"

Open ==
    /\ state # "up"
    /\ state' = "up"
    /\ UNCHANGED <<content, durable>>

Next ==
    \/ \E p \in Pages, v \in Values : Write(p, v)
    \/ WriteBack
    \/ Close
    \/ Fail
    \/ Open

Spec == Init /\ [][Next]_vars
==============================================================================
