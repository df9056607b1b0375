------------------------------ MODULE Dictionary ------------------------------
(***************************************************************************)
(* What the hash table of include/data-struct/htable.h and the set of      *)
(* set.h are to their callers: a finite function, the set being one with   *)
(* a single value.  An iteration hands out every key once.                 *)
(***************************************************************************)
EXTENDS Functions

CONSTANTS
    Keys,
    Values,
    None      \* the answer of get for a key that is not there

VARIABLES
    dict,
    unread,   \* the keys an iteration has still to hand out
    reading,  \* there is an iterator
    answer,   \* of the last get or iterator_next
    status    \* "up", or how the process ended

vars == <<dict, unread, reading, answer, status>>

Insert(k, v) ==
    /\ ~reading
    /\ dict' = [x \in DOMAIN dict \cup {k} |-> IF x = k THEN v ELSE dict[x]]
    /\ answer' = None

Remove(k) ==
    /\ ~reading /\ k \in DOMAIN dict
    /\ dict' = Restrict(dict, DOMAIN dict \ {k})
    /\ answer' = None

Clear == ~reading /\ dict' = <<>> /\ answer' = None

Get(k) ==
    /\ answer' = <<k, IF k \in DOMAIN dict THEN dict[k] ELSE None>>
    /\ UNCHANGED <<dict, unread, reading>>

Begin == ~reading /\ reading' = TRUE /\ unread' = DOMAIN dict /\ answer' = None /\ UNCHANGED dict

Read ==
    /\ reading
    /\ \E k \in unread : answer' = <<k, dict[k]>> /\ unread' = unread \ {k}
    /\ UNCHANGED <<dict, reading>>

End == reading /\ unread = {} /\ reading' = FALSE /\ answer' = None /\ UNCHANGED <<dict, unread>>

Fail == status' = "failed" /\ UNCHANGED <<dict, unread, reading, answer>>

Init == dict = <<>> /\ unread = {} /\ reading = FALSE /\ answer = None /\ status = "up"

Next ==
    /\ status = "up"
    /\ \/ /\ \/ \E k \in Keys, v \in Values : Insert(k, v)
             \/ \E k \in Keys : Remove(k)
             \/ Clear
          /\ UNCHANGED <<unread, reading, status>>
       \/ (\E k \in Keys : Get(k)) /\ UNCHANGED status
       \/ (Begin \/ Read \/ End) /\ UNCHANGED status
       \/ Fail

Spec == Init /\ [][Next]_vars
==============================================================================
