--------------------------- MODULE PhysicalDatabase ---------------------------
(***************************************************************************)
(* The five files of a database and the bookkeeping between them, after    *)
(* src/io/physical_database.c and src/io/disk_file.c: the catalogue counts *)
(* the slots of every record file, a header has one bit per slot, and      *)
(* remaining_header_bits says how many header bits are still unused.       *)
(*                                                                         *)
(* Every file is a C stream with its own buffer.  A write stays in the     *)
(* buffer until the next operation on the same file (they all start with   *)
(* fseek) or until the stream is closed, which exit() does as well.  A     *)
(* process that is killed loses the buffers of all its files, so the calls *)
(* are split where a kill in between makes a difference.                   *)
(***************************************************************************)
EXTENDS Integers, Sequences

CONSTANTS
    node_ft,          \* file_type
    relationship_ft,  \* file_type
    PageSize,         \* PAGE_SIZE
    SlotSize,         \* SLOT_SIZE
    CharBit,          \* CHAR_BIT
    SizeMod,          \* 2^w of size_t
    MaxPageNo,        \* MAX_PAGE_NO, at which disk_file_grow gives up
    StreamPages,      \* pages the buffer of a stream holds (setvbuf: 8)
    MaxGrowth,        \* bound: num_pages of one call of allocate_pages
    MaxKills          \* bound: processes that are killed

ASSUME SizeAssumption ==
    /\ node_ft # relationship_ft
    /\ PageSize \in Nat \ {0}
    /\ SlotSize \in Nat \ {0}
    /\ PageSize % SlotSize = 0
    /\ CharBit \in Nat \ {0}
    /\ SizeMod \in Nat \ {0}
    /\ MaxPageNo \in Nat
    /\ StreamPages \in Nat \ {0, 1}
    /\ MaxGrowth \in Nat
    /\ MaxKills \in Nat

FileTypes    == {node_ft, relationship_ft}
catalogue    == <<"catalogue">>
header(ft)   == <<"header", ft>>
records(ft)  == <<"records", ft>>
Files        == {catalogue} \cup {header(ft) : ft \in FileTypes}
                            \cup {records(ft) : ft \in FileTypes}
HeaderBits   == PageSize * CharBit
SlotsPerPage == PageSize \div SlotSize
NoFile       == -1

\* What the code reads of a file: the slot counts in the catalogue page,
\* whether a bit of a header is set.  Pages of records are the cache's subject.
Blank(f) == IF f = catalogue THEN [ft \in FileTypes |-> 0] ELSE FALSE

VARIABLES
    file,       \* the five streams, see Closed
    remaining_header_bits,
    pc,         \* where the process is, or how it ended
    todo,       \* the files or file types the call still has to go through
    growth,     \* num_pages of allocate_pages
    kills       \* processes killed so far

vars == <<file, remaining_header_bits, pc, todo, growth, kills>>

\* The process is gone: closed, deleted or killed, or after exit(EXIT_FAILURE)
\* because a header does not match, a file or its page is missing, or the
\* database is full.
Gone == {"down", "invalid", "missing", "unreadable", "full"}

Contents(f) == IF f = catalogue THEN [FileTypes -> Nat] ELSE BOOLEAN

Streams(f) ==
    [pages   : Nat \cup {NoFile},
     data    : Contents(f),
     grown   : 0 .. StreamPages - 1,
     written : Seq(Contents(f))]

TypeOK ==
    /\ file = [f \in Files |-> file[f]]
    /\ \A f \in Files : file[f] \in Streams(f) /\ Len(file[f].written) <= 1
    /\ remaining_header_bits \in [FileTypes -> Nat]
    /\ pc \in Gone \cup {"create", "open", "validate new", "validate", "idle",
                         "grown", "mapped", "close", "delete"}
    /\ todo \in Seq(Files \cup FileTypes)
    /\ growth \in 0 .. MaxGrowth
    /\ kills \in 0 .. MaxKills

------------------------------------------------------------------------------
(* Streams *)

\* A file of n pages with nothing in the buffer of its stream.
Closed(f, n) == [pages |-> n, data |-> Blank(f), grown |-> 0, written |-> <<>>]

\* num_pages, and the content a read returns.
Size(f) == file[f].pages + file[f].grown
Data(f) == IF file[f].written = <<>> THEN file[f].data ELSE Head(file[f].written)

\* fseek and fclose: the buffer goes to the file.
Flushed(f) ==
    [pages |-> Size(f), data |-> Data(f), grown |-> 0, written |-> <<>>]

\* fwrite of n pages behind the end: whole buffers go to the file at once.
Grown(f, n) ==
    [pages |-> Size(f) + (n - (n % StreamPages)), data |-> Data(f),
     grown |-> n % StreamPages, written |-> <<>>]

\* write_page.
Written(f, d) == [Flushed(f) EXCEPT !.written = <<d>>]

\* The process is killed: the buffer is gone.
Lost(f) ==
    [pages |-> file[f].pages, data |-> file[f].data, grown |-> 0, written |-> <<>>]

\* The process ends and its memory with it.
End(how) ==
    /\ pc' = how
    /\ todo' = <<>>
    /\ growth' = 0
    /\ remaining_header_bits' = [ft \in FileTypes |-> 0]

\* exit: every stream is closed.
Exit(reason) ==
    /\ file' = [f \in Files |-> Flushed(f)]
    /\ End(reason)
    /\ UNCHANGED kills

------------------------------------------------------------------------------
(* phy_database_create, phy_database_open *)

OpenOrder == <<catalogue, header(node_ft), header(relationship_ft),
               records(node_ft), records(relationship_ft)>>
CloseOrder == <<catalogue, header(node_ft), records(node_ft),
                header(relationship_ft), records(relationship_ft)>>

Start(where, order) ==
    /\ pc' = where
    /\ todo' = order
    /\ UNCHANGED <<file, remaining_header_bits, growth, kills>>

Create == pc \in Gone /\ Start("create", OpenOrder)

Open == pc \in Gone /\ Start("open", OpenOrder)

\* Continue with the next file, or go on to next.
Advance(next, order) ==
    IF Len(todo) > 1 THEN todo' = Tail(todo) /\ UNCHANGED pc
                     ELSE todo' = order /\ pc' = next

\* disk_file_create truncates; the catalogue gets its page at once.
CreateFile ==
    LET f == Head(todo) IN
    /\ pc = "create"
    /\ file' = [file EXCEPT ![f] = [Closed(f, 0) EXCEPT
                                      !.grown = IF f = catalogue THEN 1 ELSE 0]]
    /\ Advance("validate new", <<node_ft, relationship_ft>>)
    /\ UNCHANGED <<remaining_header_bits, growth, kills>>

OpenFile ==
    /\ pc = "open"
    /\ file[Head(todo)].pages # NoFile
    /\ Advance("validate", <<node_ft, relationship_ft>>)
    /\ UNCHANGED <<file, remaining_header_bits, growth, kills>>

OpenFileFails ==
    /\ pc = "open"
    /\ file[Head(todo)].pages = NoFile
    /\ Exit("missing")

TreatedAsEmpty(ft) == pc = "validate new" \/ Size(records(ft)) = 0

Slots(ft) == (Size(records(ft)) * PageSize) \div SlotSize

\* The mismatches the two validation functions look for; both read the
\* catalogue only if the header has a page.
InvalidEmptyHeader(ft) ==
    /\ Size(header(ft)) # 0
    /\ \/ Data(catalogue)[ft] # 0
       \/ Size(header(ft)) # 1
       \/ Data(header(ft))

\* Mutant: the count in the catalogue is not compared.
InvalidHeaderUncounted(ft) == Size(header(ft)) = 0

InvalidHeader(ft) ==
    \/ Size(header(ft)) = 0
    \/ Data(catalogue)[ft] # Slots(ft)

\* size_t subtraction.
Minus(a, b) == IF a >= b THEN a - b ELSE (a - b) % SizeMod

ValidateEmptyHeader(ft) ==
    /\ TreatedAsEmpty(ft)
    /\ Size(header(ft)) # 0 => Size(catalogue) # 0
    /\ ~InvalidEmptyHeader(ft)
    /\ file' = IF Size(header(ft)) = 0
               THEN [file EXCEPT ![header(ft)] = Grown(header(ft), 1)]
               ELSE [file EXCEPT ![catalogue] = Flushed(catalogue),
                                 ![header(ft)] = Flushed(header(ft))]
    /\ remaining_header_bits' = [remaining_header_bits EXCEPT ![ft] = HeaderBits]

ValidateHeader(ft) ==
    /\ ~TreatedAsEmpty(ft)
    /\ Size(catalogue) # 0
    /\ ~InvalidHeader(ft)
    /\ file' = [file EXCEPT ![catalogue] = Flushed(catalogue)]
    /\ remaining_header_bits' =
          [remaining_header_bits EXCEPT
             ![ft] = Minus(Size(header(ft)) * HeaderBits, Data(catalogue)[ft])]

Validate ==
    /\ pc \in {"validate new", "validate"}
    /\ ValidateEmptyHeader(Head(todo)) \/ ValidateHeader(Head(todo))
    /\ Advance("idle", <<>>)
    /\ UNCHANGED <<growth, kills>>

ValidateFails ==
    LET ft == Head(todo) IN
    /\ pc \in {"validate new", "validate"}
    /\ \/ /\ Size(header(ft)) # 0
          /\ Size(catalogue) = 0
          /\ Exit("unreadable")
       \/ /\ Size(header(ft)) # 0 => Size(catalogue) # 0
          /\ IF TreatedAsEmpty(ft) THEN InvalidEmptyHeader(ft) ELSE InvalidHeader(ft)
          /\ Exit("invalid")

------------------------------------------------------------------------------
(* allocate_pages *)

CeilDiv(a, b) == (a \div b) + (IF a % b # 0 THEN 1 ELSE 0)

NecessaryBits == growth * SlotsPerPage

CanGrow(f, n) == Size(f) + n < MaxPageNo

\* Mutant: the record file grows past the limit.
AllocateUnlimited(ft, n) ==
    /\ pc = "idle"
    /\ file' = [file EXCEPT ![records(ft)] = Grown(records(ft), n)]
    /\ pc' = "grown"
    /\ todo' = <<ft>>
    /\ growth' = n
    /\ UNCHANGED <<remaining_header_bits, kills>>

Allocate(ft, n) ==
    /\ pc = "idle"
    /\ CanGrow(records(ft), n)
    /\ file' = [file EXCEPT ![records(ft)] = Grown(records(ft), n)]
    /\ pc' = "grown"
    /\ todo' = <<ft>>
    /\ growth' = n
    /\ UNCHANGED <<remaining_header_bits, kills>>

AllocateFails(ft, n) ==
    /\ pc = "idle"
    /\ ~CanGrow(records(ft), n)
    /\ Exit("full")

\* Mutant: the header is used without asking whether the slots fit.
UseHeaderUnchecked ==
    /\ pc = "grown"
    /\ remaining_header_bits' =
          [remaining_header_bits EXCEPT ![Head(todo)] = @ - NecessaryBits]
    /\ pc' = "mapped"
    /\ UNCHANGED <<file, todo, growth, kills>>

\* The new slots fit into the header as it is.
UseHeader ==
    LET ft == Head(todo) IN
    /\ pc = "grown"
    /\ remaining_header_bits[ft] >= NecessaryBits
    /\ remaining_header_bits' = [remaining_header_bits EXCEPT ![ft] = @ - NecessaryBits]
    /\ pc' = "mapped"
    /\ UNCHANGED <<file, todo, growth, kills>>

AdditionalBits(ft)  == NecessaryBits - remaining_header_bits[ft]
AdditionalPages(ft) == CeilDiv(CeilDiv(AdditionalBits(ft), CharBit), PageSize)

\* Mutant: the bits of the new header pages are not used up by the new slots.
GrowHeaderUnused ==
    LET ft == Head(todo) IN
    /\ pc = "grown"
    /\ remaining_header_bits[ft] < NecessaryBits
    /\ CanGrow(header(ft), AdditionalPages(ft))
    /\ file' = [file EXCEPT ![header(ft)] = Grown(header(ft), AdditionalPages(ft))]
    /\ remaining_header_bits' =
          [remaining_header_bits EXCEPT ![ft] = AdditionalPages(ft) * HeaderBits]
    /\ pc' = "mapped"
    /\ UNCHANGED <<todo, growth, kills>>

\* disk_file_grow of the header does not exit: see HeaderGrowthFits.
GrowHeader ==
    LET ft == Head(todo) IN
    /\ pc = "grown"
    /\ remaining_header_bits[ft] < NecessaryBits
    /\ CanGrow(header(ft), AdditionalPages(ft))
    /\ file' = [file EXCEPT ![header(ft)] = Grown(header(ft), AdditionalPages(ft))]
    /\ remaining_header_bits' =
          [remaining_header_bits EXCEPT
             ![ft] = AdditionalPages(ft) * HeaderBits - AdditionalBits(ft)]
    /\ pc' = "mapped"
    /\ UNCHANGED <<todo, growth, kills>>

\* The catalogue is read, updated and written.
CountSlots ==
    LET ft == Head(todo) IN
    /\ pc = "mapped"
    /\ Size(catalogue) # 0
    /\ file' = [file EXCEPT
                  ![catalogue] = Written(catalogue, [Data(catalogue) EXCEPT
                                                       ![ft] = @ + NecessaryBits])]
    /\ pc' = "idle"
    /\ todo' = <<>>
    /\ growth' = 0
    /\ UNCHANGED <<remaining_header_bits, kills>>

CountSlotsFails ==
    /\ pc = "mapped"
    /\ Size(catalogue) = 0
    /\ Exit("unreadable")

------------------------------------------------------------------------------
(* What the page cache does to the files, closing, deleting, being killed *)

ReadPage(f) ==
    /\ pc = "idle"
    /\ f # catalogue /\ Size(f) > 0
    /\ file' = [file EXCEPT ![f] = Flushed(f)]
    /\ UNCHANGED <<remaining_header_bits, pc, todo, growth, kills>>

\* A header page is written with some bits set or with none.
WriteHeader(ft, d) ==
    /\ pc = "idle"
    /\ Size(header(ft)) > 0 /\ Size(records(ft)) > 0
    /\ file' = [file EXCEPT ![header(ft)] = Written(header(ft), d)]
    /\ UNCHANGED <<remaining_header_bits, pc, todo, growth, kills>>

Close  == pc = "idle" /\ Start("close", CloseOrder)

Delete == pc = "idle" /\ Start("delete", CloseOrder)

\* Mutant: a closed file loses what its buffer holds.
CloseFileUnflushed ==
    LET f == Head(todo) IN
    /\ pc \in {"close", "delete"}
    /\ file' = [file EXCEPT ![f] = IF pc = "close" THEN Lost(f) ELSE Closed(f, NoFile)]
    /\ \/ /\ Len(todo) > 1
          /\ todo' = Tail(todo)
          /\ UNCHANGED <<remaining_header_bits, pc, growth, kills>>
       \/ /\ Len(todo) = 1
          /\ End("down")
          /\ UNCHANGED kills

CloseFile ==
    LET f == Head(todo) IN
    /\ pc \in {"close", "delete"}
    /\ file' = [file EXCEPT ![f] = IF pc = "close" THEN Flushed(f) ELSE Closed(f, NoFile)]
    /\ \/ /\ Len(todo) > 1
          /\ todo' = Tail(todo)
          /\ UNCHANGED <<remaining_header_bits, pc, growth, kills>>
       \/ /\ Len(todo) = 1
          /\ End("down")
          /\ UNCHANGED kills

\* exit(EXIT_FAILURE) in a layer above.
ExitElsewhere ==
    /\ pc = "idle"
    /\ file' = [f \in Files |-> Flushed(f)]
    /\ End("down")
    /\ UNCHANGED kills

Kill ==
    /\ pc \notin Gone
    /\ kills < MaxKills
    /\ file' = [f \in Files |-> Lost(f)]
    /\ End("down")
    /\ kills' = kills + 1

Init ==
    /\ file = [f \in Files |-> Closed(f, NoFile)]
    /\ remaining_header_bits = [ft \in FileTypes |-> 0]
    /\ pc = "down"
    /\ todo = <<>>
    /\ growth = 0
    /\ kills = 0

Next ==
    \/ Create \/ Open
    \/ CreateFile \/ OpenFile \/ OpenFileFails
    \/ Validate \/ ValidateFails
    \/ \E ft \in FileTypes, n \in 1 .. MaxGrowth : Allocate(ft, n) \/ AllocateFails(ft, n)
    \/ UseHeader \/ GrowHeader
    \/ CountSlots \/ CountSlotsFails
    \/ \E f \in Files : ReadPage(f)
    \/ \E ft \in FileTypes, d \in BOOLEAN : WriteHeader(ft, d)
    \/ Close \/ Delete \/ CloseFile
    \/ ExitElsewhere
    \/ Kill

Spec == Init /\ [][Next]_vars

------------------------------------------------------------------------------
(* Properties *)

\* As long as no process is killed, the three counts agree between calls: the
\* catalogue counts exactly the slots of the record file, and the header has a
\* bit for each of them and exactly remaining_header_bits more.
BookkeepingExact ==
    kills = 0 /\ pc = "idle" => \A ft \in FileTypes :
        /\ Data(catalogue)[ft] = Slots(ft)
        /\ remaining_header_bits[ft] + Slots(ft) = Size(header(ft)) * HeaderBits

\* A database that was always closed, or left by exit, is not refused as invalid.
RefusedOnlyAfterKill == pc = "invalid" => kills > 0

\* allocate_pages never exits half way, with the record file grown and the
\* header and the catalogue not: when the record file is not full, the header,
\* which needs fewer pages, is not full either.
HeaderGrowthFits ==
    pc = "grown" /\ remaining_header_bits[Head(todo)] < NecessaryBits =>
        CanGrow(header(Head(todo)), AdditionalPages(Head(todo)))

\* Whatever a kill lost, a database that opens has no slot the catalogue does
\* not count.
SlotsCounted ==
    pc = "idle" => \A ft \in FileTypes : Slots(ft) <= Data(catalogue)[ft]

\* A database that opens has a header with a bit for every slot.
HeaderCoversSlots ==
    pc = "idle" => \A ft \in FileTypes : Slots(ft) <= Size(header(ft)) * HeaderBits
==============================================================================
