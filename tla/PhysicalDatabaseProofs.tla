------------------------ MODULE PhysicalDatabaseProofs ------------------------
(***************************************************************************)
(* Proofs about PhysicalDatabase: the counts the catalogue, the headers    *)
(* and the record files keep of one another, for every page size, file     *)
(* limit, buffer size and growth.                                          *)
(***************************************************************************)
EXTENDS PhysicalDatabase, SequenceTheorems, TLAPS

------------------------------------------------------------------------------
(* Arithmetic of allocate_pages *)

LEMMA DivMod ==
    ASSUME NEW a \in Int, NEW b \in Nat \ {0}
    PROVE  /\ a \div b \in Int /\ a % b \in 0 .. b - 1
           /\ a = b * (a \div b) + (a % b)
  OBVIOUS

\* Rounding up covers a, and with less than one b to spare.
LEMMA CeilDivBounds ==
    ASSUME NEW a \in Nat, NEW b \in Nat \ {0}
    PROVE  /\ CeilDiv(a, b) \in Nat
           /\ CeilDiv(a, b) * b >= a
           /\ a > 0 => CeilDiv(a, b) > 0 /\ (CeilDiv(a, b) - 1) * b < a
<1> DEFINE q == a \div b
           r == a % b
<1>1. q \in Int /\ r \in 0 .. b - 1 /\ a = b * q + r
  BY DivMod
<1>2. q \in Nat
  OBVIOUS
<1>3. CASE r = 0
  <2>1. CeilDiv(a, b) = q
    BY <1>3, <1>2 DEF CeilDiv
  <2>2. a = q * b
    BY <1>1, <1>2, <1>3
  <2>3. (q - 1) * b = q * b - b
    BY <1>2
  <2>4. a > 0 => q > 0
    BY <2>2, <1>2
  <2> HIDE DEF q, r
  <2> QED BY <2>1, <2>2, <2>3, <2>4, <1>2
<1>4. CASE r # 0
  <2>1. CeilDiv(a, b) = q + 1
    BY <1>4, <1>2 DEF CeilDiv
  <2>2. (q + 1) * b = b * q + b /\ (q + 1 - 1) * b = b * q
    BY <1>2
  <2> HIDE DEF q, r
  <2> QED BY <2>1, <2>2, <1>1, <1>2, <1>4
<1> QED BY <1>3, <1>4

\* Header bits move between the remaining ones, the counted ones and the due.
LEMMA BitsMoved ==
    \A r, c, n, t \in Int : r + c + 0 = t => r + c = t /\ (r - n) + c + n = t
  OBVIOUS

\* No more bits are counted than there are.
LEMMA BitsCover ==
    \A r, c \in Nat, t \in Int : r + c + 0 = t => c <= t
  OBVIOUS

\* Adding nothing, and naming a summand.
LEMMA PlusZero ==
    /\ \A c \in Int : c + 0 = c
    /\ \A r, c, t \in Int : r + c = t => r + c + 0 = t
  OBVIOUS

LEMMA Sizes ==
    /\ PageSize \in Nat \ {0} /\ SlotSize \in Nat \ {0} /\ CharBit \in Nat \ {0}
    /\ HeaderBits \in Nat \ {0}
    /\ SlotsPerPage \in Nat \ {0}
    /\ PageSize = SlotSize * SlotsPerPage
    /\ SlotsPerPage <= HeaderBits
<1>1. PageSize \in Nat \ {0} /\ SlotSize \in Nat \ {0} /\ CharBit \in Nat \ {0}
  BY SizeAssumption
<1>2. HeaderBits \in Nat \ {0} /\ HeaderBits >= PageSize
  BY <1>1 DEF HeaderBits
<1>3. PageSize = SlotSize * SlotsPerPage /\ SlotsPerPage \in Int
  BY <1>1, DivMod, SizeAssumption DEF SlotsPerPage
<1>4. SlotsPerPage \in Nat \ {0} /\ SlotsPerPage <= PageSize
  BY <1>1, <1>3
<1> QED BY <1>1, <1>2, <1>3, <1>4

\* A record file of n pages has n * SlotsPerPage slots: no slot is split.
LEMMA SlotsExact ==
    ASSUME NEW n \in Int
    PROVE  (n * PageSize) \div SlotSize = n * SlotsPerPage
<1>1. n * PageSize = SlotSize * (n * SlotsPerPage)
  BY Sizes
<1>2. ASSUME NEW m \in Int PROVE (SlotSize * m) \div SlotSize = m
  BY Sizes
<1> QED BY <1>1, <1>2, Sizes

\* The pages GrowHeader adds hold the bits that are missing, and no page of them
\* is superfluous.
LEMMA AdditionalPagesBounds ==
    ASSUME NEW x \in Nat \ {0}
    PROVE  LET p == CeilDiv(CeilDiv(x, CharBit), PageSize) IN
           /\ p \in Nat \ {0}
           /\ p * HeaderBits >= x
           /\ (p - 1) * HeaderBits < x
<1> DEFINE c == CeilDiv(x, CharBit)
           p == CeilDiv(c, PageSize)
<1>1. c \in Nat /\ c > 0 /\ c * CharBit >= x /\ (c - 1) * CharBit < x
  BY CeilDivBounds, Sizes
<1>2. p \in Nat /\ p > 0 /\ p * PageSize >= c /\ (p - 1) * PageSize < c
  BY <1>1, CeilDivBounds, Sizes
<1> HIDE DEF c, p
<1> USE Sizes
<1>3. p * HeaderBits = (p * PageSize) * CharBit
      /\ (p - 1) * HeaderBits = ((p - 1) * PageSize) * CharBit
  BY <1>2 DEF HeaderBits
<1>4. ASSUME NEW u \in Int, NEW v \in Int, u <= v
      PROVE  u * CharBit <= v * CharBit
  BY <1>4
<1>5. p * PageSize \in Int /\ (p - 1) * PageSize \in Int
      /\ (p - 1) * PageSize <= c - 1
  BY <1>1, <1>2
<1>6. (p * PageSize) * CharBit >= c * CharBit
  BY <1>1, <1>2, <1>4, <1>5
<1>7. ((p - 1) * PageSize) * CharBit <= (c - 1) * CharBit
  BY <1>1, <1>4, <1>5
<1>8. p * HeaderBits \in Int /\ (p - 1) * HeaderBits \in Int
      /\ c * CharBit \in Int /\ (c - 1) * CharBit \in Int
  BY <1>1, <1>2
<1>9. p \in Nat \ {0} /\ p * HeaderBits >= x /\ (p - 1) * HeaderBits < x
  BY <1>1, <1>2, <1>3, <1>6, <1>7, <1>8
<1> QED BY <1>9 DEF c, p

------------------------------------------------------------------------------
(* Streams *)

\* Size and Data of a stream by itself.
SizeOf(s) == s.pages + s.grown
DataOf(s) == IF s.written = <<>> THEN s.data ELSE Head(s.written)

StreamOK(f, s) == s \in Streams(f) /\ Len(s.written) <= 1

FilesOK ==
    /\ file = [f \in Files |-> file[f]]
    /\ \A f \in Files : StreamOK(f, file[f])

LEMMA FileNames ==
    /\ catalogue \in Files
    /\ \A ft \in FileTypes :
          /\ header(ft) \in Files /\ records(ft) \in Files
          /\ header(ft) # catalogue /\ records(ft) # catalogue
          /\ \A gt \in FileTypes :
                /\ header(ft) # records(gt)
                /\ header(ft) = header(gt) => ft = gt
                /\ records(ft) = records(gt) => ft = gt
    /\ node_ft \in FileTypes /\ relationship_ft \in FileTypes
<1>1. \A ft \in FileTypes : header(ft) # catalogue /\ records(ft) # catalogue
  BY DEF header, records, catalogue
<1>2. \A ft, gt \in FileTypes :
         /\ header(ft) # records(gt)
         /\ header(ft) = header(gt) => ft = gt
         /\ records(ft) = records(gt) => ft = gt
  BY DEF header, records
<1> QED BY <1>1, <1>2 DEF Files, FileTypes

LEMMA BlankContents ==
    ASSUME NEW f \in Files
    PROVE  Blank(f) \in Contents(f)
  BY DEF Blank, Contents

\* What flushing, growing, writing and losing the buffer do to size and content.
LEMMA StreamOps ==
    ASSUME FilesOK, NEW f \in Files
    PROVE  /\ Size(f) \in Int /\ Size(f) >= -1 /\ Data(f) \in Contents(f)
           /\ Size(f) = SizeOf(file[f]) /\ Data(f) = DataOf(file[f])
           /\ StreamOK(f, Flushed(f))
           /\ SizeOf(Flushed(f)) = Size(f) /\ DataOf(Flushed(f)) = Data(f)
           /\ StreamOK(f, Lost(f))
           /\ \A n \in Nat : /\ StreamOK(f, Grown(f, n))
                             /\ SizeOf(Grown(f, n)) = Size(f) + n
                             /\ DataOf(Grown(f, n)) = Data(f)
           /\ \A d \in Contents(f) : /\ StreamOK(f, Written(f, d))
                                     /\ SizeOf(Written(f, d)) = Size(f)
                                     /\ DataOf(Written(f, d)) = d
<1>1. file[f] \in Streams(f) /\ Len(file[f].written) <= 1
  BY DEF FilesOK, StreamOK
<1>2. /\ file[f].pages \in Int /\ file[f].pages >= -1
      /\ file[f].grown \in 0 .. StreamPages - 1
      /\ file[f].data \in Contents(f) /\ file[f].written \in Seq(Contents(f))
  BY <1>1 DEF Streams, NoFile
<1>3. StreamPages \in Nat \ {0}
  BY SizeAssumption
<1>4. Size(f) \in Int /\ Size(f) >= -1
  BY <1>2, <1>3 DEF Size
<1>5. Data(f) \in Contents(f)
  BY <1>2, HeadTailProperties DEF Data
<1>6. Size(f) = SizeOf(file[f]) /\ Data(f) = DataOf(file[f])
  BY DEF Size, Data, SizeOf, DataOf
<1>7. /\ StreamOK(f, Flushed(f))
      /\ SizeOf(Flushed(f)) = Size(f) /\ DataOf(Flushed(f)) = Data(f)
  BY <1>3, <1>4, <1>5 DEF StreamOK, Streams, Flushed, SizeOf, DataOf, NoFile
<1>8. StreamOK(f, Lost(f))
  <2>1. Lost(f) = [pages |-> file[f].pages, data |-> file[f].data,
                   grown |-> 0, written |-> <<>>]
    BY DEF Lost
  <2> QED BY <2>1, <1>2, <1>3 DEF StreamOK, Streams, NoFile
<1>9. ASSUME NEW n \in Nat
      PROVE  /\ StreamOK(f, Grown(f, n))
             /\ SizeOf(Grown(f, n)) = Size(f) + n
             /\ DataOf(Grown(f, n)) = Data(f)
  <2> DEFINE r == n % StreamPages
  <2>1. r \in 0 .. StreamPages - 1 /\ r <= n
    BY <1>3
  <2>2. Grown(f, n) = [pages |-> Size(f) + (n - r), data |-> Data(f),
                       grown |-> r, written |-> <<>>]
    BY DEF Grown
  <2> HIDE DEF r
  <2> QED BY <2>1, <2>2, <1>3, <1>4, <1>5 DEF StreamOK, Streams, SizeOf, DataOf, NoFile
<1>10. ASSUME NEW d \in Contents(f)
       PROVE  /\ StreamOK(f, Written(f, d))
              /\ SizeOf(Written(f, d)) = Size(f)
              /\ DataOf(Written(f, d)) = d
  <2>1. Written(f, d) = [pages |-> Size(f), data |-> Data(f),
                         grown |-> 0, written |-> <<d>>]
    BY DEF Written, Flushed
  <2>2. <<d>> \in Seq(Contents(f)) /\ Len(<<d>>) = 1 /\ Head(<<d>>) = d /\ <<d>> # <<>>
    OBVIOUS
  <2> QED BY <2>1, <2>2, <1>3, <1>4, <1>5 DEF StreamOK, Streams, SizeOf, DataOf, NoFile
<1> QED BY <1>4, <1>5, <1>6, <1>7, <1>8, <1>9, <1>10

LEMMA ClosedOps ==
    ASSUME NEW f \in Files, NEW n \in Nat \cup {NoFile}
    PROVE  StreamOK(f, Closed(f, n)) /\ SizeOf(Closed(f, n)) = n
           /\ DataOf(Closed(f, n)) = Blank(f)
<1>1. 0 \in 0 .. StreamPages - 1
  BY SizeAssumption
<1>2. <<>> \in Seq(Contents(f)) /\ Len(<<>>) = 0
  OBVIOUS
<1> QED BY <1>1, <1>2, BlankContents DEF Closed, StreamOK, Streams, SizeOf, DataOf, NoFile

\* One stream is replaced.
LEMMA Replace ==
    ASSUME FilesOK, NEW g \in Files, NEW s, StreamOK(g, s),
           file' = [file EXCEPT ![g] = s]
    PROVE  /\ FilesOK'
           /\ Size(g)' = SizeOf(s) /\ Data(g)' = DataOf(s) /\ file'[g] = s
           /\ \A f \in Files \ {g} : Size(f)' = Size(f) /\ Data(f)' = Data(f)
                                     /\ file'[f] = file[f]
<1>1. file'[g] = s /\ \A f \in Files \ {g} : file'[f] = file[f]
  BY DEF FilesOK
<1>2. file' = [f \in Files |-> file'[f]]
  BY DEF FilesOK
<1>3. \A f \in Files : StreamOK(f, file'[f])
  BY <1>1 DEF FilesOK
<1>4. FilesOK'
  BY <1>2, <1>3 DEF FilesOK
<1> QED BY <1>1, <1>4 DEF Size, Data, SizeOf, DataOf

\* All streams are flushed, or lose their buffers.
LEMMA FlushAll ==
    ASSUME FilesOK, file' = [f \in Files |-> Flushed(f)]
    PROVE  FilesOK' /\ \A f \in Files : Size(f)' = Size(f) /\ Data(f)' = Data(f)
<1>1. \A f \in Files : StreamOK(f, Flushed(f))
                       /\ SizeOf(Flushed(f)) = Size(f) /\ DataOf(Flushed(f)) = Data(f)
  BY StreamOps
<1>2. \A f \in Files : file'[f] = Flushed(f)
  OBVIOUS
<1>3. FilesOK'
  BY <1>1, <1>2 DEF FilesOK
<1> QED BY <1>1, <1>2, <1>3 DEF Size, Data, SizeOf, DataOf

LEMMA LoseAll ==
    ASSUME FilesOK, file' = [f \in Files |-> Lost(f)]
    PROVE  FilesOK'
<1>1. \A f \in Files : StreamOK(f, Lost(f))
  BY StreamOps
<1> QED BY <1>1 DEF FilesOK

------------------------------------------------------------------------------
(* What a call still has to go through *)

Elements(s) == {s[i] : i \in 1 .. Len(s)}

Pending == Elements(todo)

TodoOK ==
    /\ pc \in {"create", "open", "close", "delete"} =>
          todo \in Seq(Files) /\ todo # <<>>
    /\ pc \in {"validate new", "validate", "grown", "mapped"} =>
          todo \in Seq(FileTypes) /\ todo # <<>>

LEMMA HeadPending ==
    ASSUME NEW S, todo \in Seq(S), todo # <<>>
    PROVE  /\ Head(todo) \in S /\ Head(todo) \in Pending
           /\ Len(todo) > 1 =>
                /\ Tail(todo) \in Seq(S) /\ Tail(todo) # <<>>
                /\ Pending = {Head(todo)} \cup
                             Elements(Tail(todo))
           /\ ~(Len(todo) > 1) => Pending = {Head(todo)}
           /\ Pending \subseteq S
<1>1. /\ Len(todo) \in Nat /\ Len(todo) >= 1 /\ Head(todo) = todo[1]
      /\ \A i \in 1 .. Len(todo) : todo[i] \in S
  BY HeadTailProperties
<1>2. Head(todo) \in S /\ Head(todo) \in Pending /\ Pending \subseteq S
  BY <1>1 DEF Pending, Elements
<1>3. ASSUME Len(todo) > 1
      PROVE  /\ Tail(todo) \in Seq(S) /\ Tail(todo) # <<>>
             /\ Pending = {Head(todo)} \cup
                          Elements(Tail(todo))
  <2>1. /\ Tail(todo) \in Seq(S) /\ Len(Tail(todo)) = Len(todo) - 1
        /\ \A i \in 1 .. Len(todo) - 1 : Tail(todo)[i] = todo[i + 1]
    BY HeadTailProperties
  <2>2. Tail(todo) # <<>>
    <3>1. Len(Tail(todo)) # Len(<<>>)
      BY <2>1, <1>1, <1>3
    <3> QED BY <3>1, Zenon
  <2>3. ASSUME NEW x \in Pending
        PROVE  x = Head(todo) \/ x \in Elements(Tail(todo))
    <3>1. PICK i \in 1 .. Len(todo) : x = todo[i]
      BY DEF Pending, Elements
    <3>2. CASE i = 1
      BY <3>1, <3>2, <1>1
    <3>3. CASE i # 1
      <4>1. i - 1 \in 1 .. Len(todo) - 1 /\ i - 1 + 1 = i
        BY <3>3, <1>1
      <4>2. x = Tail(todo)[i - 1]
        BY <4>1, <3>1, <2>1
      <4> QED BY <4>1, <4>2, <2>1 DEF Elements
    <3> QED BY <3>2, <3>3
  <2>4. ASSUME NEW i \in 1 .. Len(Tail(todo)) PROVE Tail(todo)[i] \in Pending
    <3>1. i + 1 \in 1 .. Len(todo) /\ Tail(todo)[i] = todo[i + 1]
      BY <2>1, <1>1
    <3> QED BY <3>1 DEF Pending, Elements
  <2> QED BY <2>1, <2>2, <2>3, <2>4, <1>2 DEF Elements
<1>4. ~(Len(todo) > 1) => Pending = {Head(todo)}
  <2>1. ~(Len(todo) > 1) => Len(todo) = 1
    BY <1>1
  <2>2. Len(todo) = 1 => Pending = {Head(todo)}
    BY <1>1 DEF Pending, Elements
  <2> QED BY <2>1, <2>2
<1> QED BY <1>2, <1>3, <1>4

LEMMA AdvanceStep ==
    ASSUME NEW S, todo \in Seq(S), todo # <<>>, NEW next, NEW order,
           Advance(next, order)
    PROVE  \/ /\ todo' \in Seq(S) /\ todo' # <<>> /\ pc' = pc
              /\ Pending = {Head(todo)} \cup Pending'
           \/ todo' = order /\ pc' = next /\ Pending = {Head(todo)}
<1>1. CASE Len(todo) > 1
  BY <1>1, HeadPending DEF Advance, Pending
<1>2. CASE ~(Len(todo) > 1)
  BY <1>2, HeadPending DEF Advance
<1> QED BY <1>1, <1>2

LEMMA Orders ==
    /\ OpenOrder \in Seq(Files) /\ OpenOrder # <<>>
    /\ CloseOrder \in Seq(Files) /\ CloseOrder # <<>>
    /\ <<node_ft, relationship_ft>> \in Seq(FileTypes)
    /\ <<node_ft, relationship_ft>> # <<>>
  BY FileNames DEF OpenOrder, CloseOrder

\* Every file is opened, created, closed and deleted; both headers are validated.
LEMMA OrdersComplete ==
    /\ Elements(OpenOrder) = Files
    /\ Elements(CloseOrder) = Files
    /\ Elements(<<node_ft, relationship_ft>>) = FileTypes
<1>0. Files = {catalogue, header(node_ft), header(relationship_ft),
               records(node_ft), records(relationship_ft)}
  BY DEF Files, FileTypes
<1>1. Elements(OpenOrder) = Files
  <2>1. Len(OpenOrder) = 5 /\ 1 .. 5 = {1, 2, 3, 4, 5}
    BY DEF OpenOrder
  <2>2. /\ OpenOrder[1] = catalogue /\ OpenOrder[2] = header(node_ft)
        /\ OpenOrder[3] = header(relationship_ft) /\ OpenOrder[4] = records(node_ft)
        /\ OpenOrder[5] = records(relationship_ft)
    BY DEF OpenOrder
  <2> QED BY <2>1, <2>2, <1>0 DEF Elements
<1>2. Elements(CloseOrder) = Files
  <2>1. Len(CloseOrder) = 5 /\ 1 .. 5 = {1, 2, 3, 4, 5}
    BY DEF CloseOrder
  <2>2. /\ CloseOrder[1] = catalogue /\ CloseOrder[2] = header(node_ft)
        /\ CloseOrder[3] = records(node_ft) /\ CloseOrder[4] = header(relationship_ft)
        /\ CloseOrder[5] = records(relationship_ft)
    BY DEF CloseOrder
  <2> QED BY <2>1, <2>2, <1>0 DEF Elements
<1>3. Elements(<<node_ft, relationship_ft>>) = FileTypes
  <2> DEFINE s == <<node_ft, relationship_ft>>
  <2>1. Len(s) = 2 /\ 1 .. 2 = {1, 2} /\ s[1] = node_ft /\ s[2] = relationship_ft
    OBVIOUS
  <2> HIDE DEF s
  <2>2. Elements(s) = {node_ft, relationship_ft}
    BY <2>1 DEF Elements
  <2> QED BY <2>2 DEF s, FileTypes
<1> QED BY <1>1, <1>2, <1>3

------------------------------------------------------------------------------
(* Types *)

TInv == TypeOK /\ TodoOK

LEMMA TypeOKFiles == TypeOK => FilesOK
  BY DEF TypeOK, FilesOK, StreamOK

LEMMA TypeInit == Init => TInv
<1> SUFFICES ASSUME Init PROVE TInv
  OBVIOUS
<1> USE DEF Init
<1>1. \A f \in Files : StreamOK(f, Closed(f, NoFile))
  BY ClosedOps
<1>2. /\ file = [f \in Files |-> file[f]]
      /\ \A f \in Files : file[f] \in Streams(f) /\ Len(file[f].written) <= 1
  BY <1>1 DEF StreamOK
<1>3. todo \in Seq(Files \cup FileTypes)
  OBVIOUS
<1>4. remaining_header_bits \in [FileTypes -> Nat] /\ growth \in 0 .. MaxGrowth
      /\ kills \in 0 .. MaxKills
  BY SizeAssumption
<1> QED BY <1>2, <1>3, <1>4 DEF TInv, TypeOK, TodoOK, Gone

\* The process ends: its memory is reset.
LEMMA EndTypes ==
    ASSUME FilesOK', NEW how \in Gone, End(how),
           kills' \in 0 .. MaxKills
    PROVE  TInv'
<1>1. growth' \in 0 .. MaxGrowth /\ todo' \in Seq(Files \cup FileTypes)
      /\ remaining_header_bits' \in [FileTypes -> Nat]
  BY SizeAssumption DEF End
<1>2. pc' \in Gone
  BY DEF End
<1> QED BY <1>1, <1>2 DEF TInv, TypeOK, TodoOK, FilesOK, StreamOK, Gone

LEMMA ExitTypes ==
    ASSUME TInv, NEW how \in Gone, Exit(how)
    PROVE  TInv'
<1>1. FilesOK'
  BY TypeOKFiles, FlushAll DEF TInv, Exit
<1> QED BY <1>1, EndTypes DEF TInv, TypeOK, Exit

LEMMA WiderSeq ==
    /\ \A s \in Seq(Files) : s \in Seq(Files \cup FileTypes)
    /\ \A s \in Seq(FileTypes) : s \in Seq(Files \cup FileTypes)
    /\ <<>> \in Seq(Files \cup FileTypes)
<1>1. ASSUME NEW S, NEW T, S \subseteq T, NEW s \in Seq(S) PROVE s \in Seq(T)
  BY <1>1, SeqMonotonic
<1> QED BY <1>1

\* A step that goes on with the next file or file type.
LEMMA AdvanceTypes ==
    ASSUME TInv, FilesOK', remaining_header_bits' \in [FileTypes -> Nat],
           UNCHANGED <<growth, kills>>,
           \/ /\ pc \in {"create", "open"} /\ pc' = pc
              /\ todo' \in Seq(Files) /\ todo' # <<>>
           \/ /\ pc \in {"validate new", "validate"} /\ pc' = pc
              /\ todo' \in Seq(FileTypes) /\ todo' # <<>>
           \/ /\ pc' \in {"validate new", "validate"}
              /\ todo' = <<node_ft, relationship_ft>>
           \/ pc' = "idle" /\ todo' = <<>>
    PROVE  TInv'
<1>1. todo' \in Seq(Files \cup FileTypes)
  BY Orders, WiderSeq
<1>2. pc' \in {"create", "open", "validate new", "validate", "idle"}
  OBVIOUS
<1>3. TypeOK'
  BY <1>1, <1>2 DEF TInv, TypeOK, FilesOK, StreamOK
<1>4. TodoOK'
  BY <1>2, Orders DEF TodoOK
<1> QED BY <1>3, <1>4 DEF TInv

LEMMA MinusType ==
    ASSUME NEW a \in Int, NEW b \in Int PROVE Minus(a, b) \in Nat
  BY SizeAssumption DEF Minus

LEMMA CountTypes ==
    ASSUME TypeOK
    PROVE  /\ growth \in Nat /\ NecessaryBits \in Nat
           /\ \A ft \in FileTypes : remaining_header_bits[ft] \in Nat
           /\ Data(catalogue) \in [FileTypes -> Nat]
<1>0. growth \in 0 .. MaxGrowth
  BY DEF TypeOK
<1>1. growth \in Nat
  BY <1>0, SizeAssumption
<1>2. NecessaryBits \in Nat
  BY <1>1, Sizes DEF NecessaryBits
<1>3. \A ft \in FileTypes : remaining_header_bits[ft] \in Nat
  BY DEF TypeOK
<1>4. Data(catalogue) \in [FileTypes -> Nat]
  BY TypeOKFiles, StreamOps, FileNames DEF Contents
<1> QED BY <1>1, <1>2, <1>3, <1>4

LEMMA TypeStep == TInv /\ [Next]_vars => TInv'
<1> SUFFICES ASSUME TInv, [Next]_vars PROVE TInv'
  OBVIOUS
<1>0. FilesOK /\ TypeOK /\ TodoOK
  BY TypeOKFiles DEF TInv
<1>1. CASE UNCHANGED vars
  BY <1>0, <1>1 DEF TInv, TypeOK, TodoOK, vars, Streams, Contents
<1>2. CASE Create \/ Open \/ Close \/ Delete
  <2>1. /\ pc' \in {"create", "open", "close", "delete"}
        /\ todo' \in Seq(Files) /\ todo' # <<>>
        /\ UNCHANGED <<file, remaining_header_bits, growth, kills>>
    BY <1>2, Orders DEF Create, Open, Close, Delete, Start
  <2>2. todo' \in Seq(Files \cup FileTypes)
    BY <2>1, WiderSeq
  <2> QED BY <1>0, <2>1, <2>2 DEF TInv, TypeOK, TodoOK
<1>3. CASE CreateFile
  <2> DEFINE f == Head(todo)
             s == [Closed(f, 0) EXCEPT !.grown = IF f = catalogue THEN 1 ELSE 0]
  <2>1. todo \in Seq(Files) /\ todo # <<>> /\ pc = "create" /\ f \in Files
    BY <1>0, <1>3, HeadPending DEF CreateFile, TodoOK
  <2>2. s = [pages |-> 0, data |-> Blank(f), grown |-> IF f = catalogue THEN 1 ELSE 0,
             written |-> <<>>]
    BY DEF Closed
  <2>3. <<>> \in Seq(Contents(f)) /\ Len(<<>>) = 0
    OBVIOUS
  <2>4. StreamOK(f, s)
    <3>1. 0 \in 0 .. StreamPages - 1 /\ 1 \in 0 .. StreamPages - 1
      BY SizeAssumption
    <3>2. Blank(f) \in Contents(f)
      BY <2>1, BlankContents
    <3> HIDE DEF f, s
    <3>3. s.written = <<>> /\ s \in Streams(f)
      BY <2>2, <2>3, <3>1, <3>2 DEF Streams
    <3> QED BY <2>3, <3>3 DEF StreamOK
  <2>5. file' = [file EXCEPT ![f] = s]
    BY <1>3 DEF CreateFile
  <2> HIDE DEF f, s
  <2>6. FilesOK'
    BY <1>0, <2>1, <2>4, <2>5, Replace
  <2>7. Advance("validate new", <<node_ft, relationship_ft>>)
        /\ UNCHANGED <<remaining_header_bits, growth, kills>>
    BY <1>3 DEF CreateFile
  <2>8. \/ todo' \in Seq(Files) /\ todo' # <<>> /\ pc' = pc
        \/ todo' = <<node_ft, relationship_ft>> /\ pc' = "validate new"
    BY <2>1, <2>7, AdvanceStep
  <2>9. remaining_header_bits' \in [FileTypes -> Nat]
    BY <2>6, <2>7, <1>0 DEF TypeOK
  <2> QED BY <2>1, <2>6, <2>7, <2>8, <2>9, AdvanceTypes
<1>4. CASE OpenFile
  <2>1. todo \in Seq(Files) /\ todo # <<>> /\ pc = "open"
    BY <1>0, <1>4 DEF OpenFile, TodoOK
  <2>2. FilesOK'
    BY <1>0, <1>4 DEF OpenFile, FilesOK
  <2>3. Advance("validate", <<node_ft, relationship_ft>>)
        /\ UNCHANGED <<remaining_header_bits, growth, kills>>
    BY <1>4 DEF OpenFile
  <2>8. \/ todo' \in Seq(Files) /\ todo' # <<>> /\ pc' = pc
        \/ todo' = <<node_ft, relationship_ft>> /\ pc' = "validate"
    BY <2>1, <2>3, AdvanceStep
  <2>9. remaining_header_bits' \in [FileTypes -> Nat]
    BY <2>2, <2>3, <1>0 DEF TypeOK
  <2> QED BY <2>1, <2>2, <2>3, <2>8, <2>9, AdvanceTypes
<1>5. CASE OpenFileFails
  BY <1>5, ExitTypes DEF OpenFileFails, Gone
<1>6. CASE Validate
  <2> DEFINE ft == Head(todo)
  <2>1. /\ todo \in Seq(FileTypes) /\ todo # <<>> /\ ft \in FileTypes
        /\ pc \in {"validate new", "validate"}
    BY <1>0, <1>6, HeadPending DEF Validate, TodoOK
  <2>2. /\ Advance("idle", <<>>) /\ UNCHANGED <<growth, kills>>
        /\ ValidateEmptyHeader(ft) \/ ValidateHeader(ft)
    BY <1>6 DEF Validate
  <2> HIDE DEF ft
  <2>3. /\ StreamOK(catalogue, Flushed(catalogue))
        /\ StreamOK(header(ft), Flushed(header(ft)))
        /\ StreamOK(header(ft), Grown(header(ft), 1))
    BY <1>0, <2>1, StreamOps, FileNames
  <2>4. FilesOK' /\ remaining_header_bits' \in [FileTypes -> Nat]
    <3>1. CASE ValidateEmptyHeader(ft) /\ Size(header(ft)) = 0
      <4>1. FilesOK'
        BY <3>1, <1>0, <2>1, <2>3, Replace, FileNames DEF ValidateEmptyHeader
      <4> QED BY <4>1, <3>1, <1>0, Sizes DEF ValidateEmptyHeader, TypeOK
    <3>2. CASE ValidateEmptyHeader(ft) /\ Size(header(ft)) # 0
      <4>1. file' = [file EXCEPT ![catalogue] = Flushed(catalogue),
                                 ![header(ft)] = Flushed(header(ft))]
        BY <3>2 DEF ValidateEmptyHeader
      <4>2. /\ file' = [f \in Files |-> file'[f]]
            /\ \A f \in Files : file'[f] \in {file[f], Flushed(f)}
        BY <4>1, <1>0 DEF FilesOK
      <4>3. FilesOK'
        BY <4>2, <1>0, StreamOps DEF FilesOK
      <4> QED BY <4>3, <3>2, <1>0, Sizes DEF ValidateEmptyHeader, TypeOK
    <3>3. CASE ValidateHeader(ft)
      <4>1. FilesOK'
        BY <3>3, <1>0, <2>1, <2>3, Replace, FileNames DEF ValidateHeader
      <4>2. Size(header(ft)) * HeaderBits \in Int /\ Data(catalogue)[ft] \in Int
        <5>1. Size(header(ft)) \in Int /\ Data(catalogue) \in Contents(catalogue)
          BY <1>0, <2>1, StreamOps, FileNames
        <5>2. Data(catalogue)[ft] \in Nat
          BY <5>1, <2>1 DEF Contents
        <5> QED BY <5>1, <5>2, Sizes
      <4>3. Minus(Size(header(ft)) * HeaderBits, Data(catalogue)[ft]) \in Nat
        BY <4>2, MinusType
      <4> QED BY <4>1, <4>3, <3>3, <1>0 DEF ValidateHeader, TypeOK
    <3> QED BY <3>1, <3>2, <3>3, <2>2
  <2>5. \/ todo' \in Seq(FileTypes) /\ todo' # <<>> /\ pc' = pc
        \/ todo' = <<>> /\ pc' = "idle"
    BY <2>1, <2>2, AdvanceStep
  <2> QED BY <2>1, <2>2, <2>4, <2>5, AdvanceTypes
<1>7. CASE ValidateFails
  <2>1. Exit("unreadable") \/ Exit("invalid")
    BY <1>7 DEF ValidateFails
  <2> QED BY <2>1, ExitTypes DEF Gone
<1>8. ASSUME NEW ft \in FileTypes, NEW n \in 1 .. MaxGrowth, Allocate(ft, n)
      PROVE  TInv'
  <2>1. StreamOK(records(ft), Grown(records(ft), n))
    BY <1>0, StreamOps, FileNames
  <2>2. FilesOK'
    BY <1>8, <1>0, <2>1, Replace, FileNames DEF Allocate
  <2>3. todo' \in Seq(FileTypes) /\ todo' # <<>>
    BY <1>8 DEF Allocate
  <2>4. todo' \in Seq(Files \cup FileTypes)
    BY <2>3, WiderSeq
  <2>5. growth' \in 0 .. MaxGrowth
    BY <1>8, SizeAssumption DEF Allocate
  <2> QED BY <1>8, <1>0, <2>2, <2>3, <2>4, <2>5
          DEF Allocate, TInv, TypeOK, TodoOK, FilesOK, StreamOK
<1>9. ASSUME NEW ft \in FileTypes, NEW n \in 1 .. MaxGrowth, AllocateFails(ft, n)
      PROVE  TInv'
  BY <1>9, ExitTypes DEF AllocateFails, Gone
<1>10. CASE UseHeader
  <2> DEFINE ft == Head(todo)
  <2>1. todo \in Seq(FileTypes) /\ todo # <<>> /\ ft \in FileTypes
    BY <1>0, <1>10, HeadPending DEF UseHeader, TodoOK
  <2>2. /\ remaining_header_bits[ft] >= NecessaryBits
        /\ remaining_header_bits' =
              [remaining_header_bits EXCEPT ![ft] = @ - NecessaryBits]
        /\ pc' = "mapped" /\ UNCHANGED <<file, todo, growth, kills>>
    BY <1>10 DEF UseHeader
  <2> HIDE DEF ft
  <2>3. NecessaryBits \in Nat
    BY <1>0, CountTypes
  <2>4. remaining_header_bits' \in [FileTypes -> Nat]
    <3>1. remaining_header_bits \in [FileTypes -> Nat]
      BY <1>0 DEF TypeOK
    <3>2. remaining_header_bits[ft] - NecessaryBits \in Nat
      BY <2>1, <2>2, <2>3, <3>1
    <3> QED BY <2>1, <2>2, <3>1, <3>2
  <2> QED BY <1>0, <2>1, <2>2, <2>4 DEF TInv, TypeOK, TodoOK
<1>11. CASE GrowHeader
  <2> DEFINE ft == Head(todo)
             p == AdditionalPages(ft)
             x == AdditionalBits(ft)
  <2>1. todo \in Seq(FileTypes) /\ todo # <<>> /\ ft \in FileTypes
    BY <1>0, <1>11, HeadPending DEF GrowHeader, TodoOK
  <2>2. /\ remaining_header_bits[ft] < NecessaryBits
        /\ file' = [file EXCEPT ![header(ft)] = Grown(header(ft), p)]
        /\ remaining_header_bits' =
              [remaining_header_bits EXCEPT ![ft] = p * HeaderBits - x]
        /\ pc' = "mapped" /\ UNCHANGED <<todo, growth, kills>>
    BY <1>11 DEF GrowHeader
  <2>3. NecessaryBits \in Nat
    BY <1>0, CountTypes
  <2>4. x \in Nat \ {0}
    BY <1>0, <2>1, <2>2, CountTypes DEF AdditionalBits
  <2>5. p = CeilDiv(CeilDiv(x, CharBit), PageSize)
    BY DEF AdditionalPages
  <2> HIDE DEF ft, p, x
  <2>6. p \in Nat /\ p * HeaderBits >= x
    BY <2>4, <2>5, AdditionalPagesBounds
  <2>7. p * HeaderBits - x \in Nat
    BY <2>4, <2>6, Sizes
  <2>8. remaining_header_bits' \in [FileTypes -> Nat]
    BY <1>0, <2>1, <2>2, <2>7 DEF TypeOK
  <2>9. FilesOK'
    BY <1>0, <2>1, <2>2, <2>6, StreamOps, Replace, FileNames
  <2> QED BY <1>0, <2>1, <2>2, <2>8, <2>9
          DEF TInv, TypeOK, TodoOK, FilesOK, StreamOK
<1>12. CASE CountSlots
  <2> DEFINE ft == Head(todo)
             d == [Data(catalogue) EXCEPT ![ft] = @ + NecessaryBits]
  <2>1. ft \in FileTypes
    BY <1>0, <1>12, HeadPending DEF CountSlots, TodoOK
  <2>2. NecessaryBits \in Nat
    BY <1>0, CountTypes
  <2>3. Data(catalogue) \in [FileTypes -> Nat]
    BY <1>0, CountTypes
  <2>4. d \in Contents(catalogue)
    BY <2>1, <2>2, <2>3 DEF Contents
  <2>5. /\ file' = [file EXCEPT ![catalogue] = Written(catalogue, d)]
        /\ pc' = "idle" /\ todo' = <<>> /\ growth' = 0
        /\ UNCHANGED <<remaining_header_bits, kills>>
    BY <1>12 DEF CountSlots
  <2> HIDE DEF d
  <2>6. FilesOK'
    BY <1>0, <2>4, <2>5, StreamOps, Replace, FileNames
  <2>7. todo' \in Seq(Files \cup FileTypes) /\ growth' \in 0 .. MaxGrowth
    BY <2>5, WiderSeq, SizeAssumption
  <2> QED BY <1>0, <2>5, <2>6, <2>7
          DEF TInv, TypeOK, TodoOK, FilesOK, StreamOK
<1>13. CASE CountSlotsFails
  BY <1>13, ExitTypes DEF CountSlotsFails, Gone
<1>14. ASSUME NEW f \in Files, ReadPage(f) PROVE TInv'
  <2>1. FilesOK'
    BY <1>0, <1>14, StreamOps, Replace DEF ReadPage
  <2> QED BY <1>0, <1>14, <2>1
          DEF ReadPage, TInv, TypeOK, TodoOK, FilesOK, StreamOK
<1>15. ASSUME NEW ft \in FileTypes, NEW d \in BOOLEAN, WriteHeader(ft, d) PROVE TInv'
  <2>1. d \in Contents(header(ft)) /\ header(ft) \in Files
    BY FileNames DEF Contents
  <2>2. FilesOK'
    BY <1>0, <1>15, <2>1, StreamOps, Replace DEF WriteHeader
  <2> QED BY <1>0, <1>15, <2>2
          DEF WriteHeader, TInv, TypeOK, TodoOK, FilesOK, StreamOK
<1>16. CASE CloseFile
  <2> DEFINE f == Head(todo)
             s == IF pc = "close" THEN Flushed(f) ELSE Closed(f, NoFile)
  <2>1. todo \in Seq(Files) /\ todo # <<>> /\ f \in Files
        /\ pc \in {"close", "delete"}
    BY <1>0, <1>16, HeadPending DEF CloseFile, TodoOK
  <2>2. StreamOK(f, s)
    BY <1>0, <2>1, StreamOps, ClosedOps
  <2>3. file' = [file EXCEPT ![f] = s]
    BY <1>16 DEF CloseFile
  <2> HIDE DEF f, s
  <2>4. FilesOK'
    BY <1>0, <2>1, <2>2, <2>3, Replace
  <2>5. CASE Len(todo) > 1 /\ todo' = Tail(todo)
             /\ UNCHANGED <<remaining_header_bits, pc, growth, kills>>
    <3>1. todo' \in Seq(Files) /\ todo' # <<>>
      BY <2>1, <2>5, HeadPending
    <3>2. todo' \in Seq(Files \cup FileTypes)
      BY <3>1, WiderSeq
    <3> QED BY <1>0, <2>1, <2>4, <2>5, <3>1, <3>2
            DEF TInv, TypeOK, TodoOK, FilesOK, StreamOK
  <2>6. CASE End("down") /\ UNCHANGED kills
    BY <1>0, <2>4, <2>6, EndTypes DEF TypeOK, Gone
  <2> QED BY <1>16, <2>5, <2>6 DEF CloseFile
<1>17. CASE ExitElsewhere
  <2>1. FilesOK'
    BY <1>0, <1>17, FlushAll DEF ExitElsewhere
  <2> QED BY <1>0, <1>17, <2>1, EndTypes DEF ExitElsewhere, TypeOK, Gone
<1>18. CASE Kill
  <2>1. FilesOK'
    BY <1>0, <1>18, LoseAll DEF Kill
  <2>2. kills' \in 0 .. MaxKills
    <3>1. kills \in 0 .. MaxKills /\ kills < MaxKills /\ kills' = kills + 1
      BY <1>0, <1>18 DEF Kill, TypeOK
    <3> QED BY <3>1, SizeAssumption
  <2> QED BY <1>18, <2>1, <2>2, EndTypes DEF Kill, Gone
<1> QED BY <1>1, <1>2, <1>3, <1>4, <1>5, <1>6, <1>7, <1>8, <1>9, <1>10, <1>11, <1>12,
           <1>13, <1>14, <1>15, <1>16, <1>17, <1>18 DEF Next

\* The five streams, the counts and the control of a call keep their types.
THEOREM TypeCorrect == Spec => []TypeOK
<1>1. TInv /\ [Next]_vars => TInv'
  BY TypeStep
<1> QED BY TypeInit, <1>1, PTL DEF Spec, TInv

------------------------------------------------------------------------------
(* What the steps do to sizes and contents *)

SameView == \A f \in Files : Size(f)' = Size(f) /\ Data(f)' = Data(f)

LEMMA SlotsOf ==
    ASSUME FilesOK, NEW ft \in FileTypes
    PROVE  Slots(ft) = Size(records(ft)) * SlotsPerPage /\ Slots(ft) \in Int
           /\ Size(records(ft)) \in Int
<1>1. Size(records(ft)) \in Int
  BY StreamOps, FileNames
<1>2. Slots(ft) = Size(records(ft)) * SlotsPerPage
  BY <1>1, SlotsExact DEF Slots
<1> QED BY <1>1, <1>2, Sizes

LEMMA SameFile ==
    ASSUME file' = file PROVE SameView
  BY DEF SameView, Size, Data

LEMMA CreateView ==
    ASSUME TInv, CreateFile, NEW f \in Files, f = Head(todo)
    PROVE  /\ Data(f)' = Blank(f)
           /\ Size(f)' = IF f = catalogue THEN 1 ELSE 0
           /\ \A g \in Files \ {f} : Size(g)' = Size(g) /\ Data(g)' = Data(g)
<1> DEFINE s == [Closed(f, 0) EXCEPT !.grown = IF f = catalogue THEN 1 ELSE 0]
<1>2. s = [pages |-> 0, data |-> Blank(f), grown |-> IF f = catalogue THEN 1 ELSE 0,
           written |-> <<>>]
  BY DEF Closed
<1>3. SizeOf(s) = (IF f = catalogue THEN 1 ELSE 0) /\ DataOf(s) = Blank(f)
  BY <1>2 DEF SizeOf, DataOf
<1>4. file' = [file EXCEPT ![f] = s] /\ FilesOK
  BY TypeOKFiles DEF CreateFile, TInv
<1> HIDE DEF s
<1>5. file'[f] = s /\ \A g \in Files \ {f} : file'[g] = file[g]
  BY <1>4 DEF FilesOK
<1>6. /\ Data(f)' = Blank(f) /\ Size(f)' = IF f = catalogue THEN 1 ELSE 0
      /\ \A g \in Files \ {f} : Size(g)' = Size(g) /\ Data(g)' = Data(g)
  BY <1>3, <1>5 DEF Size, Data, SizeOf, DataOf
<1> QED BY <1>6

\* Validation changes the size of an empty header, nothing else that is read.
LEMMA ValidateView ==
    ASSUME TInv, Validate, NEW ft \in FileTypes, ft = Head(todo)
    PROVE  /\ todo \in Seq(FileTypes) /\ todo # <<>>
           /\ Advance("idle", <<>>)
           /\ \A f \in Files : Data(f)' = Data(f)
           /\ \A f \in Files \ {header(ft)} : Size(f)' = Size(f)
           /\ \/ /\ TreatedAsEmpty(ft) /\ Size(header(ft))' = 1
                 /\ remaining_header_bits' =
                       [remaining_header_bits EXCEPT ![ft] = HeaderBits]
              \/ /\ ~TreatedAsEmpty(ft) /\ Size(header(ft))' = Size(header(ft))
                 /\ Data(catalogue)[ft] = Slots(ft)
                 /\ remaining_header_bits' =
                       [remaining_header_bits EXCEPT
                          ![ft] = Minus(Size(header(ft)) * HeaderBits, Slots(ft))]
<1>1. /\ todo \in Seq(FileTypes) /\ todo # <<>>
      /\ Advance("idle", <<>>)
      /\ ValidateEmptyHeader(ft) \/ ValidateHeader(ft)
  BY DEF Validate, TInv, TodoOK
<1>2. FilesOK
  BY TypeOKFiles DEF TInv
<1>3. CASE ValidateEmptyHeader(ft) /\ Size(header(ft)) = 0
  <2>1. /\ file' = [file EXCEPT ![header(ft)] = Grown(header(ft), 1)]
        /\ remaining_header_bits' = [remaining_header_bits EXCEPT ![ft] = HeaderBits]
        /\ TreatedAsEmpty(ft)
    BY <1>3 DEF ValidateEmptyHeader
  <2>2. /\ StreamOK(header(ft), Grown(header(ft), 1)) /\ header(ft) \in Files
        /\ SizeOf(Grown(header(ft), 1)) = 1
        /\ DataOf(Grown(header(ft), 1)) = Data(header(ft))
    <3>1. header(ft) \in Files /\ 1 \in Nat /\ Size(header(ft)) + 1 = 1
      BY <1>3, FileNames
    <3>2. /\ StreamOK(header(ft), Grown(header(ft), 1))
          /\ SizeOf(Grown(header(ft), 1)) = Size(header(ft)) + 1
          /\ DataOf(Grown(header(ft), 1)) = Data(header(ft))
      BY <3>1, <1>2, StreamOps
    <3> QED BY <3>1, <3>2
  <2>3. /\ Size(header(ft))' = 1 /\ Data(header(ft))' = Data(header(ft))
        /\ \A f \in Files \ {header(ft)} : Size(f)' = Size(f) /\ Data(f)' = Data(f)
    BY <1>2, <2>1, <2>2, Replace
  <2> QED BY <1>1, <2>1, <2>3
<1>4. CASE ValidateEmptyHeader(ft) /\ Size(header(ft)) # 0
  <2>1. /\ file' = [file EXCEPT ![catalogue] = Flushed(catalogue),
                                ![header(ft)] = Flushed(header(ft))]
        /\ remaining_header_bits' = [remaining_header_bits EXCEPT ![ft] = HeaderBits]
        /\ TreatedAsEmpty(ft) /\ Size(header(ft)) = 1
    BY <1>4 DEF ValidateEmptyHeader, InvalidEmptyHeader
  <2>2. \A f \in Files : file'[f] \in {file[f], Flushed(f)}
    BY <2>1, <1>2 DEF FilesOK
  <2>3. \A f \in Files : SizeOf(file'[f]) = Size(f) /\ DataOf(file'[f]) = Data(f)
    BY <2>2, <1>2, StreamOps
  <2>4. SameView
    BY <2>3 DEF SameView, Size, Data, SizeOf, DataOf
  <2>5. header(ft) \in Files
    BY <1>1, FileNames
  <2> QED BY <1>1, <2>1, <2>4, <2>5 DEF SameView
<1>5. CASE ValidateHeader(ft)
  <2>1. /\ file' = [file EXCEPT ![catalogue] = Flushed(catalogue)]
        /\ remaining_header_bits' =
              [remaining_header_bits EXCEPT
                 ![ft] = Minus(Size(header(ft)) * HeaderBits, Data(catalogue)[ft])]
        /\ ~TreatedAsEmpty(ft) /\ Data(catalogue)[ft] = Slots(ft)
    BY <1>5 DEF ValidateHeader, InvalidHeader
  <2>2. /\ StreamOK(catalogue, Flushed(catalogue)) /\ catalogue \in Files
        /\ SizeOf(Flushed(catalogue)) = Size(catalogue)
        /\ DataOf(Flushed(catalogue)) = Data(catalogue)
    BY <1>2, StreamOps, FileNames
  <2>3. SameView
    BY <1>2, <2>1, <2>2, Replace DEF SameView
  <2>4. header(ft) \in Files
    BY <1>1, FileNames
  <2> QED BY <1>1, <2>1, <2>3, <2>4 DEF SameView
<1> QED BY <1>1, <1>3, <1>4, <1>5

LEMMA AllocateView ==
    ASSUME TInv, NEW ft \in FileTypes, NEW n \in 1 .. MaxGrowth, Allocate(ft, n)
    PROVE  /\ Size(records(ft))' = Size(records(ft)) + n
           /\ \A f \in Files \ {records(ft)} : Size(f)' = Size(f)
           /\ \A f \in Files : Data(f)' = Data(f)
           /\ Slots(ft)' = Slots(ft) + n * SlotsPerPage
           /\ NecessaryBits' = n * SlotsPerPage
           /\ Head(todo)' = ft
<1>1. FilesOK /\ n \in Nat
  BY TypeOKFiles DEF TInv
<1>2. /\ StreamOK(records(ft), Grown(records(ft), n)) /\ records(ft) \in Files
      /\ SizeOf(Grown(records(ft), n)) = Size(records(ft)) + n
      /\ DataOf(Grown(records(ft), n)) = Data(records(ft))
  BY <1>1, StreamOps, FileNames
<1>3. /\ Size(records(ft))' = Size(records(ft)) + n
      /\ \A f \in Files \ {records(ft)} : Size(f)' = Size(f)
      /\ \A f \in Files : Data(f)' = Data(f)
  <2>1. file' = [file EXCEPT ![records(ft)] = Grown(records(ft), n)]
    BY DEF Allocate
  <2> QED BY <1>1, <1>2, <2>1, Replace
<1>4. Slots(ft)' = Size(records(ft))' * SlotsPerPage
  <2>1. Size(records(ft))' \in Int
    BY <1>1, <1>3, SlotsOf
  <2>2. \A m \in Int : (m * PageSize) \div SlotSize = m * SlotsPerPage
    BY SlotsExact
  <2> QED BY <2>1, <2>2 DEF Slots
<1>5. Slots(ft) = Size(records(ft)) * SlotsPerPage /\ Size(records(ft)) \in Int
  BY <1>1, SlotsOf
<1>6. Slots(ft)' = Slots(ft) + n * SlotsPerPage
  BY <1>3, <1>4, <1>5, Sizes
<1>7. NecessaryBits' = n * SlotsPerPage /\ Head(todo)' = ft
  BY DEF Allocate, NecessaryBits
<1> QED BY <1>3, <1>6, <1>7

\* The bits GrowHeader adds, used up by the slots or left over.
LEMMA GrowView ==
    ASSUME TInv, GrowHeader, NEW ft \in FileTypes, ft = Head(todo),
           NEW p, p = AdditionalPages(ft)
    PROVE  /\ p \in Nat \ {0}
           /\ Size(header(ft))' = Size(header(ft)) + p
           /\ \A f \in Files \ {header(ft)} : Size(f)' = Size(f)
           /\ \A f \in Files : Data(f)' = Data(f)
           /\ remaining_header_bits' =
                 [remaining_header_bits EXCEPT
                    ![ft] = p * HeaderBits - (NecessaryBits - @)]
<1> DEFINE x == AdditionalBits(ft)
<1>1. TypeOK
  BY DEF TInv
<1>2. x \in Nat \ {0}
  BY <1>1, CountTypes DEF GrowHeader, AdditionalBits
<1>3. p \in Nat \ {0}
  BY <1>2, AdditionalPagesBounds DEF AdditionalPages
<1>4. /\ file' = [file EXCEPT ![header(ft)] = Grown(header(ft), p)]
      /\ remaining_header_bits' =
            [remaining_header_bits EXCEPT ![ft] = p * HeaderBits - x]
  BY DEF GrowHeader
<1>5. x = NecessaryBits - remaining_header_bits[ft]
  BY DEF AdditionalBits
<1> HIDE DEF x
<1>6. /\ StreamOK(header(ft), Grown(header(ft), p)) /\ header(ft) \in Files
      /\ SizeOf(Grown(header(ft), p)) = Size(header(ft)) + p
      /\ DataOf(Grown(header(ft), p)) = Data(header(ft))
  BY <1>1, <1>3, TypeOKFiles, StreamOps, FileNames
<1>7. /\ Size(header(ft))' = Size(header(ft)) + p
      /\ \A f \in Files \ {header(ft)} : Size(f)' = Size(f)
      /\ \A f \in Files : Data(f)' = Data(f)
  BY <1>1, <1>4, <1>6, TypeOKFiles, Replace
<1> QED BY <1>1, <1>3, <1>4, <1>5, <1>7

LEMMA CountView ==
    ASSUME TInv, CountSlots, NEW ft \in FileTypes, ft = Head(todo)
    PROVE  /\ \A f \in Files : Size(f)' = Size(f)
           /\ \A f \in Files \ {catalogue} : Data(f)' = Data(f)
           /\ Data(catalogue)' = [Data(catalogue) EXCEPT ![ft] = @ + NecessaryBits]
<1> DEFINE d == [Data(catalogue) EXCEPT ![ft] = @ + NecessaryBits]
<1>1. TypeOK
  BY DEF TInv
<1>2. d \in Contents(catalogue)
  BY <1>1, CountTypes DEF Contents
<1>3. file' = [file EXCEPT ![catalogue] = Written(catalogue, d)]
  BY DEF CountSlots
<1> HIDE DEF d
<1>4. /\ StreamOK(catalogue, Written(catalogue, d)) /\ catalogue \in Files
      /\ SizeOf(Written(catalogue, d)) = Size(catalogue)
      /\ DataOf(Written(catalogue, d)) = d
  BY <1>1, <1>2, TypeOKFiles, StreamOps, FileNames
<1>5. /\ \A f \in Files : Size(f)' = Size(f)
      /\ \A f \in Files \ {catalogue} : Data(f)' = Data(f)
      /\ Data(catalogue)' = d
  BY <1>1, <1>3, <1>4, TypeOKFiles, Replace
<1> QED BY <1>1, <1>5 DEF d

\* Reading, and writing header bits, change no size and no slot count.
LEMMA AccessView ==
    ASSUME TInv,
           \/ \E f \in Files : ReadPage(f)
           \/ \E ft \in FileTypes, d \in BOOLEAN : WriteHeader(ft, d)
    PROVE  /\ \A f \in Files : Size(f)' = Size(f)
           /\ Data(catalogue)' = Data(catalogue)
           /\ \A ft \in FileTypes : Size(records(ft)) <= 0 =>
                 Data(header(ft))' = Data(header(ft))
<1>1. FilesOK
  BY TypeOKFiles DEF TInv
<1>2. ASSUME NEW f \in Files, ReadPage(f) PROVE SameView
  <2>1. /\ StreamOK(f, Flushed(f)) /\ SizeOf(Flushed(f)) = Size(f)
        /\ DataOf(Flushed(f)) = Data(f)
    BY <1>1, StreamOps, Zenon
  <2>2. file' = [file EXCEPT ![f] = Flushed(f)]
    BY <1>2 DEF ReadPage
  <2> QED BY <1>1, <2>1, <2>2, Replace DEF SameView
<1>3. ASSUME NEW ft \in FileTypes, NEW d \in BOOLEAN, WriteHeader(ft, d)
      PROVE  /\ \A f \in Files : Size(f)' = Size(f)
             /\ Size(records(ft)) > 0
             /\ \A f \in Files \ {header(ft)} : Data(f)' = Data(f)
  <2>1. d \in Contents(header(ft)) /\ header(ft) \in Files
    BY FileNames DEF Contents
  <2> DEFINE s == Written(header(ft), d)
  <2>2. StreamOK(header(ft), s) /\ SizeOf(s) = Size(header(ft))
    BY <1>1, <2>1, StreamOps, Zenon
  <2>3. file' = [file EXCEPT ![header(ft)] = s] /\ Size(records(ft)) > 0
    BY <1>3 DEF WriteHeader
  <2> HIDE DEF s
  <2> QED BY <1>1, <2>1, <2>2, <2>3, Replace
<1>4. CASE \E f \in Files : ReadPage(f)
  BY <1>2, <1>4, FileNames DEF SameView
<1>5. CASE \E ft \in FileTypes, d \in BOOLEAN : WriteHeader(ft, d)
  <2>1. PICK ft \in FileTypes, d \in BOOLEAN : WriteHeader(ft, d)
    BY <1>5
  <2>2. \A gt \in FileTypes : Size(records(gt)) \in Int
    BY <1>1, SlotsOf
  <2> QED BY <2>1, <2>2, <1>3, FileNames
<1> QED BY <1>4, <1>5

\* Closing a file in good order loses nothing.
LEMMA CloseView ==
    ASSUME TInv, CloseFile, pc = "close"
    PROVE  SameView
<1>1. PICK f \in Files : f = Head(todo)
  BY HeadPending DEF CloseFile, TInv, TodoOK
<1>2. file' = [file EXCEPT ![f] = Flushed(f)] /\ FilesOK
  BY <1>1, TypeOKFiles DEF CloseFile, TInv
<1>3. /\ StreamOK(f, Flushed(f)) /\ SizeOf(Flushed(f)) = Size(f)
      /\ DataOf(Flushed(f)) = Data(f)
  BY <1>2, StreamOps, Zenon
<1> QED BY <1>2, <1>3, Replace DEF SameView

LEMMA SameSlots ==
    ASSUME NEW ft \in FileTypes, Size(records(ft))' = Size(records(ft))
    PROVE  Slots(ft)' = Slots(ft)
  BY DEF Slots

------------------------------------------------------------------------------
(* Slots are counted, kills or not *)

\* Slots of ft that allocate_pages has not counted in the catalogue yet.
Due(ft) ==
    IF pc \in {"grown", "mapped"} /\ ft = Head(todo) THEN NecessaryBits ELSE 0

Counted(ft) == Slots(ft) <= Data(catalogue)[ft] + Due(ft)

SInv ==
    /\ pc = "create" =>
          \A ft \in FileTypes : records(ft) \notin Pending => Size(records(ft)) = 0
    /\ pc = "validate new" => \A ft \in FileTypes : Size(records(ft)) = 0
    /\ pc = "validate" => \A ft \in FileTypes \ Pending : Counted(ft)
    /\ pc \in {"idle", "grown", "mapped"} => \A ft \in FileTypes : Counted(ft)

LEMMA GoneSInv ==
    ASSUME pc' \in Gone \cup {"open", "close", "delete"} PROVE SInv'
  BY DEF SInv, Gone

LEMMA SInvStep == TInv /\ SInv /\ [Next]_vars => SInv'
<1> SUFFICES ASSUME TInv, SInv, [Next]_vars PROVE SInv'
  OBVIOUS
<1>0. TInv /\ TypeOK /\ FilesOK /\ TodoOK
  BY TypeOKFiles DEF TInv
<1>1. CASE UNCHANGED vars
  BY <1>1 DEF vars, SInv, Pending, Elements, Counted, Due, Slots, Size, Data, NecessaryBits
<1>2. CASE Open \/ Close \/ Delete \/ ExitElsewhere \/ OpenFileFails \/ ValidateFails
           \/ CountSlotsFails \/ Kill
           \/ \E ft \in FileTypes, n \in 1 .. MaxGrowth : AllocateFails(ft, n)
  <2>1. pc' \in Gone \cup {"open", "close", "delete"}
    BY <1>2 DEF Open, Close, Delete, Start, ExitElsewhere, OpenFileFails, ValidateFails,
                CountSlotsFails, Kill, AllocateFails, Exit, End, Gone
  <2> QED BY <2>1, GoneSInv
<1>3. CASE Create
  <2>1. pc' = "create" /\ todo' = OpenOrder
    BY <1>3 DEF Create, Start
  <2>2. Pending' = Files
    BY <2>1, OrdersComplete DEF Pending
  <2> QED BY <2>1, <2>2, FileNames DEF SInv
<1>4. CASE CreateFile
  <2>1. PICK f \in Files : f = Head(todo)
    BY <1>0, <1>4, HeadPending DEF CreateFile, TodoOK
  <2>2. /\ todo \in Seq(Files) /\ todo # <<>> /\ pc = "create"
        /\ Advance("validate new", <<node_ft, relationship_ft>>)
    BY <1>0, <1>4 DEF CreateFile, TodoOK
  <2>3. /\ Size(f)' = IF f = catalogue THEN 1 ELSE 0
        /\ \A g \in Files \ {f} : Size(g)' = Size(g)
    BY <1>0, <1>4, <2>1, CreateView
  <2>4. \A ft \in FileTypes : records(ft) \notin Pending \/ records(ft) = f =>
           Size(records(ft))' = 0
    BY <2>2, <2>3, FileNames DEF SInv
  <2>5. \/ pc' = "create" /\ Pending = {f} \cup Pending'
        \/ pc' = "validate new" /\ Pending = {f}
    BY <2>1, <2>2, AdvanceStep
  <2> QED BY <2>4, <2>5 DEF SInv
<1>5. CASE OpenFile
  <2>1. /\ todo \in Seq(Files) /\ todo # <<>> /\ pc = "open"
        /\ Advance("validate", <<node_ft, relationship_ft>>)
    BY <1>0, <1>5 DEF OpenFile, TodoOK
  <2>2. pc' = "open" \/ (pc' = "validate" /\ todo' = <<node_ft, relationship_ft>>)
    BY <2>1, AdvanceStep
  <2>3. todo' = <<node_ft, relationship_ft>> => Pending' = FileTypes
    BY OrdersComplete DEF Pending
  <2> QED BY <2>2, <2>3 DEF SInv
<1>6. CASE Validate
  <2>1. PICK ft \in FileTypes : ft = Head(todo)
    BY <1>0, <1>6, HeadPending DEF Validate, TodoOK
  <2>2. /\ todo \in Seq(FileTypes) /\ todo # <<>> /\ Advance("idle", <<>>)
        /\ \A f \in Files : Data(f)' = Data(f)
        /\ \A f \in Files \ {header(ft)} : Size(f)' = Size(f)
        /\ TreatedAsEmpty(ft) \/ Data(catalogue)[ft] = Slots(ft)
    BY <1>0, <1>6, <2>1, ValidateView
  <2>3. \A gt \in FileTypes : /\ Size(records(gt))' = Size(records(gt))
                              /\ Slots(gt)' = Slots(gt)
    BY <2>2, FileNames, SameSlots
  <2>4. Data(catalogue)' = Data(catalogue) /\ Data(catalogue) \in [FileTypes -> Nat]
    BY <2>2, <1>0, FileNames, CountTypes
  <2>5. pc \in {"validate new", "validate"}
    BY <1>6 DEF Validate
  <2>6. \/ pc' = pc /\ Pending = {ft} \cup Pending'
        \/ pc' = "idle" /\ Pending = {ft}
    BY <2>1, <2>2, AdvanceStep
  <2>7. \A gt \in FileTypes : Size(records(gt)) = 0 => Slots(gt) = 0
    BY <1>0, SlotsOf, Sizes
  <2>8. CASE pc = "validate new"
    <3>1. \A gt \in FileTypes : Size(records(gt))' = 0 /\ Slots(gt)' = 0
      BY <2>3, <2>7, <2>8 DEF SInv
    <3>2. CASE pc' = pc
      BY <2>8, <3>1, <3>2 DEF SInv
    <3>3. CASE pc' = "idle"
      <4>1. \A gt \in FileTypes : Due(gt)' = 0 /\ Data(catalogue)'[gt] \in Nat
        BY <2>4, <3>3 DEF Due
      <4>2. \A gt \in FileTypes : Counted(gt)'
        BY <3>1, <4>1 DEF Counted
      <4> QED BY <3>3, <4>2 DEF SInv
    <3> QED BY <2>6, <3>2, <3>3
  <2>9. CASE pc = "validate"
    <3>1. Slots(ft) <= Data(catalogue)[ft]
      BY <2>1, <2>2, <2>4, <2>7, <2>9 DEF TreatedAsEmpty
    <3>2. \A gt \in FileTypes \ Pending : Slots(gt) <= Data(catalogue)[gt]
      BY <2>4, <2>9 DEF SInv, Counted, Due
    <3>3. \A gt \in FileTypes : gt \notin Pending \/ gt = ft =>
             Slots(gt)' <= Data(catalogue)'[gt]
      BY <2>3, <2>4, <3>1, <3>2
    <3>4. Due(ft)' = 0 /\ \A gt \in FileTypes : Due(gt)' = 0
      BY <2>6, <2>9 DEF Due
    <3>5. \A gt \in FileTypes : gt \notin Pending \/ gt = ft => Counted(gt)'
      BY <2>4, <3>3, <3>4 DEF Counted
    <3> QED BY <2>6, <2>9, <3>5 DEF SInv
  <2> QED BY <2>5, <2>8, <2>9
<1>7. ASSUME NEW ft \in FileTypes, NEW n \in 1 .. MaxGrowth, Allocate(ft, n)
      PROVE  SInv'
  <2>1. /\ Slots(ft)' = Slots(ft) + n * SlotsPerPage
        /\ \A f \in Files \ {records(ft)} : Size(f)' = Size(f)
        /\ \A f \in Files : Data(f)' = Data(f)
        /\ NecessaryBits' = n * SlotsPerPage /\ Head(todo)' = ft
    BY <1>0, <1>7, AllocateView
  <2>2. pc = "idle" /\ pc' = "grown"
    BY <1>7 DEF Allocate
  <2>3. Data(catalogue)' = Data(catalogue) /\ Data(catalogue) \in [FileTypes -> Nat]
    BY <2>1, <1>0, FileNames, CountTypes
  <2>4. n * SlotsPerPage \in Nat
    BY Sizes
  <2>5. ASSUME NEW gt \in FileTypes PROVE Counted(gt)'
    <3>1. Slots(gt) \in Int /\ Slots(gt) <= Data(catalogue)[gt] /\ Data(catalogue)[gt] \in Nat
      BY <1>0, <2>2, <2>3, SlotsOf DEF SInv, Counted, Due
    <3>2. CASE gt = ft
      <4>1. Due(gt)' = n * SlotsPerPage
        BY <2>1, <2>2, <3>2 DEF Due
      <4> QED BY <2>1, <2>3, <2>4, <3>1, <3>2, <4>1 DEF Counted
    <3>3. CASE gt # ft
      <4>1. Due(gt)' = 0
        BY <2>1, <3>3 DEF Due
      <4>2. Slots(gt)' = Slots(gt)
        BY <2>1, <3>3, FileNames, SameSlots
      <4> QED BY <2>3, <3>1, <4>1, <4>2 DEF Counted
    <3> QED BY <3>2, <3>3
  <2> QED BY <2>2, <2>5 DEF SInv
<1>8. CASE UseHeader \/ GrowHeader
  <2>1. PICK ft \in FileTypes : ft = Head(todo)
    BY <1>0, <1>8, HeadPending DEF UseHeader, GrowHeader, TodoOK
  <2>2. pc = "grown" /\ pc' = "mapped" /\ UNCHANGED <<todo, growth>>
    BY <1>8 DEF UseHeader, GrowHeader
  <2>3. \A gt \in FileTypes : Size(records(gt))' = Size(records(gt))
    <3>1. CASE UseHeader
      BY <3>1, SameFile, FileNames DEF UseHeader, SameView
    <3>2. CASE GrowHeader
      BY <1>0, <2>1, <3>2, GrowView, FileNames
    <3> QED BY <1>8, <3>1, <3>2
  <2>4. Data(catalogue)' = Data(catalogue)
    <3>1. CASE UseHeader
      BY <3>1, SameFile, FileNames DEF UseHeader, SameView
    <3>2. CASE GrowHeader
      BY <1>0, <2>1, <3>2, GrowView, FileNames
    <3> QED BY <1>8, <3>1, <3>2
  <2>5. \A gt \in FileTypes : Slots(gt)' = Slots(gt) /\ Due(gt)' = Due(gt)
    BY <2>2, <2>3, SameSlots DEF Due, NecessaryBits
  <2> QED BY <2>2, <2>4, <2>5 DEF SInv, Counted
<1>9. CASE CountSlots
  <2>1. PICK ft \in FileTypes : ft = Head(todo)
    BY <1>0, <1>9, HeadPending DEF CountSlots, TodoOK
  <2>2. /\ \A f \in Files : Size(f)' = Size(f)
        /\ Data(catalogue)' = [Data(catalogue) EXCEPT ![ft] = @ + NecessaryBits]
    BY <1>0, <1>9, <2>1, CountView
  <2>3. pc = "mapped" /\ pc' = "idle"
    BY <1>9 DEF CountSlots
  <2>4. NecessaryBits \in Nat /\ Data(catalogue) \in [FileTypes -> Nat]
    BY <1>0, CountTypes
  <2>5. ASSUME NEW gt \in FileTypes PROVE Counted(gt)'
    <3>1. Slots(gt)' = Slots(gt) /\ Slots(gt) \in Int
      BY <1>0, <2>2, FileNames, SameSlots, SlotsOf
    <3>2. Slots(gt) <= Data(catalogue)[gt] + (IF gt = ft THEN NecessaryBits ELSE 0)
      BY <2>1, <2>3 DEF SInv, Counted, Due
    <3>3. Data(catalogue)'[gt] = Data(catalogue)[gt] + (IF gt = ft THEN NecessaryBits ELSE 0)
      BY <2>2, <2>4
    <3>4. Due(gt)' = 0
      BY <2>3 DEF Due
    <3>5. Data(catalogue)'[gt] \in Int
      BY <3>3, <2>4
    <3> QED BY <3>1, <3>2, <3>3, <3>4, <3>5 DEF Counted
  <2> QED BY <2>3, <2>5 DEF SInv
<1>10. CASE \/ \E f \in Files : ReadPage(f)
            \/ \E ft \in FileTypes, d \in BOOLEAN : WriteHeader(ft, d)
  <2>1. /\ \A f \in Files : Size(f)' = Size(f)
        /\ Data(catalogue)' = Data(catalogue)
    BY <1>0, <1>10, AccessView
  <2>2. pc = "idle" /\ pc' = "idle"
    BY <1>10 DEF ReadPage, WriteHeader
  <2>3. \A gt \in FileTypes : Slots(gt)' = Slots(gt) /\ Due(gt)' = Due(gt)
    BY <2>1, <2>2, FileNames, SameSlots DEF Due
  <2> QED BY <2>1, <2>2, <2>3 DEF SInv, Counted
<1>11. CASE CloseFile
  <2>1. pc' \in {"close", "delete", "down"}
    BY <1>11 DEF CloseFile, End
  <2> QED BY <2>1, GoneSInv DEF Gone
<1> QED BY <1>1, <1>2, <1>3, <1>4, <1>5, <1>6, <1>7, <1>8, <1>9, <1>10, <1>11 DEF Next

\* However many processes are killed, and whatever was in their buffers, a
\* database that opens has no slot the catalogue does not count: allocate_pages
\* grows the record file first, and validation refuses a record file that is
\* longer than the catalogue says.
THEOREM SlotsAlwaysCounted == Spec => []SlotsCounted
<1>1. Init => SInv
  BY DEF Init, SInv
<1>2. TInv /\ SInv /\ [Next]_vars => TInv' /\ SInv'
  BY TypeStep, SInvStep
<1>3. TInv /\ SInv => SlotsCounted
  <2> SUFFICES ASSUME TInv, SInv, pc = "idle", NEW ft \in FileTypes
               PROVE  Slots(ft) <= Data(catalogue)[ft]
    BY DEF SlotsCounted
  <2>1. Data(catalogue)[ft] \in Nat
    BY CountTypes DEF TInv
  <2> QED BY <2>1 DEF SInv, Counted, Due
<1> QED BY TypeInit, <1>1, <1>2, <1>3, PTL DEF Spec

------------------------------------------------------------------------------
(* Without kills: the counts agree exactly *)

\* The files of ft as allocate_pages leaves them, up to the slots that are due;
\* an empty record file still has the header page of a new database.
Fine(ft) ==
    /\ Data(catalogue)[ft] + Due(ft) = Slots(ft)
    /\ Size(header(ft)) >= 1
    /\ Size(records(ft)) >= 0
    /\ Size(records(ft)) = 0 => Size(header(ft)) = 1 /\ Data(header(ft)) = FALSE

Covered(ft) == Slots(ft) <= Size(header(ft)) * HeaderBits

\* The header bits are split into those of counted slots, those UseHeader or
\* GrowHeader has just set aside, and the remaining ones.
Exact(ft) ==
    remaining_header_bits[ft] + Data(catalogue)[ft]
      + (IF pc = "mapped" THEN Due(ft) ELSE 0) = Size(header(ft)) * HeaderBits

Missing == \A f \in Files : file[f] = Closed(f, NoFile)

Whole == Size(catalogue) >= 1 /\ \A ft \in FileTypes : Fine(ft) /\ Covered(ft)

New(f) == Size(f) = (IF f = catalogue THEN 1 ELSE 0) /\ Data(f) = Blank(f)

NewHeader(ft) == Size(header(ft)) \in {0, 1} /\ Data(header(ft)) = FALSE

BInv ==
    /\ pc # "invalid"
    /\ pc \in Gone \cup {"open", "close"} => Missing \/ Whole
    /\ pc = "validate" => Whole /\ \A ft \in FileTypes \ Pending : Exact(ft)
    /\ pc = "create" => \A f \in Files \ Pending : New(f)
    /\ pc = "validate new" =>
          /\ New(catalogue)
          /\ \A ft \in FileTypes :
                /\ New(records(ft)) /\ NewHeader(ft)
                /\ ft \notin Pending => /\ Size(header(ft)) = 1
                                        /\ remaining_header_bits[ft] = HeaderBits
    /\ pc \in {"idle", "grown", "mapped"} =>
          /\ Size(catalogue) >= 1
          /\ \A ft \in FileTypes : Fine(ft) /\ Exact(ft)
    /\ pc = "grown" => Size(records(Head(todo))) < MaxPageNo
    /\ pc = "delete" => \A f \in Files \ Pending : file[f] = Closed(f, NoFile)

LEMMA SameSizes ==
    ASSUME SameView
    PROVE  /\ Size(catalogue)' = Size(catalogue) /\ Data(catalogue)' = Data(catalogue)
           /\ \A ft \in FileTypes :
                 /\ Size(records(ft))' = Size(records(ft))
                 /\ Size(header(ft))' = Size(header(ft))
                 /\ Data(header(ft))' = Data(header(ft))
                 /\ Slots(ft)' = Slots(ft)
  BY FileNames, SameSlots DEF SameView

LEMMA SameWhole ==
    ASSUME SameView, Whole, pc \notin {"grown", "mapped"}, pc' \notin {"grown", "mapped"}
    PROVE  Whole'
<1>1. \A ft \in FileTypes : Due(ft) = 0 /\ Due(ft)' = 0
  BY DEF Due
<1>2. \A ft \in FileTypes : Fine(ft)'
  BY <1>1, SameSizes DEF Whole, Fine
<1>3. \A ft \in FileTypes : Covered(ft)'
  BY SameSizes DEF Whole, Covered
<1> QED BY <1>2, <1>3, SameSizes DEF Whole

LEMMA IdleIsWhole ==
    ASSUME TypeOK, BInv, pc = "idle"
    PROVE  Whole
<1>1. ASSUME NEW ft \in FileTypes PROVE Covered(ft)
  <2>1. remaining_header_bits[ft] + Data(catalogue)[ft] + 0 = Size(header(ft)) * HeaderBits
        /\ Data(catalogue)[ft] + 0 = Slots(ft)
    <3>1. Fine(ft) /\ Exact(ft)
      BY DEF BInv
    <3>2. Due(ft) = 0
      BY DEF Due
    <3>3. remaining_header_bits[ft] + Data(catalogue)[ft] + 0
            = Size(header(ft)) * HeaderBits
      BY <3>1 DEF Exact
    <3>4. Data(catalogue)[ft] + 0 = Slots(ft)
      BY <3>1, <3>2 DEF Fine
    <3> QED BY <3>3, <3>4
  <2>2. remaining_header_bits[ft] \in Nat /\ Data(catalogue)[ft] \in Nat
    BY CountTypes
  <2>3. Size(header(ft)) * HeaderBits \in Int
    BY TypeOKFiles, StreamOps, FileNames, Sizes
  <2>4. Slots(ft) = Data(catalogue)[ft]
    <3>1. Data(catalogue)[ft] + 0 = Data(catalogue)[ft]
      BY <2>2, PlusZero
    <3> QED BY <2>1, <3>1
  <2>5. Data(catalogue)[ft] <= Size(header(ft)) * HeaderBits
    BY <2>1, <2>2, <2>3, BitsCover
  <2> QED BY <2>4, <2>5 DEF Covered
<1> QED BY <1>1 DEF BInv, Whole

LEMMA MissingStays ==
    ASSUME Missing, FilesOK, \A f \in Files : file'[f] \in {file[f], Flushed(f)}
    PROVE  Missing'
<1>1. ASSUME NEW f \in Files PROVE Flushed(f) = Closed(f, NoFile)
  <2>1. file[f] = [pages |-> NoFile, data |-> Blank(f), grown |-> 0, written |-> <<>>]
    BY DEF Missing, Closed
  <2>2. Size(f) = NoFile /\ Data(f) = Blank(f)
    BY <2>1 DEF Size, Data, NoFile
  <2> QED BY <2>2 DEF Flushed, Closed
<1> QED BY <1>1 DEF Missing

LEMMA GoneBInv ==
    ASSUME pc' \in (Gone \ {"invalid"}) \cup {"open", "close"}, (Missing \/ Whole)'
    PROVE  BInv'
  BY DEF BInv, Gone

LEMMA IdleBInv ==
    ASSUME pc' = "idle", Size(catalogue)' >= 1,
           \A ft \in FileTypes : Fine(ft)' /\ Exact(ft)'
    PROVE  BInv'
  BY DEF BInv, Gone

\* Nothing is refused: validation finds what it expects.
LEMMA NoValidateFails ==
    ASSUME TInv, BInv, ValidateFails
    PROVE  FALSE
<1>1. PICK ft \in FileTypes : ft = Head(todo)
  BY HeadPending DEF ValidateFails, TInv, TodoOK
<1>2. FilesOK /\ TypeOK
  BY TypeOKFiles DEF TInv
<1>3. Size(records(ft)) = 0 => Slots(ft) = 0
  BY <1>2, SlotsOf, Sizes
<1>4. CASE pc = "validate"
  <2>1. Due(ft) = 0 /\ Data(catalogue)[ft] \in Nat
    BY <1>2, <1>4, CountTypes DEF Due
  <2>2. /\ Size(catalogue) >= 1 /\ Size(header(ft)) >= 1
        /\ Data(catalogue)[ft] = Slots(ft)
        /\ Size(records(ft)) = 0 => Size(header(ft)) = 1 /\ Data(header(ft)) = FALSE
    <3>1. Whole
      BY <1>4 DEF BInv
    <3>2. Size(catalogue) >= 1 /\ Fine(ft)
      BY <3>1 DEF Whole
    <3> QED BY <2>1, <3>2 DEF Fine
  <2>3. Size(catalogue) # 0 /\ Size(header(ft)) # 0
    BY <2>2
  <2>4. ~InvalidHeader(ft)
    BY <2>2, <2>3 DEF InvalidHeader
  <2>5. TreatedAsEmpty(ft) => ~InvalidEmptyHeader(ft)
    BY <1>3, <1>4, <2>2 DEF TreatedAsEmpty, InvalidEmptyHeader
  <2> QED BY <1>1, <2>3, <2>4, <2>5 DEF ValidateFails
<1>5. CASE pc = "validate new"
  <2>1. /\ Size(catalogue) = 1 /\ Data(catalogue)[ft] = 0
        /\ Size(header(ft)) \in {0, 1} /\ Data(header(ft)) = FALSE
    BY <1>5 DEF BInv, New, NewHeader, Blank
  <2>2. TreatedAsEmpty(ft) /\ ~InvalidEmptyHeader(ft)
    BY <1>5, <2>1 DEF TreatedAsEmpty, InvalidEmptyHeader
  <2> QED BY <1>1, <2>1, <2>2 DEF ValidateFails
<1> QED BY <1>4, <1>5 DEF ValidateFails

LEMMA ValidateBInv ==
    ASSUME TInv, BInv, Validate
    PROVE  BInv'
<1>1. PICK ft \in FileTypes : ft = Head(todo)
  BY HeadPending DEF Validate, TInv, TodoOK
<1>2. /\ todo \in Seq(FileTypes) /\ todo # <<>> /\ Advance("idle", <<>>)
      /\ \A f \in Files : Data(f)' = Data(f)
      /\ \A f \in Files \ {header(ft)} : Size(f)' = Size(f)
      /\ \/ /\ TreatedAsEmpty(ft) /\ Size(header(ft))' = 1
            /\ remaining_header_bits' =
                  [remaining_header_bits EXCEPT ![ft] = HeaderBits]
         \/ /\ ~TreatedAsEmpty(ft) /\ Size(header(ft))' = Size(header(ft))
            /\ Data(catalogue)[ft] = Slots(ft)
            /\ remaining_header_bits' =
                  [remaining_header_bits EXCEPT
                     ![ft] = Minus(Size(header(ft)) * HeaderBits, Slots(ft))]
  BY <1>1, ValidateView
<1>3. /\ FilesOK /\ TypeOK /\ Data(catalogue) \in [FileTypes -> Nat]
      /\ remaining_header_bits \in [FileTypes -> Nat]
      /\ pc \in {"validate new", "validate"}
  BY TypeOKFiles, CountTypes DEF TInv, Validate, TypeOK
<1>4. \/ pc' = pc /\ Pending = {ft} \cup Pending'
      \/ pc' = "idle" /\ Pending = {ft}
  BY <1>1, <1>2, AdvanceStep
<1>5. /\ Size(catalogue)' = Size(catalogue) /\ Data(catalogue)' = Data(catalogue)
      /\ \A gt \in FileTypes :
            /\ Size(records(gt))' = Size(records(gt)) /\ Slots(gt)' = Slots(gt)
            /\ Data(records(gt))' = Data(records(gt))
            /\ Data(header(gt))' = Data(header(gt))
            /\ gt # ft => Size(header(gt))' = Size(header(gt))
            /\ Due(gt) = 0 /\ Due(gt)' = 0
  BY <1>2, <1>3, <1>4, FileNames, SameSlots DEF Due
<1>6. CASE pc = "validate new"
  <2>1. /\ New(catalogue)' /\ Size(catalogue)' = 1
        /\ \A gt \in FileTypes :
              /\ New(records(gt))' /\ NewHeader(gt)'
              /\ Data(catalogue)'[gt] = 0 /\ Size(records(gt))' = 0
    <3>1. New(catalogue) /\ \A gt \in FileTypes : New(records(gt)) /\ NewHeader(gt)
      BY <1>6 DEF BInv
    <3>2. NewHeader(ft)' /\ \A gt \in FileTypes : NewHeader(gt)'
      BY <1>2, <1>5, <1>6, <3>1 DEF NewHeader, TreatedAsEmpty
    <3>3. /\ Size(catalogue) = 1 /\ Data(catalogue) = Blank(catalogue)
          /\ \A gt \in FileTypes : /\ Size(records(gt)) = 0
                                  /\ Data(records(gt)) = Blank(records(gt))
      BY <3>1, FileNames DEF New
    <3>4. New(catalogue)' /\ \A gt \in FileTypes : New(records(gt))'
      BY <1>5, <3>3, FileNames DEF New
    <3>5. \A gt \in FileTypes : Data(catalogue)'[gt] = 0
      BY <1>5, <3>3 DEF Blank
    <3> QED BY <1>5, <3>2, <3>3, <3>4, <3>5
  <2>2. /\ Size(header(ft))' = 1
        /\ remaining_header_bits' = [remaining_header_bits EXCEPT ![ft] = HeaderBits]
    BY <1>2, <1>6 DEF TreatedAsEmpty
  <2>3. \A gt \in FileTypes : gt \notin Pending \/ gt = ft =>
           Size(header(gt))' = 1 /\ remaining_header_bits'[gt] = HeaderBits
    BY <1>3, <1>5, <1>6, <2>2 DEF BInv
  <2>4. CASE pc' = pc /\ Pending = {ft} \cup Pending'
    BY <1>6, <2>1, <2>3, <2>4 DEF BInv, Gone
  <2>5. CASE pc' = "idle" /\ Pending = {ft}
    <3>1. \A gt \in FileTypes : gt \notin Pending \/ gt = ft
      BY <2>5
    <3>2. \A gt \in FileTypes : Slots(gt)' = 0
      <4>1. ASSUME NEW gt \in FileTypes PROVE Slots(gt)' = 0
        <5>1. Slots(gt) = Size(records(gt)) * SlotsPerPage /\ Size(records(gt)) = 0
          BY <1>3, <1>5, <2>1, SlotsOf
        <5>2. Slots(gt)' = Slots(gt)
          BY <1>5
        <5> QED BY <5>1, <5>2, Sizes
      <4> QED BY <4>1
    <3>3. ASSUME NEW gt \in FileTypes PROVE Fine(gt)' /\ Exact(gt)'
      <4>1. /\ Size(header(gt))' = 1 /\ remaining_header_bits'[gt] = HeaderBits
            /\ Data(header(gt))' = FALSE /\ Size(records(gt))' = 0
            /\ Data(catalogue)'[gt] = 0 /\ Due(gt)' = 0 /\ Slots(gt)' = 0
        BY <1>5, <2>1, <2>3, <3>1, <3>2 DEF NewHeader
      <4>2. Fine(gt)'
        BY <4>1 DEF Fine
      <4>3. Exact(gt)'
        BY <2>5, <4>1, Sizes DEF Exact
      <4> QED BY <4>2, <4>3
    <3> QED BY <2>1, <2>5, <3>3, IdleBInv
  <2> QED BY <1>4, <2>4, <2>5
<1>7. CASE pc = "validate"
  <2>1. /\ Size(catalogue)' >= 1
        /\ \A gt \in FileTypes : Fine(gt) /\ Covered(gt)
        /\ \A gt \in FileTypes \ Pending : Exact(gt)
    BY <1>5, <1>7 DEF BInv, Whole
  <2>2. Size(header(ft))' = Size(header(ft))
    BY <1>2, <1>7, <2>1 DEF TreatedAsEmpty, Fine
  <2>3. \A gt \in FileTypes : Fine(gt)' /\ Covered(gt)'
    BY <1>5, <2>1, <2>2 DEF Fine, Covered
  <2>4. Exact(ft)'
    <3>1. /\ Size(header(ft)) \in Int /\ Size(header(ft)) * HeaderBits \in Int
          /\ Slots(ft) \in Int /\ Slots(ft) = Size(records(ft)) * SlotsPerPage
      <4>1. Size(header(ft)) \in Int
        BY <1>3, StreamOps, FileNames
      <4>2. Size(header(ft)) * HeaderBits \in Int
        BY <4>1, Sizes
      <4>3. Slots(ft) \in Int /\ Slots(ft) = Size(records(ft)) * SlotsPerPage
        BY <1>3, SlotsOf
      <4> QED BY <4>1, <4>2, <4>3
    <3>2. Data(catalogue)[ft] = Slots(ft) /\ Data(catalogue)[ft] \in Nat
      <4>1. Data(catalogue)[ft] \in Nat
        BY <1>3
      <4>2. Data(catalogue)[ft] + 0 = Slots(ft)
        BY <1>5, <2>1 DEF Fine
      <4> QED BY <4>1, <4>2
    <3>3. pc' # "mapped"
      BY <1>4, <1>7
    <3>4. /\ remaining_header_bits'[ft] + Slots(ft) = Size(header(ft)) * HeaderBits
          /\ remaining_header_bits'[ft] \in Int
      <4>1. CASE TreatedAsEmpty(ft)
        <5>1. Size(records(ft)) = 0 /\ Size(header(ft)) = 1
          BY <1>7, <4>1, <2>1 DEF TreatedAsEmpty, Fine
        <5>2. remaining_header_bits'[ft] = HeaderBits
          BY <1>2, <1>3, <4>1
        <5> QED BY <3>1, <5>1, <5>2, Sizes
      <4>2. CASE ~TreatedAsEmpty(ft)
        <5>1. remaining_header_bits'[ft] = Minus(Size(header(ft)) * HeaderBits, Slots(ft))
          BY <1>2, <1>3, <4>2
        <5>2. Slots(ft) <= Size(header(ft)) * HeaderBits
          BY <2>1 DEF Covered
        <5> QED BY <3>1, <5>1, <5>2 DEF Minus
      <4> QED BY <4>1, <4>2
    <3>5. remaining_header_bits'[ft] + Data(catalogue)'[ft] + 0
            = Size(header(ft))' * HeaderBits
      <4>1. Data(catalogue)'[ft] = Slots(ft)
        BY <1>5, <3>2
      <4>2. remaining_header_bits'[ft] + Slots(ft) + 0 = Size(header(ft)) * HeaderBits
        BY <3>1, <3>4, PlusZero
      <4> QED BY <2>2, <4>1, <4>2
    <3> QED BY <3>3, <3>5 DEF Exact
  <2>5. \A gt \in FileTypes : gt \notin Pending \/ gt = ft => Exact(gt)'
    <3>1. ASSUME NEW gt \in FileTypes \ Pending, gt # ft PROVE Exact(gt)'
      <4>1. remaining_header_bits'[gt] = remaining_header_bits[gt]
        BY <1>2, <1>3, <3>1
      <4>2. Exact(gt)
        BY <2>1
      <4> QED BY <1>4, <1>5, <1>7, <3>1, <4>1, <4>2 DEF Exact
    <3> QED BY <2>4, <3>1
  <2>6. CASE pc' = pc /\ Pending = {ft} \cup Pending'
    BY <1>7, <2>1, <2>3, <2>5, <2>6 DEF BInv, Whole, Gone
  <2>7. CASE pc' = "idle" /\ Pending = {ft}
    BY <2>1, <2>3, <2>5, <2>7, IdleBInv
  <2> QED BY <1>4, <2>6, <2>7
<1> QED BY <1>3, <1>6, <1>7

LEMMA BusyBInv ==
    ASSUME pc' \in {"grown", "mapped"}, Size(catalogue)' >= 1,
           \A ft \in FileTypes : Fine(ft)' /\ Exact(ft)',
           pc' = "grown" => (Size(records(Head(todo))) < MaxPageNo)'
    PROVE  BInv'
  BY DEF BInv, Gone

LEMMA AllocateBInv ==
    ASSUME TInv, BInv, NEW ft \in FileTypes, NEW n \in 1 .. MaxGrowth, Allocate(ft, n)
    PROVE  BInv'
<1>1. /\ Size(records(ft))' = Size(records(ft)) + n
      /\ Slots(ft)' = Slots(ft) + n * SlotsPerPage
      /\ \A f \in Files \ {records(ft)} : Size(f)' = Size(f)
      /\ \A f \in Files : Data(f)' = Data(f)
      /\ NecessaryBits' = n * SlotsPerPage /\ Head(todo)' = ft
  BY AllocateView
<1>2. /\ pc = "idle" /\ pc' = "grown" /\ todo' = <<ft>>
      /\ Size(records(ft)) + n < MaxPageNo
      /\ remaining_header_bits' = remaining_header_bits
  BY DEF Allocate, CanGrow
<1>3. /\ Data(catalogue)' = Data(catalogue) /\ Data(catalogue) \in [FileTypes -> Nat]
      /\ Size(catalogue)' = Size(catalogue) /\ Size(catalogue) >= 1
      /\ n * SlotsPerPage \in Nat /\ FilesOK
  <2>1. Data(catalogue)' = Data(catalogue) /\ Size(catalogue)' = Size(catalogue)
    BY <1>1, FileNames
  <2>2. Data(catalogue) \in [FileTypes -> Nat] /\ FilesOK
    BY CountTypes, TypeOKFiles DEF TInv
  <2>3. Size(catalogue) >= 1
    BY <1>2 DEF BInv
  <2>4. n * SlotsPerPage \in Nat
    BY Sizes
  <2> QED BY <2>1, <2>2, <2>3, <2>4
<1>4. ASSUME NEW gt \in FileTypes PROVE Fine(gt)' /\ Exact(gt)'
  <2>1. /\ Data(catalogue)[gt] \in Nat /\ Data(catalogue)[gt] + 0 = Slots(gt)
        /\ Slots(gt) \in Int /\ Size(records(gt)) \in Int
        /\ Size(header(gt)) >= 1 /\ Size(records(gt)) >= 0
        /\ Size(records(gt)) = 0 => Size(header(gt)) = 1 /\ Data(header(gt)) = FALSE
    BY <1>2, <1>3, SlotsOf DEF BInv, Fine, Due
  <2>2. Size(header(gt))' = Size(header(gt)) /\ Data(header(gt))' = Data(header(gt))
    BY <1>1, FileNames
  <2>3. Exact(gt)'
    <3>1. Exact(gt)
      BY <1>2 DEF BInv
    <3> QED BY <1>2, <1>3, <2>2, <3>1 DEF Exact
  <2>4. CASE gt = ft
    <3>1. Due(gt)' = n * SlotsPerPage
      BY <1>1, <1>2, <2>4 DEF Due
    <3>2. Size(records(gt))' >= 0 /\ Size(records(gt))' # 0
      BY <1>1, <2>1, <2>4
    <3>3. Data(catalogue)'[gt] + Due(gt)' = Slots(gt)'
      BY <1>1, <1>3, <2>1, <2>4, <3>1
    <3>4. Size(header(gt))' >= 1
      BY <2>1, <2>2
    <3> QED BY <2>3, <3>2, <3>3, <3>4 DEF Fine
  <2>5. CASE gt # ft
    <3>1. Due(gt)' = 0
      BY <1>1, <2>5 DEF Due
    <3>2. Size(records(gt))' = Size(records(gt)) /\ Slots(gt)' = Slots(gt)
      BY <1>1, <2>5, FileNames, SameSlots
    <3> QED BY <1>3, <2>1, <2>2, <2>3, <3>1, <3>2 DEF Fine
  <2> QED BY <2>4, <2>5
<1>5. (Size(records(Head(todo))) < MaxPageNo)'
  BY <1>1, <1>2
<1> QED BY <1>2, <1>3, <1>4, <1>5, BusyBInv

LEMMA UseHeaderBInv ==
    ASSUME TInv, BInv, UseHeader
    PROVE  BInv'
<1>1. PICK ft \in FileTypes : ft = Head(todo)
  BY HeadPending DEF UseHeader, TInv, TodoOK
<1>2. /\ pc = "grown" /\ pc' = "mapped" /\ UNCHANGED <<file, todo, growth>>
      /\ remaining_header_bits' =
            [remaining_header_bits EXCEPT ![ft] = @ - NecessaryBits]
      /\ remaining_header_bits \in [FileTypes -> Nat]
  BY <1>1 DEF UseHeader, TInv, TypeOK
<1>3. SameView
  BY <1>2, SameFile
<1>4. ASSUME NEW gt \in FileTypes PROVE Fine(gt)' /\ Exact(gt)'
  <2>1. Fine(gt) /\ Exact(gt)
    BY <1>2 DEF BInv
  <2>2. Due(gt)' = Due(gt) /\ Due(gt) = IF gt = ft THEN NecessaryBits ELSE 0
    BY <1>1, <1>2 DEF Due, NecessaryBits
  <2>3. Fine(gt)'
    BY <1>3, <2>1, <2>2, SameSizes DEF Fine
  <2>4. /\ remaining_header_bits'[gt] =
              remaining_header_bits[gt] - (IF gt = ft THEN NecessaryBits ELSE 0)
        /\ remaining_header_bits[gt] \in Nat
    BY <1>2, CountTypes DEF TInv
  <2>5. Data(catalogue)[gt] \in Nat /\ NecessaryBits \in Nat
    BY CountTypes DEF TInv
  <2>6. remaining_header_bits[gt] + Data(catalogue)[gt] + 0 = Size(header(gt)) * HeaderBits
    BY <1>2, <2>1 DEF Exact
  <2>7. /\ Data(catalogue)'[gt] = Data(catalogue)[gt]
        /\ Size(header(gt))' = Size(header(gt))
    BY <1>3, SameSizes
  <2>8. remaining_header_bits'[gt] + Data(catalogue)'[gt] + Due(gt)'
          = Size(header(gt))' * HeaderBits
    <3> DEFINE n == IF gt = ft THEN NecessaryBits ELSE 0
    <3>1. n \in Int /\ Due(gt)' = n
      BY <2>2, <2>5
    <3>2. remaining_header_bits'[gt] = remaining_header_bits[gt] - n
      BY <2>4
    <3> HIDE DEF n
    <3>3. Size(header(gt)) * HeaderBits \in Int
      BY <2>4, <2>5, <2>6
    <3>4. (remaining_header_bits[gt] - n) + Data(catalogue)[gt] + n
            = Size(header(gt)) * HeaderBits
      BY <2>4, <2>5, <2>6, <3>1, <3>3, BitsMoved
    <3> QED BY <2>7, <3>1, <3>2, <3>4
  <2> QED BY <1>2, <2>3, <2>8 DEF Exact
<1>5. Size(catalogue)' >= 1
  BY <1>2, <1>3, SameSizes DEF BInv
<1> QED BY <1>2, <1>4, <1>5, BusyBInv

LEMMA GrowHeaderBInv ==
    ASSUME TInv, BInv, GrowHeader
    PROVE  BInv'
<1>1. PICK ft \in FileTypes : ft = Head(todo)
  BY HeadPending DEF GrowHeader, TInv, TodoOK
<1>2. PICK p : p = AdditionalPages(ft)
  OBVIOUS
<1>3. /\ p \in Nat \ {0}
      /\ Size(header(ft))' = Size(header(ft)) + p
      /\ \A f \in Files \ {header(ft)} : Size(f)' = Size(f)
      /\ \A f \in Files : Data(f)' = Data(f)
      /\ remaining_header_bits' =
            [remaining_header_bits EXCEPT ![ft] = p * HeaderBits - (NecessaryBits - @)]
  BY <1>1, <1>2, GrowView
<1>4. /\ pc = "grown" /\ pc' = "mapped" /\ UNCHANGED <<todo, growth>>
      /\ remaining_header_bits[ft] < NecessaryBits
  BY <1>1 DEF GrowHeader
<1>5. /\ Data(catalogue)' = Data(catalogue) /\ Size(catalogue)' = Size(catalogue)
      /\ Data(catalogue) \in [FileTypes -> Nat]
      /\ NecessaryBits \in Nat /\ FilesOK
      /\ remaining_header_bits \in [FileTypes -> Nat]
  BY <1>3, FileNames, CountTypes, TypeOKFiles DEF TInv, TypeOK
<1>6. ASSUME NEW gt \in FileTypes PROVE Fine(gt)' /\ Exact(gt)'
  <2>1. /\ Fine(gt) /\ Exact(gt)
        /\ Due(gt)' = Due(gt) /\ Due(gt) = IF gt = ft THEN NecessaryBits ELSE 0
    BY <1>1, <1>4 DEF BInv, Due, NecessaryBits
  <2>2. /\ Size(records(gt))' = Size(records(gt)) /\ Slots(gt)' = Slots(gt)
        /\ Data(header(gt))' = Data(header(gt))
        /\ Data(catalogue)'[gt] = Data(catalogue)[gt]
    BY <1>3, <1>5, FileNames, SameSlots
  <2>3. /\ remaining_header_bits[gt] + Data(catalogue)[gt] + 0
             = Size(header(gt)) * HeaderBits
        /\ remaining_header_bits[gt] \in Nat /\ Data(catalogue)[gt] \in Nat
        /\ Size(header(gt)) \in Int /\ Size(header(gt)) >= 1
    BY <1>4, <1>5, <2>1, StreamOps, FileNames DEF Exact, Fine
  <2>4. CASE gt = ft
    <3>1. Slots(ft) > 0
      <4>1. Data(catalogue)[ft] + NecessaryBits = Slots(ft)
        BY <2>1, <2>4 DEF Fine
      <4>2. remaining_header_bits[ft] \in Nat /\ NecessaryBits > 0
        BY <1>4, <1>5
      <4> QED BY <4>1, <4>2, <2>3, <2>4, <1>5
    <3>2. Size(records(ft)) # 0
      BY <3>1, <1>5, SlotsOf, Sizes
    <3>3. Fine(gt)'
      <4>1. Data(catalogue)'[gt] + Due(gt)' = Slots(gt)'
        BY <2>1, <2>2 DEF Fine
      <4>2. Size(records(gt))' >= 0 /\ Size(records(gt))' # 0
        BY <2>1, <2>2, <2>4, <3>2 DEF Fine
      <4>3. Size(header(gt))' >= 1
        BY <1>3, <2>3, <2>4
      <4> QED BY <4>1, <4>2, <4>3 DEF Fine
    <3>4. (Size(header(ft)) + p) * HeaderBits
            = Size(header(ft)) * HeaderBits + p * HeaderBits
          /\ p * HeaderBits \in Int
      BY <1>3, <2>3, <2>4, Sizes
    <3>5. remaining_header_bits'[ft]
            = p * HeaderBits - (NecessaryBits - remaining_header_bits[ft])
      BY <1>3, <1>5
    <3>6. remaining_header_bits'[ft] + Data(catalogue)'[ft] + NecessaryBits
            = (Size(header(ft)) + p) * HeaderBits
      <4>1. /\ Data(catalogue)'[ft] = Data(catalogue)[ft]
            /\ remaining_header_bits[ft] + Data(catalogue)[ft]
                 = Size(header(ft)) * HeaderBits
            /\ remaining_header_bits[ft] \in Nat /\ Data(catalogue)[ft] \in Nat
        <5>1. Data(catalogue)'[ft] = Data(catalogue)[ft]
          BY <1>5
        <5>2. remaining_header_bits[ft] \in Nat /\ Data(catalogue)[ft] \in Nat
          BY <1>5
        <5>3. remaining_header_bits[ft] + Data(catalogue)[ft] + 0
                = Size(header(ft)) * HeaderBits
          BY <2>3, <2>4
        <5>4. Size(header(ft)) * HeaderBits \in Int
          BY <2>3, <2>4, Sizes
        <5>5. remaining_header_bits[ft] + Data(catalogue)[ft]
                = Size(header(ft)) * HeaderBits
          BY <5>2, <5>3, <5>4, BitsMoved
        <5> QED BY <5>1, <5>2, <5>5
      <4> HIDE DEF NecessaryBits
      <4> QED BY <1>5, <3>4, <3>5, <4>1
    <3> QED BY <1>3, <1>4, <2>1, <2>4, <3>3, <3>6 DEF Exact
  <2>5. CASE gt # ft
    <3>1. /\ Size(header(gt))' = Size(header(gt))
          /\ remaining_header_bits'[gt] = remaining_header_bits[gt]
      BY <1>3, <1>5, <2>5, FileNames
    <3>2. Fine(gt)'
      BY <2>1, <2>2, <3>1 DEF Fine
    <3> QED BY <1>4, <2>1, <2>2, <2>3, <2>5, <3>1, <3>2 DEF Exact
  <2> QED BY <2>4, <2>5
<1>7. Size(catalogue)' >= 1
  BY <1>4, <1>5 DEF BInv
<1> QED BY <1>4, <1>6, <1>7, BusyBInv

LEMMA CountSlotsBInv ==
    ASSUME TInv, BInv, CountSlots
    PROVE  BInv'
<1>1. PICK ft \in FileTypes : ft = Head(todo)
  BY HeadPending DEF CountSlots, TInv, TodoOK
<1>2. /\ \A f \in Files : Size(f)' = Size(f)
      /\ \A f \in Files \ {catalogue} : Data(f)' = Data(f)
      /\ Data(catalogue)' = [Data(catalogue) EXCEPT ![ft] = @ + NecessaryBits]
  BY <1>1, CountView
<1>3. pc = "mapped" /\ pc' = "idle" /\ remaining_header_bits' = remaining_header_bits
  BY DEF CountSlots
<1>4. /\ Data(catalogue) \in [FileTypes -> Nat] /\ NecessaryBits \in Nat
      /\ \A gt \in FileTypes : remaining_header_bits[gt] \in Nat
  BY CountTypes DEF TInv
<1>5. ASSUME NEW gt \in FileTypes PROVE Fine(gt)' /\ Exact(gt)'
  <2>1. /\ Fine(gt) /\ Exact(gt) /\ Due(gt)' = 0
        /\ Due(gt) = IF gt = ft THEN NecessaryBits ELSE 0
    BY <1>1, <1>3 DEF BInv, Due
  <2>2. /\ Data(catalogue)'[gt] = Data(catalogue)[gt] + Due(gt)
        /\ Data(catalogue)[gt] \in Nat /\ Due(gt) \in Nat
    <3>1. Due(gt) \in Nat /\ Data(catalogue)[gt] \in Nat
      BY <1>4, <2>1
    <3>2. CASE gt = ft
      BY <1>2, <1>4, <2>1, <3>1, <3>2
    <3>3. CASE gt # ft
      <4>1. Due(gt) = 0
        BY <2>1, <3>3
      <4>2. Data(catalogue)'[gt] = Data(catalogue)[gt]
        BY <1>2, <1>4, <3>3
      <4> QED BY <3>1, <4>1, <4>2
    <3> QED BY <3>1, <3>2, <3>3
  <2>3. /\ Size(records(gt))' = Size(records(gt)) /\ Slots(gt)' = Slots(gt)
        /\ Size(header(gt))' = Size(header(gt))
        /\ Data(header(gt))' = Data(header(gt))
    BY <1>2, FileNames, SameSlots
  <2>4. Fine(gt)'
    <3>1. Data(catalogue)'[gt] + Due(gt)' = Slots(gt)'
      BY <2>1, <2>2, <2>3 DEF Fine
    <3> QED BY <2>1, <2>3, <3>1 DEF Fine
  <2>5. Exact(gt)'
    BY <1>3, <1>4, <2>1, <2>2, <2>3 DEF Exact
  <2> QED BY <2>4, <2>5
<1>6. Size(catalogue)' >= 1
  BY <1>2, <1>3, FileNames DEF BInv
<1> QED BY <1>3, <1>5, <1>6, IdleBInv

LEMMA CloseFileBInv ==
    ASSUME TInv, BInv, CloseFile
    PROVE  BInv'
<1>1. PICK f \in Files : f = Head(todo)
  BY HeadPending DEF CloseFile, TInv, TodoOK
<1>2. todo \in Seq(Files) /\ todo # <<>> /\ FilesOK /\ pc \in {"close", "delete"}
  BY TypeOKFiles DEF CloseFile, TInv, TodoOK
<1>3. CASE pc = "close"
  <2>1. SameView
    BY <1>3, CloseView
  <2>2. pc' \in {"close", "down"}
    BY <1>3 DEF CloseFile, End
  <2>3. CASE Whole
    <3>1. Whole'
      BY <1>3, <2>1, <2>2, <2>3, SameWhole
    <3> QED BY <2>2, <3>1, GoneBInv DEF Gone
  <2>4. CASE Missing
    <3>1. file' = [file EXCEPT ![f] = Flushed(f)]
      BY <1>1, <1>3 DEF CloseFile
    <3>2. \A g \in Files : file'[g] \in {file[g], Flushed(g)}
      BY <1>2, <3>1 DEF FilesOK
    <3>3. Missing'
      BY <1>2, <2>4, <3>2, MissingStays
    <3> QED BY <2>2, <3>3, GoneBInv DEF Gone
  <2> QED BY <1>3, <2>3, <2>4 DEF BInv
<1>4. CASE pc = "delete"
  <2>1. file' = [file EXCEPT ![f] = Closed(f, NoFile)]
    BY <1>1, <1>4 DEF CloseFile
  <2>2. file'[f] = Closed(f, NoFile) /\ \A g \in Files \ {f} : file'[g] = file[g]
    BY <1>2, <2>1 DEF FilesOK
  <2>3. \A g \in Files : g \notin Pending \/ g = f => file'[g] = Closed(g, NoFile)
    BY <1>4, <2>2 DEF BInv
  <2>4. CASE Len(todo) > 1 /\ todo' = Tail(todo) /\ pc' = pc
    <3>1. Pending = {f} \cup Pending'
      BY <1>1, <1>2, <2>4, HeadPending DEF Pending
    <3> QED BY <1>4, <2>3, <2>4, <3>1 DEF BInv, Gone
  <2>5. CASE Len(todo) = 1 /\ pc' = "down"
    <3>1. Pending = {f}
      BY <1>1, <1>2, <2>5, HeadPending
    <3>2. Missing'
      BY <2>3, <3>1 DEF Missing
    <3> QED BY <2>5, <3>2, GoneBInv DEF Gone
  <2> QED BY <2>4, <2>5 DEF CloseFile, End
<1> QED BY <1>2, <1>3, <1>4

LEMMA BInvStep ==
    ASSUME TInv, BInv, [Next]_vars, ~Kill
    PROVE  BInv'
<1>0. TypeOK /\ FilesOK /\ TodoOK
  BY TypeOKFiles DEF TInv
<1>1. CASE UNCHANGED vars
  <2>1. /\ file' = file /\ pc' = pc /\ todo' = todo /\ growth' = growth
        /\ remaining_header_bits' = remaining_header_bits
    BY <1>1 DEF vars
  <2>2. /\ \A f \in Files : Size(f)' = Size(f) /\ Data(f)' = Data(f)
                           /\ New(f)' = New(f)
        /\ Size(catalogue)' = Size(catalogue) /\ Data(catalogue)' = Data(catalogue)
        /\ Pending' = Pending /\ Missing' = Missing
        /\ Head(todo)' = Head(todo)
    BY <2>1, FileNames DEF Size, Data, New, Pending, Missing
  <2>3. \A ft \in FileTypes :
           /\ Size(header(ft))' = Size(header(ft)) /\ Slots(ft)' = Slots(ft)
           /\ Size(records(ft))' = Size(records(ft))
           /\ Data(header(ft))' = Data(header(ft)) /\ Due(ft)' = Due(ft)
    BY <2>1, <2>2, FileNames, SameSlots DEF Due, NecessaryBits
  <2>4. \A ft \in FileTypes : /\ Fine(ft)' = Fine(ft) /\ Covered(ft)' = Covered(ft)
                             /\ Exact(ft)' = Exact(ft) /\ NewHeader(ft)' = NewHeader(ft)
    BY <2>1, <2>2, <2>3 DEF Fine, Covered, Exact, NewHeader
  <2>5. Whole' = Whole
    BY <2>2, <2>4 DEF Whole
  <2>6. (Size(records(Head(todo))) < MaxPageNo)' = (Size(records(Head(todo))) < MaxPageNo)
    BY <2>1 DEF Size
  <2> QED BY <2>1, <2>2, <2>3, <2>4, <2>5, <2>6, FileNames DEF BInv
<1>2. CASE Create
  <2>1. pc' = "create" /\ todo' = OpenOrder
    BY <1>2 DEF Create, Start
  <2>2. Pending' = Files
    BY <2>1, OrdersComplete DEF Pending
  <2> QED BY <2>1, <2>2 DEF BInv, Gone
<1>3. CASE Open \/ Close
  <2>1. /\ pc' \in {"open", "close"} /\ file' = file
        /\ pc \in Gone \/ pc = "idle"
    BY <1>3 DEF Open, Close, Start
  <2>2. CASE Whole
    <3>1. Whole'
      BY <2>1, <2>2, SameFile, SameWhole DEF Gone
    <3> QED BY <2>1, <3>1, GoneBInv
  <2>3. CASE Missing
    <3>1. Missing'
      BY <2>1, <2>3 DEF Missing
    <3> QED BY <2>1, <3>1, GoneBInv
  <2> QED BY <1>0, <2>1, <2>2, <2>3, IdleIsWhole DEF BInv
<1>4. CASE Delete
  <2>1. pc' = "delete" /\ todo' = CloseOrder
    BY <1>4 DEF Delete, Start
  <2>2. Pending' = Files
    BY <2>1, OrdersComplete DEF Pending
  <2> QED BY <2>1, <2>2 DEF BInv, Gone
<1>5. CASE CreateFile
  <2>1. PICK f \in Files : f = Head(todo)
    BY <1>0, <1>5, HeadPending DEF CreateFile, TodoOK
  <2>2. /\ todo \in Seq(Files) /\ todo # <<>> /\ pc = "create"
        /\ Advance("validate new", <<node_ft, relationship_ft>>)
    BY <1>0, <1>5 DEF CreateFile, TodoOK
  <2>3. /\ Data(f)' = Blank(f) /\ Size(f)' = IF f = catalogue THEN 1 ELSE 0
        /\ \A g \in Files \ {f} : Size(g)' = Size(g) /\ Data(g)' = Data(g)
    BY <1>5, <2>1, CreateView
  <2>4. \A g \in Files : g \notin Pending \/ g = f => New(g)'
    BY <2>2, <2>3 DEF BInv, New
  <2>5. \/ pc' = "create" /\ Pending = {f} \cup Pending'
        \/ /\ pc' = "validate new" /\ Pending = {f}
           /\ todo' = <<node_ft, relationship_ft>>
    BY <2>1, <2>2, AdvanceStep
  <2>6. CASE pc' = "create" /\ Pending = {f} \cup Pending'
    BY <2>4, <2>6 DEF BInv, Gone
  <2>7. CASE /\ pc' = "validate new" /\ Pending = {f}
             /\ todo' = <<node_ft, relationship_ft>>
    <3>1. Pending' = FileTypes
      BY <2>7, OrdersComplete DEF Pending
    <3>2. \A g \in Files : New(g)'
      BY <2>4, <2>7
    <3>3. \A ft \in FileTypes : NewHeader(ft)'
      BY <3>2, FileNames DEF New, NewHeader, Blank
    <3> QED BY <2>7, <3>1, <3>2, <3>3, FileNames DEF BInv, Gone
  <2> QED BY <2>5, <2>6, <2>7
<1>6. CASE OpenFile
  <2>1. /\ todo \in Seq(Files) /\ todo # <<>> /\ pc = "open" /\ Head(todo) \in Files
        /\ Advance("validate", <<node_ft, relationship_ft>>)
        /\ file[Head(todo)].pages # NoFile /\ file' = file
    BY <1>0, <1>6, HeadPending DEF OpenFile, TodoOK
  <2>2. ~Missing
    <3>1. \A f \in Files : Closed(f, NoFile).pages = NoFile
      BY DEF Closed
    <3> QED BY <2>1, <3>1 DEF Missing
  <2>3. pc' = "open" \/ (pc' = "validate" /\ todo' = <<node_ft, relationship_ft>>)
    BY <2>1, AdvanceStep
  <2>4. Whole'
    BY <2>1, <2>2, <2>3, SameFile, SameWhole DEF BInv
  <2>5. todo' = <<node_ft, relationship_ft>> => Pending' = FileTypes
    BY OrdersComplete DEF Pending
  <2>6. CASE pc' = "open"
    BY <2>4, <2>6, GoneBInv
  <2>7. CASE pc' = "validate" /\ todo' = <<node_ft, relationship_ft>>
    BY <2>4, <2>5, <2>7 DEF BInv, Gone
  <2> QED BY <2>3, <2>6, <2>7
<1>7. CASE OpenFileFails \/ ExitElsewhere \/ CountSlotsFails
           \/ \E ft \in FileTypes, n \in 1 .. MaxGrowth : AllocateFails(ft, n)
  <2>1. ~CountSlotsFails
    <3> SUFFICES ASSUME CountSlotsFails PROVE FALSE
      OBVIOUS
    <3>1. pc = "mapped" /\ Size(catalogue) = 0
      BY DEF CountSlotsFails
    <3>2. Size(catalogue) >= 1
      BY <3>1 DEF BInv
    <3> QED BY <3>1, <3>2
  <2>2. /\ pc' \in Gone \ {"invalid"} /\ pc \in {"open", "idle"}
        /\ file' = [f \in Files |-> Flushed(f)]
    BY <1>7, <2>1 DEF OpenFileFails, ExitElsewhere, AllocateFails, Exit, End, Gone
  <2>3. SameView
    BY <1>0, <2>2, FlushAll DEF SameView
  <2>4. CASE Whole
    <3>1. Whole'
      BY <2>2, <2>3, <2>4, SameWhole DEF Gone
    <3> QED BY <2>2, <3>1, GoneBInv
  <2>5. CASE Missing
    <3>1. Missing'
      BY <1>0, <2>2, <2>5, MissingStays
    <3> QED BY <2>2, <3>1, GoneBInv
  <2> QED BY <1>0, <2>2, <2>4, <2>5, IdleIsWhole DEF BInv
<1>8. CASE Validate
  BY <1>8, ValidateBInv
<1>9. CASE ValidateFails
  BY <1>9, NoValidateFails
<1>10. ASSUME NEW ft \in FileTypes, NEW n \in 1 .. MaxGrowth, Allocate(ft, n)
       PROVE  BInv'
  BY <1>10, AllocateBInv
<1>11. CASE UseHeader
  BY <1>11, UseHeaderBInv
<1>12. CASE GrowHeader
  BY <1>12, GrowHeaderBInv
<1>13. CASE CountSlots
  BY <1>13, CountSlotsBInv
<1>14. CASE \/ \E f \in Files : ReadPage(f)
            \/ \E ft \in FileTypes, d \in BOOLEAN : WriteHeader(ft, d)
  <2>1. /\ \A f \in Files : Size(f)' = Size(f)
        /\ Data(catalogue)' = Data(catalogue)
        /\ \A ft \in FileTypes : Size(records(ft)) <= 0 =>
              Data(header(ft))' = Data(header(ft))
    BY <1>14, AccessView
  <2>2. pc = "idle" /\ pc' = "idle" /\ remaining_header_bits' = remaining_header_bits
    BY <1>14 DEF ReadPage, WriteHeader
  <2>3. ASSUME NEW ft \in FileTypes PROVE Fine(ft)' /\ Exact(ft)'
    <3>1. /\ Size(records(ft))' = Size(records(ft)) /\ Slots(ft)' = Slots(ft)
          /\ Size(header(ft))' = Size(header(ft)) /\ Due(ft)' = 0 /\ Due(ft) = 0
      BY <2>1, <2>2, FileNames, SameSlots DEF Due
    <3>2. Fine(ft) /\ Exact(ft)
      BY <2>2 DEF BInv
    <3>3. Fine(ft)'
      BY <2>1, <3>1, <3>2 DEF Fine
    <3> QED BY <2>1, <2>2, <3>1, <3>2, <3>3 DEF Exact
  <2>4. Size(catalogue)' >= 1
    BY <2>1, <2>2, FileNames DEF BInv
  <2> QED BY <2>2, <2>3, <2>4, IdleBInv
<1>15. CASE CloseFile
  BY <1>15, CloseFileBInv
<1> QED BY <1>1, <1>2, <1>3, <1>4, <1>5, <1>6, <1>7, <1>8, <1>9, <1>10, <1>11, <1>12,
           <1>13, <1>14, <1>15 DEF Next

\* Until the first kill.
UnkilledInv == kills = 0 => BInv

LEMMA KillsGrow ==
    ASSUME TInv, [Next]_vars, kills' = 0
    PROVE  kills = 0 /\ ~Kill
<1>1. kills \in Nat
  <2>1. kills \in 0 .. MaxKills
    BY DEF TInv, TypeOK
  <2> QED BY <2>1, SizeAssumption
<1>2. ~Kill
  BY <1>1 DEF Kill
<1>3. kills' = kills
  BY <1>2 DEF Next, vars, Create, Open, Start, CreateFile, OpenFile, OpenFileFails,
              Validate, ValidateFails, Allocate, AllocateFails, UseHeader, GrowHeader,
              CountSlots, CountSlotsFails, ReadPage, WriteHeader, Close, Delete,
              CloseFile, ExitElsewhere, Exit
<1> QED BY <1>2, <1>3

LEMMA UnkilledAlways == Spec => [](TInv /\ UnkilledInv)
<1>1. Init => UnkilledInv
  BY DEF Init, BInv, Missing, UnkilledInv
<1>2. TInv /\ UnkilledInv /\ [Next]_vars => TInv' /\ UnkilledInv'
  BY TypeStep, BInvStep, KillsGrow DEF UnkilledInv
<1> QED BY TypeInit, <1>1, <1>2, PTL DEF Spec

\* A database whose processes all close, delete or exit: between calls the
\* catalogue counts exactly the slots of the record files, and each header has
\* one bit per slot and remaining_header_bits more.
THEOREM BookkeepingCorrect == Spec => []BookkeepingExact
<1>1. TInv /\ UnkilledInv => BookkeepingExact
  <2> SUFFICES ASSUME TInv, BInv, pc = "idle", NEW ft \in FileTypes
               PROVE  /\ Data(catalogue)[ft] = Slots(ft)
                      /\ remaining_header_bits[ft] + Slots(ft)
                           = Size(header(ft)) * HeaderBits
    BY DEF BookkeepingExact, UnkilledInv
  <2>1. Data(catalogue)[ft] \in Nat /\ remaining_header_bits[ft] \in Nat
    BY CountTypes DEF TInv
  <2>2. Data(catalogue)[ft] + 0 = Slots(ft)
    BY DEF BInv, Fine, Due
  <2>3. remaining_header_bits[ft] + Data(catalogue)[ft] + 0 = Size(header(ft)) * HeaderBits
    BY DEF BInv, Exact
  <2> QED BY <2>1, <2>2, <2>3
<1> QED BY UnkilledAlways, <1>1, PTL

\* Such a database is never refused when it is opened again.
THEOREM NeverRefused == Spec => []RefusedOnlyAfterKill
<1>1. TInv /\ UnkilledInv => RefusedOnlyAfterKill
  <2> SUFFICES ASSUME TInv, UnkilledInv, pc = "invalid" PROVE kills > 0
    BY DEF RefusedOnlyAfterKill
  <2>1. kills # 0
    BY DEF UnkilledInv, BInv
  <2>2. kills \in 0 .. MaxKills
    BY DEF TInv, TypeOK
  <2> QED BY <2>1, <2>2, SizeAssumption
<1> QED BY UnkilledAlways, <1>1, PTL

\* allocate_pages does not exit between growing the record file and growing the
\* header: the header never needs more pages than the record file has, because
\* a header page has at least as many bits as a record page has slots.
THEOREM HeaderAlwaysFits == Spec => [](kills = 0 => HeaderGrowthFits)
<1>1. TInv /\ UnkilledInv => (kills = 0 => HeaderGrowthFits)
  <2> SUFFICES ASSUME TInv, BInv, pc = "grown",
                      remaining_header_bits[Head(todo)] < NecessaryBits
               PROVE  CanGrow(header(Head(todo)), AdditionalPages(Head(todo)))
    BY DEF HeaderGrowthFits, UnkilledInv
  <2>1. PICK ft \in FileTypes : ft = Head(todo)
    BY HeadPending DEF TInv, TodoOK
  <2> DEFINE p == AdditionalPages(ft)
             x == AdditionalBits(ft)
             h == Size(header(ft))
             r == Size(records(ft))
             e == Data(catalogue)[ft]
             m == remaining_header_bits[ft]
             b == NecessaryBits
  <2>2. e \in Nat /\ m \in Nat /\ b \in Nat /\ m < b
    BY <2>1, CountTypes DEF TInv
  <2>3. h \in Int /\ h >= 1 /\ r \in Int /\ r >= 0 /\ r < MaxPageNo
    <3>1. h \in Int /\ r \in Int
      BY TypeOKFiles, StreamOps, FileNames DEF TInv
    <3> QED BY <2>1, <3>1 DEF BInv, Fine
  <2>4. x = b - m /\ x \in Nat \ {0}
    <3>1. x = b - m
      BY DEF AdditionalBits
    <3> HIDE DEF x, b, m
    <3> QED BY <2>2, <3>1
  <2>5. p \in Nat \ {0} /\ (p - 1) * HeaderBits < x
    BY <2>4, AdditionalPagesBounds DEF AdditionalPages
  <2>6. m + e + 0 = h * HeaderBits /\ e + b = Slots(ft)
    BY <2>1 DEF BInv, Exact, Fine, Due
  <2>7. Slots(ft) = r * SlotsPerPage
    BY TypeOKFiles, SlotsOf DEF TInv
  <2> HIDE DEF p, x, h, r, e, m, b
  <2>8. h * HeaderBits + (p - 1) * HeaderBits = (h + p - 1) * HeaderBits
        /\ h * HeaderBits \in Int /\ (p - 1) * HeaderBits \in Int
    BY <2>3, <2>5, Sizes
  <2>9. r * SlotsPerPage <= r * HeaderBits /\ r * SlotsPerPage \in Int
        /\ r * HeaderBits \in Int
    BY <2>3, Sizes
  <2>10. (h + p - 1) * HeaderBits < r * HeaderBits
    BY <2>2, <2>4, <2>5, <2>6, <2>7, <2>8, <2>9
  <2>11. h + p - 1 < r
    <3>1. ASSUME NEW u \in Int, NEW v \in Int, u * HeaderBits < v * HeaderBits
          PROVE  u < v
      <4>1. ASSUME v <= u PROVE v * HeaderBits <= u * HeaderBits
        BY <4>1, Sizes
      <4> QED BY <3>1, <4>1, Sizes
    <3> QED BY <2>3, <2>5, <2>10, <3>1
  <2>12. h + p < MaxPageNo
    BY <2>3, <2>5, <2>11, SizeAssumption
  <2> QED BY <2>1, <2>12 DEF CanGrow, h, p
<1> QED BY UnkilledAlways, <1>1, PTL

==============================================================================
