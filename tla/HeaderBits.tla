------------------------------- MODULE HeaderBits -------------------------------
(***************************************************************************)
(* The bits of a header file, byte by byte: write_bits, compare_bits and   *)
(* shift_bit_array of src/access/header_page.c as next_free_slots,         *)
(* check_record_exists and the deletions of heap_file.c call them.  Bit 0  *)
(* of a byte is its most significant one.                                  *)
(***************************************************************************)
EXTENDS Integers, Sequences, FiniteSets

CONSTANTS
    CharBit,      \* CHAR_BIT; a record page has 2^CharBit slots
    BitAnd,       \* & and | of C, as functions on pairs of bytes
    BitOr,
    RecordPages,  \* bound: pages of the record file
    SlotCounts,   \* NUM_SLOTS_PER_NODE and NUM_SLOTS_PER_REL
    MaxDeletes    \* bound: deletions

UCharMax     == 2 ^ CharBit - 1
SlotsPerPage == 2 ^ CharBit
Ids          == 0 .. RecordPages * SlotsPerPage - 1

VARIABLES
    n_slots,      \* of a record in this file
    data,         \* the bytes of the header pages, one page after the other: no
                  \* write crosses a page, whose bits are a multiple of n_slots
    last_alloc,   \* last_alloc_node_id or last_alloc_rel_id
    num_pages,    \* of the record file
    used,         \* ghost: the records there are
    deletes       \* ghost: the number of deletions

vars == <<n_slots, data, last_alloc, num_pages, used, deletes>>

Byte(x)     == x % (UCharMax + 1)
Shl(x, n)   == x * 2 ^ n
Shr(x, n)   == x \div 2 ^ n

------------------------------------------------------------------------------
(* header_page.c *)

\* Every byte takes over the bits that its neighbour loses.
ShiftBitArray(ar, n_bits) ==
    LET n == IF n_bits < 0 THEN -n_bits ELSE n_bits
        left(i)  == IF i = 1 THEN 0 ELSE BitAnd[ar[i - 1], Shr(UCharMax, CharBit - n)]
        right(i) == IF i = Len(ar) THEN 0 ELSE BitAnd[ar[i + 1], Byte(Shl(UCharMax, CharBit - n))]
    IN  IF n_bits = 0 THEN ar
        ELSE [i \in DOMAIN ar |->
                 IF n_bits > 0 THEN BitOr[Byte(Shl(left(i), CharBit - n)), Shr(ar[i], n)]
                               ELSE BitOr[Shr(right(i), CharBit - n), Byte(Shl(ar[i], n))]]

\* Mutant: bits that go on in the next byte are compared where they are.
CompareBitsUnshifted(ar, mask, offset, n_bits) ==
    LET start == offset \div CharBit
        bit   == offset % CharBit
        m     == BitAnd[mask, Shr(UCharMax, CharBit - n_bits)]
        here  == BitAnd[Byte(Shl(UCharMax, CharBit - (n_bits + bit))), Shr(UCharMax, bit)]
    IN  IF bit + n_bits <= CharBit
        THEN BitAnd[ar[start], here] = ShiftBitArray(<<m>>, bit - (CharBit - n_bits))[1]
        ELSE BitAnd[ar[start], Shr(UCharMax, bit)] = m

\* n_bits bits from offset on, compared with the last n_bits of mask.
CompareBits(ar, mask, offset, n_bits) ==
    LET start == offset \div CharBit
        bit   == offset % CharBit
        m     == BitAnd[mask, Shr(UCharMax, CharBit - n_bits)]
        here  == BitAnd[Byte(Shl(UCharMax, CharBit - (n_bits + bit))), Shr(UCharMax, bit)]
        upper == BitAnd[ar[start], Shr(UCharMax, bit)]
        lower == BitAnd[ar[start + 1], Byte(Shl(UCharMax, CharBit - n_bits + CharBit - bit))]
    IN  IF bit + n_bits <= CharBit
        THEN BitAnd[ar[start], here] = ShiftBitArray(<<m>>, bit - (CharBit - n_bits))[1]
        ELSE ShiftBitArray(<<upper, lower>>, CharBit - bit - n_bits)[1] = m

BytesFor(n) == n \div CharBit + (IF n % CharBit # 0 THEN 1 ELSE 0)

\* Mutant: the bits behind the written ones are not preserved.
WriteMaskHeadOnly(bit, n_bits) ==
    [i \in 1 .. BytesFor(bit + n_bits) |-> IF i = 1 THEN Byte(Shl(UCharMax, CharBit - bit)) ELSE 0]

\* What stays of the bytes that are written: the bits before and, in the last
\* byte, the bits behind.
WriteMask(bit, n_bits) ==
    LET n == BytesFor(bit + n_bits) IN
    [i \in 1 .. n |->
        BitOr[IF i = 1 THEN Byte(Shl(UCharMax, CharBit - bit)) ELSE 0,
           IF i = n /\ (n_bits + bit) % CharBit # 0 THEN Shr(UCharMax, (n_bits % CharBit) + bit) ELSE 0]]

\* A write that ends on the page it begins on, of one byte of data.
WriteBits(ar, byte, bit, n_bits, value) ==
    LET mask    == WriteMask(bit, n_bits)
        first   == BitAnd[value, Shr(UCharMax, CharBit - n_bits)]
        shifted == ShiftBitArray([i \in DOMAIN mask |-> IF i = 1 THEN first ELSE 0],
                                 bit - (CharBit - n_bits))
        k(i)    == i - byte + 1
    IN  [i \in DOMAIN ar |->
            IF k(i) \in DOMAIN mask THEN BitOr[BitAnd[ar[i], mask[k(i)]], shifted[k(i)]] ELSE ar[i]]

------------------------------------------------------------------------------
(* heap_file.c *)

\* check_record_exists.
Exists(id) ==
    LET slot == id % SlotsPerPage IN
    /\ id % n_slots = 0
    /\ slot <= (slot + n_slots - 1) % SlotsPerPage
    /\ CompareBits(data, UCharMax, id, n_slots)

\* The id the loop of next_free_slots goes on to; slot_in_page is an unsigned char
\* that starts anew on every page.
NextId(id) ==
    LET slot == id % SlotsPerPage IN
    IF (slot + n_slots) % SlotsPerPage < slot THEN (id \div SlotsPerPage + 1) * SlotsPerPage
                                              ELSE id + n_slots

\* Its loop: the first free slot from id on, the first one of a new page if there
\* is none.
RECURSIVE FreeFrom(_)
FreeFrom(id) ==
    IF id >= num_pages * SlotsPerPage THEN num_pages * SlotsPerPage
    ELSE IF ~Exists(id) THEN id
    ELSE FreeFrom(NextId(id))

\* The bits of id become those of value.
Marked(id, value) ==
    WriteBits(data, (id \div CharBit), id % CharBit, n_slots, value)

\* Mutant: a slot that became free below the last one is not looked at.
NextFreeSlotsBehind ==
    LET id == FreeFrom(IF used = {} THEN 0 ELSE NextId(last_alloc)) IN
    /\ id \in Ids
    /\ num_pages' = IF id < num_pages * SlotsPerPage THEN num_pages ELSE num_pages + 1
    /\ data' = Marked(id, UCharMax)
    /\ last_alloc' = id
    /\ used' = used \cup {id}
    /\ UNCHANGED <<n_slots, deletes>>

NextFreeSlots ==
    LET id == FreeFrom(last_alloc) IN
    /\ id \in Ids
    /\ num_pages' = IF id < num_pages * SlotsPerPage THEN num_pages ELSE num_pages + 1
    /\ data' = Marked(id, UCharMax)
    /\ last_alloc' = id
    /\ used' = used \cup {id}
    /\ UNCHANGED <<n_slots, deletes>>

\* What delete_node and delete_relationship do to the header.
DeleteBits(id) ==
    /\ Exists(id)
    /\ deletes < MaxDeletes
    /\ data' = Marked(id, 0)
    /\ last_alloc' = IF id < last_alloc THEN id ELSE last_alloc
    /\ used' = used \ {id}
    /\ deletes' = deletes + 1
    /\ UNCHANGED <<n_slots, num_pages>>

Init ==
    /\ n_slots \in SlotCounts
    /\ data = [i \in 0 .. (RecordPages * SlotsPerPage) \div CharBit - 1 |-> 0]
    /\ last_alloc = 0
    /\ num_pages = 0
    /\ used = {}
    /\ deletes = 0

Next == NextFreeSlots \/ \E id \in Ids : DeleteBits(id)

Spec == Init /\ [][Next]_vars

------------------------------------------------------------------------------
(* Properties *)

BitSet(b) == Shr(data[b \div CharBit], CharBit - 1 - (b % CharBit)) % 2 = 1

\* After any sequence of writes the bits that are set are those of the records
\* there are, and compare_bits finds exactly these: no write touches a bit of a
\* neighbour in the same byte.
BitsExact ==
    /\ \A b \in Ids : BitSet(b) <=> (b - (b % n_slots)) \in used
    /\ {id \in Ids : Exists(id)} = used

\* compare_bits is right for any number of bits anywhere, across the end of a byte
\* too, where no caller of it goes: from the first byte on, for some masks.
ComparesRight ==
    \A offset \in 0 .. CharBit - 1, n_bits \in 1 .. CharBit, mask \in {UCharMax, 1, 5, 10} :
        CompareBits(data, mask, offset, n_bits)
            <=> \A b \in 0 .. n_bits - 1 : BitSet(offset + b) <=> Shr(mask, n_bits - 1 - b) % 2 = 1

\* next_free_slots takes the least free slot of the file, though it looks only from
\* the last allocated one on, and adds a page only if all slots are taken.
TakingStep ==
    \A id \in used' \ used :
        /\ \A i \in Ids : i % n_slots = 0 /\ i < id => i \in used
        /\ num_pages' # num_pages => id = num_pages * SlotsPerPage

TakesLeastFree == [][TakingStep]_vars
==============================================================================
