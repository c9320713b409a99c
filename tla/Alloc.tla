------------------------------- MODULE Alloc -------------------------------
(***************************************************************************)
(* The allocator of the freestanding compiler (src/freestanding/alloc.c):   *)
(* blocks with a size tag at both ends, one doubly linked free list kept     *)
(* inside the free blocks, first fit, merging of neighbours, and a break     *)
(* that memory.grow moves.                                                  *)
(*                                                                         *)
(* Memory is a function from addresses to cells of 8 bytes, the alignment.   *)
(* A cell holds a tag (header and footer: size and in-use bit), the two      *)
(* links of a free block, or data; sizes are in cells but for requests,      *)
(* which are in bytes.  Data are history: whose they are, and which cell of  *)
(* the block.  The caller writes all it asked for at once.                  *)
(***************************************************************************)
EXTENDS Integers, Sequences, FiniteSets, Functions

CONSTANTS
    Sizes,      \* requests, in bytes
    HeapBase,   \* &__heap_base, in bytes
    Page,       \* cells in a page of linear memory
    StartPages, MaxPages,   \* its size at the start, and what the host grants
    Space,      \* cells in the address space: 2^29
    MaxLive     \* bound of the search: blocks in use

ASSUME AllocAssumption ==
    /\ Sizes \subseteq Nat /\ {HeapBase, Page, StartPages, MaxPages, Space} \subseteq Nat \ {0}
    /\ HeapBase <= 8 * Page * StartPages /\ StartPages <= MaxPages /\ Page * MaxPages < Space

VARIABLES
    heap,   \* the statics, g_inited ... g_free, and linear memory
    live    \* the blocks the program has: address, cells asked for, owner

vars == <<heap, live>>

Null == 0
Hdr == 1
Ftr == 1
MinPayload == 2
Junk == <<"junk", 0, 0>>
Cells(bytes) == (bytes + 7) \div 8
Start == Cells(HeapBase)            \* g_heap_start
Addresses == 0..(Page * MaxPages - 1)
MaxBlocks == (Page * MaxPages) \div (Hdr + MinPayload + Ftr)

Size(h, b) == h.mem[b][2]           \* blk_size, of a tag
Used(h, b) == h.mem[b][3] = 1       \* blk_used
Link(h, n) == [next |-> h.mem[n][2], prev |-> h.mem[n][3]]

(* blk_set, header and footer.  What else is in a block given out or given   *)
(* back means nothing from then on.                                         *)
BlkSet(h, b, size, used) ==
    [h EXCEPT !.mem = [a \in DOMAIN @ |->
        IF a \in {b, b + size - Ftr} THEN <<"tag", size, used>>
        ELSE IF a \in b..(b + size - 1) THEN Junk ELSE @[a]]]

-----------------------------------------------------------------------------
(* The free list: addresses of payloads, whose first cell has the links.     *)

FlInsert(h, b) ==
    LET n == b + Hdr
        old == h.head
        h1 == [h EXCEPT !.mem[n] = <<"link", old, Null>>, !.head = n]
    IN  IF old = Null THEN h1 ELSE [h1 EXCEPT !.mem[old][3] = n]

FlRemove(h, b) ==
    LET l == Link(h, b + Hdr)
        h1 == IF l.prev # Null THEN [h EXCEPT !.mem[l.prev][2] = l.next] ELSE [h EXCEPT !.head = l.next]
    IN  IF l.next # Null THEN [h1 EXCEPT !.mem[l.next][3] = l.prev] ELSE h1

(* The list from its head, as far as the loop of malloc would go. *)
FreeList(h) ==
    LET upTo[k \in 0..MaxBlocks] ==
            IF k = 0 THEN <<>>
            ELSE LET list == upTo[k - 1]
                     n == IF k = 1 THEN h.head
                          ELSE IF list = <<>> THEN Null ELSE Link(h, list[Len(list)]).next
                 IN  IF n = Null \/ Len(list) < k - 1 THEN list ELSE Append(list, n)
    IN  upTo[MaxBlocks]

-----------------------------------------------------------------------------
(* ensure_init, the first thing malloc does. *)
EnsureInit(h) ==
    IF h.inited THEN h
    ELSE [h EXCEPT !.inited = TRUE, !.brk = Start, !.end = Page * StartPages, !.head = Null]

(* heap_extend: n cells at the break; the host may refuse to grow memory. *)
HeapExtend(h, n, granted) ==
    LET pages == (h.brk + n - h.end + Page - 1) \div Page
    IN  IF (h.brk + n) % Space <= h.end THEN [p |-> h.brk, h |-> [h EXCEPT !.brk = (@ + n) % Space]]
        ELSE IF granted /\ h.end + pages * Page <= Page * MaxPages
        THEN [p |-> h.brk, h |-> [h EXCEPT !.brk = (@ + n) % Space, !.end = @ + pages * Page]]
        ELSE [p |-> Null, h |-> h]

(* The cells of a block for a request. *)
Total(req) ==
    LET need == Cells(IF req = 0 THEN 1 ELSE req)
    IN  (Hdr + (IF need < MinPayload THEN MinPayload ELSE need) + Ftr) % Space

(* heap_extend adds the request to the break in 32 bits before it compares.   *)
(* The sum cannot wrap if every request malloc lets through, with all the     *)
(* memory there can be, is below the address space.                          *)
Fits(req) == req <= 8 * Space - 16 => Cells(req) + Hdr + MinPayload + Ftr + Page * MaxPages < Space
NoWrap == \A req \in Sizes : Fits(req) /\ Fits(Space * req)

(* Block b of the free list is taken, its tail split off if it can be a     *)
(* block of its own.                                                        *)
Take(h, b, total) ==
    LET h1 == FlRemove(h, b)
        rest == Size(h, b) - total
    IN  IF rest >= Hdr + MinPayload + Ftr
        THEN FlInsert(BlkSet(BlkSet(h1, b, total, 1), b + total, rest, 0), b + total)
        ELSE BlkSet(h1, b, Size(h, b), 1)

(* malloc: its result and the heap after it. *)
DoMalloc(h0, req, granted) ==
    LET h == EnsureInit(h0)
        total == Total(req)
        list == FreeList(h)
        fits == {k \in DOMAIN list : Size(h, list[k] - Hdr) >= total}
        b == list[CHOOSE k \in fits : \A j \in fits : k <= j] - Hdr
        x == HeapExtend(h, total, granted)
    IN  IF req > 8 * Space - 16 THEN [p |-> Null, h |-> h]
        ELSE IF fits # {} THEN [p |-> b + Hdr, h |-> Take(h, b, total)]
        ELSE IF x.p = Null THEN x
        ELSE [p |-> x.p + Hdr, h |-> BlkSet(x.h, x.p, total, 1)]

(* Merges with the block that follows, never with the one before. *)
DoFree_forward(h, p) ==
    LET b == p - Hdr
        next == b + Size(h, b)
        merges == next < h.brk /\ ~Used(h, next)
        h1 == IF merges THEN FlRemove(h, next) ELSE h
    IN  FlInsert(BlkSet(h1, b, Size(h, b) + (IF merges THEN Size(h, next) ELSE 0), 0), b)

(* free: the block after it is merged in if it is free, then the block       *)
(* before it, which its footer tells of.                                    *)
DoFree(h, p) ==
    LET b == p - Hdr
        next == b + Size(h, b)
        merges == next < h.brk /\ ~Used(h, next)
        h1 == IF merges THEN FlRemove(h, next) ELSE h
        size == Size(h, b) + (IF merges THEN Size(h, next) ELSE 0)
        joins == b > Start /\ ~Used(h1, b - Ftr)
        before == b - Size(h1, b - Ftr)
    IN  IF joins
        THEN FlInsert(BlkSet(FlRemove(h1, before), before, size + Size(h1, b - Ftr), 0), before)
        ELSE FlInsert(BlkSet(h1, b, size, 0), b)

-----------------------------------------------------------------------------
(* The program's side: data written to cells first to n - 1 of a block. *)
Fill(h, p, id, first, n) ==
    [h EXCEPT !.mem = [a \in DOMAIN @ |-> IF a - p \in first..(n - 1) THEN <<"data", id, a - p>> ELSE @[a]]]

Init ==
    /\ heap = [inited |-> FALSE, brk |-> 0, end |-> 0, head |-> Null,
               mem |-> [a \in Addresses |-> Junk]]
    /\ live = {}

FreeIds == (1..MaxLive) \ {r.id : r \in live}

Malloc(req, granted) ==
    /\ FreeIds # {}
    /\ LET m == DoMalloc(heap, req, granted)
           id == CHOOSE i \in FreeIds : \A j \in FreeIds : i <= j
       IN  \/ m.p = Null /\ heap' = m.h /\ UNCHANGED live
           \/ /\ m.p # Null
              /\ heap' = Fill(m.h, m.p, id, 0, Cells(req))
              /\ live' = live \cup {[p |-> m.p, n |-> Cells(req), id |-> id]}

(* calloc: the product must not overflow; the cells are cleared. *)
Calloc(nmemb, size, granted) ==
    \/ nmemb * size >= 8 * Space /\ UNCHANGED vars
    \/ nmemb * size < 8 * Space /\ Malloc(nmemb * size, granted)

Free(r) ==
    /\ r \in live
    /\ heap' = DoFree(heap, r.p)
    /\ live' = live \ {r}

(* memcpy(q, p, avail) *)
Copied(h, p, q, avail) ==
    [h EXCEPT !.mem = [a \in DOMAIN @ |-> IF a - q \in 0..(avail - 1) THEN @[p + a - q] ELSE @[a]]]

(* Leaves the old block in use. *)
Move_leaks(h, p, q, avail) == Copied(h, p, q, avail)

(* Copies from a block already given back. *)
Move_freesFirst(h, p, q, avail) == Copied(DoFree(h, p), p, q, avail)

(* The copy, then free of the old block. *)
Move(h, p, q, avail) == DoFree(Copied(h, p, q, avail), p)

(* realloc of a block (of NULL it is malloc, to nothing it is free). *)
Realloc(r, n, granted) ==
    /\ r \in live
    /\ LET avail == Size(heap, r.p - Hdr) - Hdr - Ftr
           m == DoMalloc(heap, n, granted)
           now(p) == live' = (live \ {r}) \cup {[r EXCEPT !.p = p, !.n = Cells(n)]}
       IN  \/ n = 0 /\ Free(r)
           \/ /\ n > 0 /\ n <= 8 * avail
              /\ heap' = Fill(heap, r.p, r.id, r.n, Cells(n)) /\ now(r.p)
           \/ n > 8 * avail /\ m.p = Null /\ heap' = m.h /\ UNCHANGED live
           \/ /\ n > 8 * avail /\ m.p # Null
              /\ heap' = Fill(Move(m.h, r.p, m.p, avail), m.p, r.id, r.n, Cells(n)) /\ now(m.p)

Next ==
    \E req \in Sizes, granted \in BOOLEAN :
        \/ Malloc(req, granted) \/ \E n \in {1, Space} : Calloc(n, req, granted)
        \/ \E r \in live : Free(r) \/ Realloc(r, req, granted)

Spec == Init /\ [][Next]_vars

-----------------------------------------------------------------------------
(* The block starts that walking the headers visits, and the break at its end. *)
Walk ==
    LET upTo[k \in 0..MaxBlocks] ==
            IF k = 0 THEN <<Start>>
            ELSE LET seen == upTo[k - 1]
                     b == seen[Len(seen)]
                 IN  IF b >= heap.brk \/ Size(heap, b) <= 0 THEN seen ELSE Append(seen, b + Size(heap, b))
    IN  upTo[MaxBlocks]
Blocks == {b \in Range(Walk) : b < heap.brk}

(* The break stays within the memory there is, and blocks in use within the  *)
(* break.                                                                   *)
TypeOK ==
    /\ DOMAIN heap.mem = Addresses
    /\ heap.inited => heap.brk \in Start..heap.end /\ heap.end \in 1..(Page * MaxPages)
    /\ \A r \in live : r.p - Hdr \in Addresses /\ r.p + r.n + Ftr <= heap.brk
    /\ heap.head \in Addresses

(* Blocks lie end to end from the start of the heap to the break, each with  *)
(* the same tag at both ends and room for the links: what free relies on     *)
(* when it steps to a neighbour in either direction.                        *)
TagsAgree ==
    heap.inited =>
        /\ heap.brk \in Range(Walk)
        /\ \A b \in Blocks :
              /\ Size(heap, b) >= Hdr + MinPayload + Ftr
              /\ b + Size(heap, b) <= heap.brk
              /\ heap.mem[b][1] = "tag" /\ heap.mem[b + Size(heap, b) - Ftr] = heap.mem[b]

(* The list, followed forward, has every free block once and no other, and   *)
(* every link back leads to the entry before.                               *)
FreeListExact ==
    heap.inited =>
        LET list == FreeList(heap)
        IN  /\ {list[k] - Hdr : k \in DOMAIN list} = {b \in Blocks : ~Used(heap, b)}
            /\ \A j, k \in DOMAIN list : list[j] = list[k] => j = k
            /\ \A k \in DOMAIN list :
                  Link(heap, list[k]).prev = IF k = 1 THEN Null ELSE list[k - 1]

(* What the program has written it finds again, until it frees it: no tag,    *)
(* link or other block's data ever gets there, through splits, merges and    *)
(* the move of a realloc.                                                   *)
DataIntact ==
    \A r \in live : \A j \in 0..(r.n - 1) : heap.mem[r.p + j] = <<"data", r.id, j>>

(* Merging is complete: two free blocks never touch. *)
FreeBlocksApart ==
    heap.inited => \A b \in Blocks : ~Used(heap, b) /\ b + Size(heap, b) < heap.brk =>
                       Used(heap, b + Size(heap, b))

(* Exactly the program's blocks are in use, so what it frees comes back. *)
NothingLeaks == heap.inited => {b \in Blocks : Used(heap, b)} = {r.p - Hdr : r \in live}

(* The heap between calls: blocks end to end, all free ones listed, none of  *)
(* them beside another.                                                     *)
HeapSound == TypeOK /\ TagsAgree /\ FreeListExact /\ FreeBlocksApart
=============================================================================
