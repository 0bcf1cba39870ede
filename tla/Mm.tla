------------------------------- MODULE Mm -------------------------------
(***************************************************************************)
(* The segregated-list allocator of Lab6_malloclab/mm.c over the simulated *)
(* memory of memlib.c.  Memory is an array of WSIZE-byte words indexed     *)
(* from 0; a pointer is the index of a word and a block is the index of    *)
(* its header.  A heap is a record: the words and the break.  Each         *)
(* operator takes a heap and gives the heap the C function leaves.         *)
(***************************************************************************)
EXTENDS Integers, Sequences, FiniteSetsExt, Functions

CONSTANTS SEG_NUM,      \* number of segregated lists
          MAX_HEAP      \* words of simulated memory

ASSUME SizesAssumption == SEG_NUM \in Nat \ {0} /\ MAX_HEAP \in Nat

WSIZE == 8
Null == 0               \* word 0 is the padding before the roots: no block

(* A header or footer packs the size of the block and two bits.  Sizes are *)
(* in words, so PACK multiplies by WSIZE what the C code holds in bytes.   *)
PACK(val, prev_alloc, alloc) == WSIZE * val + 2 * prev_alloc + alloc
get_blockSize(word) == word \div WSIZE
check_alloc(word) == word % 2
check_prev_alloc(word) == (word \div 2) % 2

Put(h, a, word) == [h EXCEPT !.mem[a] = word]
Size(h, b) == get_blockSize(h.mem[b])
Pred(h, b) == h.mem[b + 1]
Succ(h, b) == h.mem[b + 2]
SetPred(h, b, p) == Put(h, b + 1, p)
SetSucc(h, b, s) == Put(h, b + 2, s)
Payload(b) == b + 3
get_block(ptr) == ptr - 3

write_footer(h, b, word) == Put(h, b + Size(h, b) - 1, word)
write_epilogue(h, b, alloc) == Put(h, b + Size(h, b), PACK(0, alloc, 1))

write_next_hf(h, b, prev_alloc) ==
  LET next == b + Size(h, b)
      word == PACK(Size(h, next), prev_alloc, check_alloc(h.mem[next]))
      h1   == Put(h, next, word)
  IN  IF check_alloc(word) = 1 THEN h1 ELSE write_footer(h1, next, word)

-----------------------------------------------------------------------------
(* Size classes: seg_max is 4, 8, 16, ..., and the last list is unbounded. *)
seg_max[i \in 0 .. SEG_NUM - 1] == IF i = 0 THEN 4 ELSE 2 * seg_max[i - 1]

choose_list(words) ==
  Min({SEG_NUM - 1} \cup {i \in 0 .. SEG_NUM - 2 : words <= seg_max[i]})

byte2wordAligned(size) ==
  LET word == (size + WSIZE - 1) \div WSIZE
  IN  IF word % 2 = 0 THEN word ELSE word + 1

(* Mutant: only the header is counted, not the pred and succ words. *)
BlockWords_HeaderOnly(size) == byte2wordAligned(size + WSIZE)

BlockWords(size) == byte2wordAligned(size + 3 * WSIZE)

Root(i) == 1 + 4 * i
FirstBlock == Root(SEG_NUM)

(* The blocks that `succ' leads to from block or root b, in list order.    *)
(* MaxBlocks bounds the walk: a list that is longer has a cycle.           *)
MaxBlocks == MAX_HEAP \div 4 + 1

Chain(h, b) ==
  LET walk[n \in 0 .. MaxBlocks] ==
        IF n = 0 THEN <<>>
        ELSE LET s    == walk[n - 1]
                 last == IF s = <<>> THEN b ELSE s[Len(s)]
             IN  IF Succ(h, last) = Null THEN s ELSE Append(s, Succ(h, last))
  IN  walk[MaxBlocks]

FreeList(h, i) == Chain(h, Root(i))

(* The first block of a list among those in S, Null if there is none. *)
FirstIn(list, S) ==
  LET hits == {k \in DOMAIN list : list[k] \in S}
  IN  IF hits = {} THEN Null ELSE list[Min(hits)]

FirstFit(h, list, words) ==
  FirstIn(list, {b \in Range(list) : Size(h, b) >= words})

(* Mutant: only the list of the request's own class is searched. *)
find_fit_OwnClass(h, words) ==
  FirstFit(h, FreeList(h, choose_list(words)), words)

find_fit(h, words) ==
  LET found(i) == FirstFit(h, FreeList(h, i), words)
      lists    == {i \in choose_list(words) .. SEG_NUM - 1 : found(i) # Null}
  IN  IF lists = {} THEN Null ELSE found(Min(lists))

(* Mutant: the successor keeps its pred. *)
Unlink_OneWay(h, b) == SetSucc(h, Pred(h, b), Succ(h, b))

Unlink(h, b) ==
  LET h1 == SetSucc(h, Pred(h, b), Succ(h, b))
  IN  IF Succ(h, b) = Null THEN h1 ELSE SetPred(h1, Succ(h, b), Pred(h, b))

(* Lists are in address order. *)
place_free_block(h, b) ==
  LET root     == Root(choose_list(Size(h, b)))
      list     == Chain(h, root)
      rover    == FirstIn(list, {r \in Range(list) : r > b})
      last     == IF list = <<>> THEN root ELSE list[Len(list)]
      pred     == IF rover = Null THEN last ELSE Pred(h, rover)
      linked   == SetSucc(SetPred(SetSucc(h, pred, b), b, pred), b, rover)
  IN  IF rover = Null THEN linked ELSE SetPred(linked, rover, b)

-----------------------------------------------------------------------------
Fails(h, words) == h.brk + words > MAX_HEAP          \* mem_sbrk gives -1

(* The new block starts at the old epilogue, whose prev_alloc bit it keeps. *)
mm_extend_heap(h, words, alloc) ==
  IF Fails(h, words) THEN [block |-> Null, heap |-> h]
  ELSE LET b    == h.brk - 1
           word == PACK(words, check_prev_alloc(h.mem[b]), alloc)
           h1   == [Put(h, b, word) EXCEPT !.brk = @ + words]
           h2   == IF alloc = 0 THEN write_footer(h1, b, word) ELSE h1
       IN  [block |-> b, heap |-> write_epilogue(h2, b, alloc)]

(* split gives up the tail of a block when a free block fits in it. *)
(* Mutant: any tail is given up, also one that cannot hold a free block. *)
CanSplit_AnyTail(h, b, words) == Size(h, b) - words > 0

CanSplit(h, b, words) == Size(h, b) - words > 4

split(h, b, words) ==
  LET left == b + words
      size == Size(h, b) - words
      h1   == Put(h, b, PACK(words, check_prev_alloc(h.mem[b]), 1))
      h2   == Put(Unlink(h1, b), left, PACK(size, 1, 0))
  IN  place_free_block(write_footer(h2, left, PACK(size, 1, 0)), left)

(* Mutant: the next block is not told that this one is allocated. *)
allocate_block_NextNotTold(h, b, words) ==
  IF CanSplit(h, b, words) THEN split(h, b, words)
  ELSE Unlink(Put(h, b, PACK(Size(h, b), check_prev_alloc(h.mem[b]), 1)), b)

allocate_block(h, b, words) ==
  IF CanSplit(h, b, words) THEN split(h, b, words)
  ELSE LET h1 == Put(h, b, PACK(Size(h, b), check_prev_alloc(h.mem[b]), 1))
       IN  Unlink(write_next_hf(h1, b, 1), b)

(* coallesce: a free block before, then one after, then the new tags.      *)
MergePrev(h, b) ==
  LET start == b - get_blockSize(h.mem[b - 1])
  IN  IF check_prev_alloc(h.mem[b]) = 1
      THEN [heap |-> h, block |-> b, size |-> Size(h, b)]
      ELSE [heap |-> Unlink(h, start), block |-> start, size |-> Size(h, b) + b - start]

MergeNext_Not(m) == m       \* mutant: only the block before is merged

MergeNext(m) ==
  LET next == m.block + m.size
  IN  IF check_alloc(m.heap.mem[next]) = 1 THEN m
      ELSE [m EXCEPT !.heap = Unlink(@, next), !.size = @ + Size(m.heap, next)]

TagFree(m) ==
  LET word == PACK(m.size, check_prev_alloc(m.heap.mem[m.block]), 0)
      h1   == write_footer(Put(m.heap, m.block, word), m.block, word)
  IN  [m EXCEPT !.heap = write_next_hf(h1, m.block, 0)]

coallesce(h, b) == TagFree(MergeNext(MergePrev(h, b)))

-----------------------------------------------------------------------------
(* The four entry points.  malloc and realloc give the payload or Null.    *)
mm_init(h) ==
  LET last == FirstBlock          \* the epilogue
      Written(a) == a <= last /\ a # last - 1
      Word(a) == IF a % 4 \in {0, 1} THEN PACK(0, 1, 1) ELSE Null
  IN  [brk |-> last + 1,
       mem |-> [a \in DOMAIN h.mem |-> IF Written(a) THEN Word(a) ELSE h.mem[a]]]

Init_fails == FirstBlock + 1 > MAX_HEAP

Ret(ptr, h) == [ptr |-> ptr, heap |-> h]

mm_malloc(h, size) ==
  LET words == BlockWords(size)
      fit   == find_fit(h, words)
      new   == mm_extend_heap(h, words, 1)
      spare == mm_extend_heap(new.heap, words, 0)
  IN  IF fit # Null THEN Ret(Payload(fit), allocate_block(h, fit, words))
      ELSE IF new.block = Null THEN Ret(Null, h)
      ELSE IF spare.block = Null THEN Ret(Null, new.heap)
      ELSE Ret(Payload(new.block), place_free_block(spare.heap, spare.block))

mm_free_Nothing(h, ptr) == h     \* mutant: freeing a block does nothing

Place(merged) == place_free_block(merged.heap, merged.block)

mm_free(h, ptr) ==
  LET b    == get_block(ptr)
      word == PACK(Size(h, b), check_prev_alloc(h.mem[b]), 0)
      h1   == write_footer(Put(h, b, word), b, word)
  IN  Place(coallesce(write_next_hf(h1, b, 0), b))

memmove(h, dst, src, words) ==
  [h EXCEPT !.mem = [a \in DOMAIN @ |->
     IF a \in dst .. dst + words - 1 THEN @[src + a - dst] ELSE @[a]]]

(* The footer that mm_free wrote over the last word of the old payload is *)
(* undone where the new payload has that word.                            *)
RestoreLast_Not(h, ptr, old, words, lastword) == h   \* mutant: it stays

RestoreLast(h, ptr, old, words, lastword) ==
  IF words - 3 >= old THEN Put(h, ptr + old - 1, lastword) ELSE h

(* The old block is free; its words are moved to where the new one will be. *)
Relocate(freed, ptr, old, lastword, size) ==
  LET words == BlockWords(size)
      copy  == Min({old, size \div WSIZE})
      fit   == find_fit(freed, words)
      new   == mm_extend_heap(freed, words, 1)
      Moved(h, p) == RestoreLast(memmove(h, p, ptr, copy), p, old, words, lastword)
  IN  IF fit # Null
      THEN Ret(Payload(fit), allocate_block(Moved(freed, Payload(fit)), fit, words))
      ELSE IF new.block = Null THEN Ret(Null, freed)
      ELSE Ret(Payload(new.block), Moved(new.heap, Payload(new.block)))

mm_realloc(h, ptr, size) ==
  LET old == Size(h, get_block(ptr)) - 3
  IN  IF ptr = Null THEN mm_malloc(h, size)
      ELSE IF size = 0 THEN Ret(Null, h)
      ELSE Relocate(mm_free(h, ptr), ptr, old, h.mem[ptr + old - 1], size)
=============================================================================
