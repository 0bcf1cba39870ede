---------------------------- MODULE MallocDriver ----------------------------
(***************************************************************************)
(* mdriver.c's eval_mm_valid: it runs a trace of mm_malloc, mm_realloc and *)
(* mm_free calls, checks every block it is given, fills it with its index  *)
(* and checks that mm_realloc kept the words.  A trace may make any legal  *)
(* sequence of calls; an index is reused after its block is freed.         *)
(***************************************************************************)
EXTENDS Mm, FiniteSets

CONSTANTS Ids,          \* the indices of a trace
          Sizes,        \* request sizes in bytes, multiples of WSIZE
          Stale         \* what the memory may hold before mm_init

ASSUME DriverAssumption == /\ Ids \subseteq Nat
                           /\ \A s \in Sizes : s \in Nat \ {0} /\ s % WSIZE = 0
                           /\ Stale \subseteq Int

VARIABLES heap,         \* mm.c's and memlib.c's memory
          blocks,       \* index -> [ptr, size] of a block in use
          report        \* what malloc_error said; a report ends the trace

vars == <<heap, blocks, report>>

Live == DOMAIN blocks
Tag(i) == 1000 + i      \* memset(p, index & 0xFF, size), a word of it
ALIGNMENT == 8

Extent(ptr, size) == ptr .. ptr + size \div WSIZE - 1

Init ==
  /\ blocks = << >>
  /\ \E word \in Stale :
       LET fresh == [brk |-> 0, mem |-> [a \in 0 .. MAX_HEAP - 1 |-> word]]
       IN  IF Init_fails THEN heap = fresh /\ report = "mm_init failed"
           ELSE heap = mm_init(fresh) /\ report = "none"

Ranges(except) == {Extent(blocks[j].ptr, blocks[j].size) : j \in Live \ {except}}

(* add_range compares the ends of a payload with the payloads in use. *)
add_range(h, ranges, ptr, size) ==
  LET hi == ptr + size \div WSIZE - 1
  IN  CASE (ptr * WSIZE) % ALIGNMENT # 0 -> "not aligned"
        [] ptr < 0 \/ hi >= h.brk -> "outside heap"
        [] \E r \in ranges : ptr \in r \/ hi \in r -> "overlap"
        [] OTHER -> "none"

Fill(h, i, ptr, size) ==
  [h EXCEPT !.mem =
     [a \in DOMAIN @ |-> IF a \in Extent(ptr, size) THEN Tag(i) ELSE @[a]]]

(* The words of the old block that mm_realloc has to keep. *)
Preserved(h, i, ptr, size) ==
  \A a \in Extent(ptr, Min({blocks[i].size, size})) : h.mem[a] = Tag(i)

Complaint(got, i, size, failure) ==
  IF got.ptr = Null THEN failure
  ELSE LET range == add_range(got.heap, Ranges(i), got.ptr, size)
       IN  IF range = "none" /\ i \in Live /\ ~Preserved(got.heap, i, got.ptr, size)
           THEN "not preserved" ELSE range

(* The driver takes a block: a bad one ends the trace before it is filled. *)
Take(got, i, size, failure) ==
  /\ report' = Complaint(got, i, size, failure)
  /\ IF report' = "none"
     THEN /\ heap' = Fill(got.heap, i, got.ptr, size)
          /\ blocks' = [j \in Live \cup {i} |-> IF j = i THEN [ptr |-> got.ptr, size |-> size]
                                                ELSE blocks[j]]
     ELSE heap' = got.heap /\ UNCHANGED blocks

Alloc(i, size) ==
  /\ report = "none"
  /\ i \notin Live
  /\ Take(mm_malloc(heap, size), i, size, "mm_malloc failed")

Realloc(i, size) ==
  /\ report = "none"
  /\ i \in Live
  /\ Take(mm_realloc(heap, blocks[i].ptr, size), i, size, "mm_realloc failed")

Free(i) ==
  /\ report = "none"
  /\ i \in Live
  /\ heap' = mm_free(heap, blocks[i].ptr)
  /\ blocks' = [j \in Live \ {i} |-> blocks[j]]
  /\ UNCHANGED report

(* Indices only name blocks: an allocation takes the least one free. *)
Next ==
  \/ \E size \in Sizes : Live # Ids /\ Alloc(Min(Ids \ Live), size)
  \/ \E i \in Live, size \in Sizes \cup {0} : Realloc(i, size)
  \/ \E i \in Live : Free(i)

Spec == Init /\ [][Next]_vars

-----------------------------------------------------------------------------
(* The blocks between the roots and the epilogue, in address order.  *)
Tiles(h) ==
  LET walk[n \in 0 .. MaxBlocks] ==
        IF n = 0 THEN <<FirstBlock>>
        ELSE LET s == walk[n - 1]
                 b == s[Len(s)]
             IN  IF b >= h.brk \/ Size(h, b) = 0 THEN s ELSE Append(s, b + Size(h, b))
  IN  walk[MaxBlocks]

IsFree(h, b) == check_alloc(h.mem[b]) = 0
TileSet(h) == LET t == Tiles(h) IN {t[k] : k \in 1 .. Len(t) - 1}
FreeBlocks(h) == {b \in TileSet(h) : IsFree(h, b)}

(* mm.c's three checkers; both builds of mm.c compile their calls out.     *)
checker_free_block_in_free_list(h) ==
  LET listed == UNION {{<<i, k>> : k \in DOMAIN FreeList(h, i)} : i \in 0 .. SEG_NUM - 1}
  IN  /\ \A e \in listed : IsFree(h, FreeList(h, e[1])[e[2]])
      /\ Cardinality(listed) = Cardinality(FreeBlocks(h))

checker_contiguous(h) ==
  LET t == Tiles(h)
  IN  \A k \in 1 .. Len(t) - 2 : ~(IsFree(h, t[k]) /\ IsFree(h, t[k + 1]))

checker_overlap(h, b) ==
  LET end(p) == p + Size(h, p)
  IN  \A p \in TileSet(h) : /\ ~(b < p /\ p < end(b))
                            /\ (b = p <=> end(b) = end(p))
                            /\ ~(b < end(p) /\ end(p) < end(b))

InUse == {i \in Live : ~IsFree(heap, get_block(blocks[i].ptr))}

Ready == report # "mm_init failed"

TypeOK ==
  /\ heap.brk \in 0 .. MAX_HEAP
  /\ heap.mem \in [0 .. MAX_HEAP - 1 -> Int]
  /\ \A i \in Live : blocks[i].ptr \in Int /\ blocks[i].size \in Sizes
  /\ Live \subseteq Ids

(* No legal trace makes mm.c's checkers complain, whatever block in use    *)
(* checker_overlap is given: the free lists hold as many blocks as the     *)
(* heap has free ones, no two free blocks touch, no block overlaps.        *)
CheckersSilent ==
  Ready => /\ checker_free_block_in_free_list(heap)
           /\ checker_contiguous(heap)
           /\ \A i \in InUse : checker_overlap(heap, get_block(blocks[i].ptr))

(* The break stays in the memory, the blocks tile the heap up to the       *)
(* epilogue, which is the word before it, every prev_alloc bit             *)
(* agrees with the block before it, and a free block's footer, which       *)
(* coallesce trusts, has the size of its header.                           *)
BoundaryTags ==
  /\ TypeOK
  /\ Ready =>
       LET t == Tiles(heap)
           word(k) == heap.mem[t[k]]
       IN  /\ t[Len(t)] = heap.brk - 1
           /\ check_prev_alloc(word(1)) = 1
           /\ \A k \in 1 .. Len(t) - 1 :
                /\ Size(heap, t[k]) >= 4 /\ Size(heap, t[k]) % 2 = 0
                /\ check_prev_alloc(word(k + 1)) = check_alloc(word(k))
                /\ IsFree(heap, t[k]) =>
                     get_blockSize(heap.mem[t[k + 1] - 1]) = Size(heap, t[k])

(* Each list holds exactly the free blocks of its class, by address, and   *)
(* pred leads back along it to the root.                                   *)
FreeLists ==
  Ready =>
    \A c \in 0 .. SEG_NUM - 1 :
      LET list == FreeList(heap, c)
      IN  /\ {list[k] : k \in DOMAIN list} =
               {b \in FreeBlocks(heap) : choose_list(Size(heap, b)) = c}
          /\ \A k \in DOMAIN list :
               LET before == IF k = 1 THEN Root(c) ELSE list[k - 1]
               IN  before < list[k] /\ Pred(heap, list[k]) = before

(* The words the program wrote are there until it frees the block; only    *)
(* a mm_realloc that failed may have given up a block the program holds.   *)
PayloadsIntact ==
  /\ \A i \in InUse : \A a \in Extent(blocks[i].ptr, blocks[i].size) :
       heap.mem[a] = Tag(i)
  /\ report # "mm_realloc failed" => InUse = Live

(* The heap holds no allocated block but those in use.  A mm_malloc whose  *)
(* second mem_sbrk fails leaves one that nobody can free.                  *)
NothingLeaked ==
  report \notin {"mm_malloc failed", "mm_init failed"} =>
    TileSet(heap) \ FreeBlocks(heap) = {get_block(blocks[i].ptr) : i \in InUse}

(* The driver's checks pass: a trace only ends because memory ran out or   *)
(* because it asked mm_realloc for 0 bytes, which gives NULL.              *)
DriverSilent ==
  report \in {"none", "mm_init failed", "mm_malloc failed", "mm_realloc failed"}

(* A call fails only if no free block is large enough, which find_fit, as  *)
(* it skips the smaller classes, has to see, and the heap cannot grow.     *)
FailsOnlyWhenFull ==
  [][/\ report' = "mm_malloc failed" =>
          \A i \in Ids \ Live, size \in Sizes :
            Alloc(i, size) =>
              /\ \A b \in FreeBlocks(heap) : Size(heap, b) < BlockWords(size)
              /\ heap.brk + 2 * BlockWords(size) > MAX_HEAP
     /\ report' = "mm_realloc failed" =>
          \A i \in Live, size \in Sizes :
            Realloc(i, size) =>
              /\ \A b \in FreeBlocks(heap') : Size(heap', b) < BlockWords(size)
              /\ Fails(heap, BlockWords(size))]_vars

(* Every step grants or releases one region and leaves the others' words.  *)
Abstract == INSTANCE Allocator WITH
  Sizes <- {s \div WSIZE : s \in Sizes},
  regions <- [i \in InUse |-> Extent(blocks[i].ptr, blocks[i].size)],
  data <- [i \in InUse |-> [k \in 1 .. blocks[i].size \div WSIZE |->
             heap.mem[blocks[i].ptr + k - 1]]]

ImplementsAllocator == Abstract!Spec
=============================================================================
