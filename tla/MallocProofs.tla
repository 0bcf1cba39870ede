---------------------------- MODULE MallocProofs ----------------------------
(***************************************************************************)
(* The allocator under the driver, for every number of lists, size of the  *)
(* memory, index and request: whatever legal trace is run, the blocks tile *)
(* the heap, the lists hold the free ones, and the program's words stay.   *)
(***************************************************************************)
EXTENDS MallocDriver, RecursionFacts

Words == 0..MAX_HEAP-1
Heap == [brk : 0..MAX_HEAP, mem : [Words -> Int]]
Classes == 0..SEG_NUM-1
Bit == {0, 1}

-----------------------------------------------------------------------------
(* Words: what is packed is read back. *)
LEMMA PackReads ==
  ASSUME NEW v \in Int, NEW p \in Bit, NEW a \in Bit
  PROVE  /\ PACK(v, p, a) \in Int
         /\ get_blockSize(PACK(v, p, a)) = v
         /\ check_prev_alloc(PACK(v, p, a)) = p
         /\ check_alloc(PACK(v, p, a)) = a
BY DEF PACK, get_blockSize, check_prev_alloc, check_alloc, WSIZE, Bit

\* What is read from a word has its type.
LEMMA ReadsType ==
  ASSUME NEW w \in Int
  PROVE  get_blockSize(w) \in Int /\ check_prev_alloc(w) \in Bit /\ check_alloc(w) \in Bit
BY DEF get_blockSize, check_prev_alloc, check_alloc, WSIZE, Bit

\* The roots lie between the padding and the first block, four words each.
LEMMA HeapShape ==
  /\ SEG_NUM \in Nat /\ SEG_NUM > 0 /\ MAX_HEAP \in Nat
  /\ FirstBlock \in Nat /\ FirstBlock >= 5
  /\ \A c \in Classes : /\ Root(c) \in Nat /\ Root(c) > 0 /\ Root(c) + 4 <= FirstBlock
                        /\ \A d \in Classes : c = d \/ Root(c) + 4 <= Root(d)
                                                    \/ Root(d) + 4 <= Root(c)
BY SizesAssumption DEF FirstBlock, Root, Classes

\* An assignment to a word.
Wrote(h, a, w, k) ==
  /\ k \in Heap /\ k.brk = h.brk
  /\ \A x \in Words : k.mem[x] = IF x = a THEN w ELSE h.mem[x]

\* Put is an assignment to one word.
LEMMA PutFacts ==
  ASSUME NEW h \in Heap, NEW a \in Words, NEW w \in Int
  PROVE  Wrote(h, a, w, Put(h, a, w))
BY DEF Put, Heap, Wrote

\* The parts of a heap have their types.
LEMMA HeapType ==
  ASSUME NEW h \in Heap
  PROVE  /\ h.brk \in 0..MAX_HEAP /\ h.brk \in Int
         /\ \A a \in Words : h.mem[a] \in Int
BY DEF Heap

\* The size of a block is a number.
LEMMA SizeType ==
  ASSUME NEW h \in Heap, NEW b \in Words
  PROVE  Size(h, b) \in Int
BY HeapType, ReadsType DEF Size

-----------------------------------------------------------------------------
(* Ordered lists, as the links of their blocks tell them. *)

\* y is the least of S beyond x, Null if there is none.
Follows(S, x, y) ==
  IF y = Null THEN \A z \in S : z <= x
  ELSE y \in S /\ x < y /\ \A z \in S : z <= x \/ y <= z

\* p is the last before b of the root and S.
Precedes(S, root, p, b) ==
  p \in S \cup {root} /\ p < b /\ \A z \in S : z <= p \/ b <= z

\* The list of root is S, by address.
Ordered(h, root, S) ==
  /\ Follows(S, root, Succ(h, root))
  /\ \A b \in S : Follows(S, b, Succ(h, b)) /\ Precedes(S, root, Pred(h, b), b)

\* Blocks that a list may hold: they do not meet and are no roots.
Separate(S) ==
  /\ S \subseteq Words
  /\ \A b \in S : FirstBlock <= b /\ b + 4 <= MAX_HEAP
  /\ \A b, d \in S : b = d \/ b + 4 <= d \/ d + 4 <= b

\* The words of the links of X, and heaps that differ at them only.
Links(X) == {x + 1 : x \in X} \cup {x + 2 : x \in X}
Same(h, k, A) == k.brk = h.brk /\ \A a \in Words : a \in A \/ k.mem[a] = h.mem[a]

\* The blocks of a list are addresses of blocks.
LEMMA SeparateType ==
  ASSUME NEW S, Separate(S), NEW x \in S
  PROVE  x \in Int /\ x \in Words /\ x > 0 /\ FirstBlock <= x /\ x + 4 <= MAX_HEAP
BY HeapShape DEF Separate, Words

\* What follows a node is a block of its list, or there is none.
LEMMA FollowsType ==
  ASSUME NEW S, NEW x, NEW y, Follows(S, x, y), Separate(S)
  PROVE  y = Null \/ y \in S
BY DEF Follows

\* A list does not depend on words other than its links.
LEMMA OrderedKept ==
  ASSUME NEW h, NEW k, NEW S, NEW root, Ordered(h, root, S),
         \A x \in S \cup {root} : k.mem[x + 1] = h.mem[x + 1] /\ k.mem[x + 2] = h.mem[x + 2]
  PROVE  Ordered(k, root, S)
BY DEF Ordered, Succ, Pred

\* The words of a block or a root.
LEMMA NodeWords ==
  ASSUME NEW S, Separate(S), NEW c \in Classes, NEW b \in S
  PROVE  /\ FirstBlock + 4 <= MAX_HEAP
         /\ \A x \in S \cup {Root(c)} : /\ x \in Int /\ x > 0
                                        /\ {x, x + 1, x + 2, x + 3} \subseteq Words
         /\ \A x, y \in S \cup {Root(c)} : x = y \/ x + 4 <= y \/ y + 4 <= x
         /\ \A y \in S : Root(c) < y /\ y # Null
<1>1. \A x \in S : x \in Int /\ FirstBlock <= x /\ x + 4 <= MAX_HEAP
  BY DEF Separate, Words
<1>2. Root(c) \in Int /\ Root(c) > 0 /\ Root(c) + 4 <= FirstBlock
  BY HeapShape
<1>3. FirstBlock \in Int /\ MAX_HEAP \in Int /\ FirstBlock >= 5
  BY HeapShape
<1>4. \A x \in S \cup {Root(c)} : x \in Int /\ x > 0 /\ x + 4 <= MAX_HEAP
  BY <1>1, <1>2, <1>3
<1> QED
  BY <1>1, <1>2, <1>3, <1>4 DEF Separate, Words, Null

\* What precedes a block is the one node that it follows.
LEMMA PrecedesFollows ==
  ASSUME NEW S, Separate(S), NEW c \in Classes, NEW b \in S, NEW p, NEW x \in S \cup {Root(c)},
         Precedes(S, Root(c), p, b), Follows(S, x, b)
  PROVE  x = p
<1>1. b # Null /\ x < b /\ \A z \in S : z <= x \/ b <= z
  BY NodeWords DEF Follows
<1>2. p \in S \cup {Root(c)} /\ p < b /\ \A z \in S : z <= p \/ b <= z
  BY DEF Precedes
<1>3. \A z \in S : Root(c) < z /\ z \in Int
  BY NodeWords
<1>4. Root(c) \in Int /\ p \in Int /\ x \in Int /\ b \in Int
  BY <1>2, <1>3, HeapShape
<1> QED
  BY <1>1, <1>2, <1>3, <1>4

\* Unlink takes a block out of its list, and writes links of others only.
LEMMA UnlinkFacts ==
  ASSUME NEW h \in Heap, NEW S, Separate(S), NEW c \in Classes,
         Ordered(h, Root(c), S), NEW b \in S
  PROVE  /\ Unlink(h, b) \in Heap
         /\ Ordered(Unlink(h, b), Root(c), S \ {b})
         /\ Same(h, Unlink(h, b), Links((S \ {b}) \cup {Root(c)}))
<1> DEFINE root == Root(c)
           p == Pred(h, b)
           s == Succ(h, b)
           h1 == SetSucc(h, p, s)
           k == Unlink(h, b)
           N == (S \ {b}) \cup {root}
<1>1. /\ FirstBlock + 4 <= MAX_HEAP
      /\ \A x \in S \cup {root} : x \in Int /\ x > 0 /\ {x, x + 1, x + 2, x + 3} \subseteq Words
      /\ \A x, y \in S \cup {root} : x = y \/ x + 4 <= y \/ y + 4 <= x
      /\ \A y \in S : root < y /\ y # Null
  BY NodeWords
<1>2. Precedes(S, root, p, b) /\ Follows(S, b, s)
  BY DEF Ordered
<1>3. p \in N /\ p < b /\ \A z \in S : z <= p \/ b <= z
  BY <1>1, <1>2 DEF Precedes
<1>4. s = Null \/ (s \in S /\ s \in N /\ b < s /\ \A z \in S : z <= b \/ s <= z)
  BY <1>1, <1>2 DEF Follows
<1>5. s = Null => \A z \in S : z <= b
  BY <1>1, <1>2 DEF Follows
<1>6. s \in Int /\ p \in Int /\ b \in Int /\ p + 2 \in Words /\ (s # Null => s + 1 \in Words)
  BY <1>1, <1>3, <1>4 DEF Null
<1>7. h1 = Put(h, p + 2, s) /\ k = IF s = Null THEN h1 ELSE Put(h1, s + 1, p)
  BY DEF Unlink, SetPred, SetSucc
<1> HIDE DEF h1, k, s, p, root
<1>8. /\ h1 \in Heap /\ h1.brk = h.brk
      /\ \A x \in Words : h1.mem[x] = IF x = p + 2 THEN s ELSE h.mem[x]
  <2>1. Wrote(h, p + 2, s, h1)
    BY <1>6, <1>7, PutFacts
  <2> QED
    BY <2>1 DEF Wrote
<1>9. /\ k \in Heap /\ k.brk = h.brk
      /\ \A x \in Words : k.mem[x] = IF s # Null /\ x = s + 1 THEN p ELSE h1.mem[x]
  <2>1. CASE s = Null
    BY <1>8, <1>7, <2>1
  <2>2. CASE s # Null
    <3>1. k = Put(h1, s + 1, p) /\ s + 1 \in Words /\ p \in Int /\ h1 \in Heap
      BY <1>6, <1>8, <1>7, <2>2
    <3>2. Wrote(h1, s + 1, p, k)
      BY <3>1, PutFacts
    <3> QED
      BY <1>8, <2>2, <3>2 DEF Wrote
  <2> QED
    BY <2>1, <2>2
<1>10. \A x \in N : /\ x + 1 # p + 2 /\ k.mem[x + 1] = IF s # Null /\ x = s THEN p ELSE h.mem[x + 1]
                    /\ k.mem[x + 2] = IF x = p THEN s ELSE h.mem[x + 2]
  BY <1>1, <1>3, <1>4, <1>6, <1>8, <1>9
<1>11. Same(h, k, Links(N))
  BY <1>3, <1>4, <1>8, <1>9 DEF Same, Links
<1>12. ASSUME NEW x \in N
       PROVE  Follows(S \ {b}, x, Succ(k, x))
  <2>1. Succ(k, x) = IF x = p THEN s ELSE Succ(h, x)
    BY <1>10 DEF Succ
  <2>2. CASE x = p
    BY <1>1, <1>3, <1>4, <1>5, <1>6, <2>1, <2>2 DEF Follows
  <2>3. CASE x # p
    <3>1. Follows(S, x, Succ(h, x))
      BY DEF Ordered, root
    <3>2. Succ(h, x) # b
      BY <1>2, <2>3, <3>1, PrecedesFollows DEF root
    <3> QED
      BY <2>1, <2>3, <3>1, <3>2 DEF Follows
  <2> QED
    BY <2>2, <2>3
<1>13. ASSUME NEW x \in S \ {b}
       PROVE  Precedes(S \ {b}, root, Pred(k, x), x)
  <2>1. Pred(k, x) = IF s # Null /\ x = s THEN p ELSE Pred(h, x)
    BY <1>10 DEF Pred
  <2>2. Precedes(S, root, Pred(h, x), x)
    BY DEF Ordered, root
  <2>3. CASE s # Null /\ x = s
    BY <1>1, <1>3, <1>4, <1>6, <2>1, <2>3 DEF Precedes
  <2>4. CASE ~ (s # Null /\ x = s)
    <3>1. Pred(h, x) # b
      BY <1>1, <1>4, <1>5, <2>2, <2>4 DEF Precedes
    <3> QED
      BY <2>1, <2>2, <2>4, <3>1 DEF Precedes
  <2> QED
    BY <2>3, <2>4
<1>14. Ordered(k, root, S \ {b})
  BY <1>12, <1>13 DEF Ordered
<1> QED
  BY <1>9, <1>11, <1>14 DEF k, root

-----------------------------------------------------------------------------
(* What Chain finds. *)

\* Every set of numbers has a least.
LEMMA LeastExists ==
  ASSUME NEW S \in SUBSET Nat, S # {}
  PROVE  \E x \in S : \A y \in S : x <= y
<1> DEFINE T == {n \in Nat : \A m \in 0..n : m \notin S}
<1> SUFFICES ASSUME \A x \in S : \E y \in S : ~ (x <= y) PROVE FALSE
  OBVIOUS
<1>1. 0 \in T
  <2>1. 0 \notin S
    OBVIOUS
  <2> QED
    BY <2>1
<1>2. ASSUME NEW n \in Nat, n \in T PROVE n + 1 \in T
  <2>1. n + 1 \notin S
    BY <1>2
  <2> QED
    BY <1>2, <2>1
<1> HIDE DEF T
<1>3. \A n \in Nat : n \in T
  BY <1>1, <1>2, AllNumbers
<1>4. PICK x \in S : x \in Nat
  OBVIOUS
<1>5. x \in T /\ x \in 0..x
  BY <1>3, <1>4
<1> QED
  BY <1>5 DEF T

\* s is the first n blocks of the list S of root.
Listing(S, root, n, s) ==
  /\ s \in Seq(S) /\ Len(s) = n
  /\ \A k \in 1..n : Precedes(S, root, IF k = 1 THEN root ELSE s[k-1], s[k])

EndOf(root, s) == IF s = <<>> THEN root ELSE s[Len(s)]

\* The blocks of a listing are at least four words apart.
LEMMA ListingGrows ==
  ASSUME NEW S, Separate(S), NEW c \in Classes, NEW n \in Nat, NEW s,
         Listing(S, Root(c), n, s)
  PROVE  /\ \A k \in 1..n : s[k] >= FirstBlock + 4 * (k - 1)
         /\ \A j, k \in 1..n : j < k => s[j] < s[k]
<1>1. /\ s \in Seq(S) /\ Len(s) = n /\ \A k \in 1..n : s[k] \in S
      /\ \A k \in 1..n : k # 1 => k - 1 \in 1..n /\ s[k-1] < s[k]
  BY DEF Listing, Precedes
<1>2. \A x \in S : x \in Int /\ FirstBlock <= x /\ \A y \in S : x < y => x + 4 <= y
  BY DEF Separate, Words
<1>3. FirstBlock \in Int
  BY HeapShape
<1> DEFINE T == {k \in Nat : k + 1 \in 1..n => /\ s[k + 1] >= FirstBlock + 4 * k
                                               /\ \A j \in 1..k : s[j] < s[k + 1]}
<1>4. 0 \in T
  BY <1>1, <1>2, <1>3
<1>5. ASSUME NEW k \in Nat, k \in T PROVE k + 1 \in T
  <2> SUFFICES ASSUME k + 2 \in 1..n
               PROVE  /\ s[k + 2] >= FirstBlock + 4 * (k + 1)
                      /\ \A j \in 1..k+1 : s[j] < s[k + 2]
    OBVIOUS
  <2>1. k + 1 \in 1..n /\ s[k + 1] < s[k + 2] /\ s[k + 1] \in S /\ s[k + 2] \in S
    BY <1>1
  <2>2. s[k + 1] >= FirstBlock + 4 * k /\ \A j \in 1..k : s[j] < s[k + 1]
    BY <1>5, <2>1
  <2>3. \A j \in 1..k : j \in 1..n /\ s[j] \in S
    BY <1>1, <2>1
  <2> QED
    BY <1>2, <1>3, <2>1, <2>2, <2>3
<1> HIDE DEF T
<1>6. \A k \in Nat : k \in T
  BY <1>4, <1>5, AllNumbers
<1>7. ASSUME NEW k \in 1..n
      PROVE  s[k] >= FirstBlock + 4 * (k - 1) /\ \A j \in 1..k-1 : s[j] < s[k]
  <2>1. k - 1 \in T /\ (k - 1) + 1 = k
    BY <1>6
  <2> QED
    BY <2>1 DEF T
<1> QED
  BY <1>7

\* A listing that nothing of S is beyond is all of S.
LEMMA ListingAll ==
  ASSUME NEW S, Separate(S), NEW c \in Classes, NEW n \in Nat, NEW s,
         Listing(S, Root(c), n, s), \A z \in S : z <= EndOf(Root(c), s)
  PROVE  S = {s[k] : k \in 1..n}
<1>1. s \in Seq(S) /\ Len(s) = n /\ \A k \in 1..n : s[k] \in S
  BY DEF Listing
<1>2. \A x \in S : x \in Int /\ Root(c) < x
  BY HeapShape DEF Separate, Words
<1> SUFFICES ASSUME NEW z \in S, \A k \in 1..n : s[k] # z PROVE FALSE
  BY <1>1
<1> DEFINE T == {k \in Nat : k + 1 \in 1..n => s[k + 1] < z}
<1>3. \A k \in 1..n : z <= (IF k = 1 THEN Root(c) ELSE s[k-1]) \/ s[k] <= z
  BY DEF Listing, Precedes
<1>4. 0 \in T
  <2> SUFFICES ASSUME 1 \in 1..n PROVE s[1] < z
    OBVIOUS
  <2>1. z <= Root(c) \/ s[1] <= z
    BY <1>3
  <2> QED
    BY <1>1, <1>2, <2>1, HeapShape
<1>5. ASSUME NEW k \in Nat, k \in T PROVE k + 1 \in T
  <2> SUFFICES ASSUME k + 2 \in 1..n PROVE s[k + 2] < z
    OBVIOUS
  <2>1. k + 1 \in 1..n /\ s[k + 1] < z /\ s[k + 1] \in S /\ s[k + 2] \in S /\ s[k + 2] # z
    BY <1>1, <1>5
  <2>2. z <= s[k + 1] \/ s[k + 2] <= z
    BY <1>3
  <2> QED
    BY <1>2, <2>1, <2>2
<1> HIDE DEF T
<1>6. \A k \in Nat : k \in T
  BY <1>4, <1>5, AllNumbers
<1>7. CASE n = 0
  BY <1>1, <1>2, <1>7, HeapShape DEF EndOf
<1>8. CASE n # 0
  <2>1. n - 1 \in T /\ n \in 1..n /\ (n - 1) + 1 = n
    BY <1>6, <1>8
  <2>2. s[n] < z /\ s[n] \in Int
    BY <1>1, <1>2, <2>1 DEF T
  <2>3. z <= s[n]
    BY <1>1, <1>8 DEF EndOf
  <2> QED
    BY <1>2, <2>2, <2>3
<1> QED
  BY <1>7, <1>8

\* A listing goes on with the block that its end leads to.
LEMMA ListingOn ==
  ASSUME NEW S, Separate(S), NEW c \in Classes, NEW n \in Nat, NEW s,
         Listing(S, Root(c), n, s), NEW y \in S, Follows(S, EndOf(Root(c), s), y)
  PROVE  Listing(S, Root(c), n + 1, Append(s, y))
<1> DEFINE t == Append(s, y)
           root == Root(c)
           e == EndOf(root, s)
<1>1. /\ s \in Seq(S) /\ Len(s) = n
      /\ \A k \in 1..n : Precedes(S, root, IF k = 1 THEN root ELSE s[k-1], s[k])
  BY DEF Listing
<1>2. /\ t \in Seq(S) /\ Len(t) = n + 1 /\ t[n + 1] = y
      /\ \A k \in 1..n : t[k] = s[k]
  BY <1>1
<1>3. e = IF n = 0 THEN root ELSE s[n]
  BY <1>1 DEF EndOf
<1>4. e \in S \cup {root} /\ (n + 1 # 1 => e = t[n])
  BY <1>1, <1>2, <1>3
<1>5. y # Null
  BY NodeWords
<1> HIDE DEF t, e, root
<1>6. Precedes(S, root, e, y)
  BY <1>4, <1>5 DEF Precedes, Follows, e, root
<1>7. ASSUME NEW k \in 1..n+1
      PROVE  Precedes(S, root, IF k = 1 THEN root ELSE t[k-1], t[k])
  <2>1. CASE k = n + 1
    <3>1. e = IF k = 1 THEN root ELSE t[k-1]
      BY <1>2, <1>3, <1>4, <2>1
    <3> QED
      BY <1>2, <1>6, <2>1, <3>1
  <2>2. CASE k # n + 1
    <3>1. k \in 1..n /\ (k # 1 => k - 1 \in 1..n)
      BY <2>2
    <3> QED
      BY <1>1, <1>2, <3>1
  <2> QED
    BY <2>1, <2>2
<1> QED
  BY <1>2, <1>7 DEF Listing, t, root

\* The turns of Chain.
ChainWalk(h, b) ==
  LET walk[n \in 0 .. MaxBlocks] ==
        IF n = 0 THEN <<>>
        ELSE LET s    == walk[n - 1]
                 last == IF s = <<>> THEN b ELSE s[Len(s)]
             IN  IF Succ(h, last) = Null THEN s ELSE Append(s, Succ(h, last))
  IN  walk

\* The bound of the walks is a number, and large enough for every heap.
LEMMA MaxBlocksType ==
  MaxBlocks \in Nat /\ 4 * MaxBlocks > MAX_HEAP
BY HeapShape DEF MaxBlocks

\* Chain's recursive function exists, and takes one step a turn.
LEMMA ChainWalks ==
  ASSUME NEW h \in Heap, NEW S, Separate(S), NEW c \in Classes, Ordered(h, Root(c), S)
  PROVE  /\ ChainWalk(h, Root(c))[0] = <<>>
         /\ \A n \in 1..MaxBlocks :
              LET s == ChainWalk(h, Root(c))[n - 1]
                  y == Succ(h, EndOf(Root(c), s))
              IN  ChainWalk(h, Root(c))[n] = IF y = Null THEN s ELSE Append(s, y)
<1> DEFINE b == Root(c)
           N == MaxBlocks
           D == Seq(S)
           Next_(s) == IF Succ(h, EndOf(b, s)) = Null THEN s ELSE Append(s, Succ(h, EndOf(b, s)))
           G == [p \in D \X Nat |-> Next_(p[1])]
           Rec(f) == f = [n \in 0..MaxBlocks |->
                            IF n = 0 THEN <<>>
                            ELSE LET s    == f[n - 1]
                                     last == IF s = <<>> THEN b ELSE s[Len(s)]
                                 IN  IF Succ(h, last) = Null THEN s ELSE Append(s, Succ(h, last))]
<1>1. N \in Nat
  BY MaxBlocksType
<1>2. ASSUME NEW s \in D PROVE Next_(s) \in D
  <2>1. EndOf(b, s) \in S \cup {b}
    BY DEF EndOf
  <2>2. Follows(S, EndOf(b, s), Succ(h, EndOf(b, s)))
    BY <2>1 DEF Ordered
  <2>3. Succ(h, EndOf(b, s)) = Null \/ Succ(h, EndOf(b, s)) \in S
    BY <2>2, FollowsType
  <2> HIDE DEF b
  <2> QED
    BY <2>3
<1>3. /\ G \in [D \X Nat -> D]
      /\ \A s \in D, n \in Nat : G[<<s, n>>] = Next_(s)
  <2> HIDE DEF Next_, D
  <2>1. \A p \in D \X Nat : p[1] \in D
    OBVIOUS
  <2> QED
    BY <1>2, <2>1
<1>4. <<>> \in D
  OBVIOUS
<1>5. PICK f : Iteration(f, D, <<>>, G, N)
  <2> HIDE DEF D, N, G
  <2> QED
    BY <1>1, <1>3, <1>4, Iterates, Zenon
<1>6. /\ f \in [0..N -> D] /\ f[0] = <<>>
      /\ \A i \in 1..N : f[i] = G[<<f[i-1], i>>]
  BY <1>5 DEF Iteration
<1> HIDE DEF G, D
<1>7. ASSUME NEW n \in 1..N PROVE f[n] = Next_(f[n-1])
  <2> HIDE DEF Next_, N
  <2>1. n - 1 \in 0..N /\ n \in Nat
    BY <1>1
  <2>2. f[n-1] \in D /\ f[n] = G[<<f[n-1], n>>]
    BY <1>6, <2>1
  <2> QED
    BY <1>3, <2>1, <2>2
<1> HIDE DEF b
<1>8. Rec(f)
  <2>1. ASSUME NEW n \in 0..N
        PROVE  f[n] = IF n = 0 THEN <<>>
                      ELSE LET s    == f[n - 1]
                               last == IF s = <<>> THEN b ELSE s[Len(s)]
                           IN  IF Succ(h, last) = Null THEN s ELSE Append(s, Succ(h, last))
    <3>1. CASE n = 0
      BY <1>6, <3>1
    <3>2. CASE n # 0
      <4>1. n \in 1..N
        BY <1>1, <3>2
      <4> QED
        BY <1>7, <3>2, <4>1 DEF EndOf
    <3> QED
      BY <3>1, <3>2
  <2> QED
    BY <1>6, <2>1
<1>9. Rec(CHOOSE g : Rec(g))
  BY <1>8
<1>10. ChainWalk(h, b) = CHOOSE g : Rec(g)
  BY DEF ChainWalk
<1> DEFINE g == ChainWalk(h, b)
<1>11. Rec(g)
  BY <1>9, <1>10
<1> HIDE DEF g
<1>12. g[0] = <<>>
  BY <1>1, <1>11
<1>13. ASSUME NEW n \in 1..N
       PROVE  g[n] = Next_(g[n-1])
  <2>1. n \in 0..N /\ n # 0
    BY <1>1
  <2>2. g[n] = LET s    == g[n - 1]
                   last == IF s = <<>> THEN b ELSE s[Len(s)]
               IN  IF Succ(h, last) = Null THEN s ELSE Append(s, Succ(h, last))
    BY <1>11, <2>1
  <2> QED
    BY <2>2 DEF EndOf
<1> QED
  BY <1>12, <1>13 DEF g, b

\* What a list is, in order.
Enumerates(list, S) ==
  /\ list \in Seq(S)
  /\ S = {list[k] : k \in DOMAIN list}
  /\ \A j, k \in DOMAIN list : j < k => list[j] < list[k]

\* Chain gives the list.
LEMMA ChainFacts ==
  ASSUME NEW h \in Heap, NEW S, Separate(S), NEW c \in Classes, Ordered(h, Root(c), S)
  PROVE  \E n \in Nat : /\ Listing(S, Root(c), n, Chain(h, Root(c)))
                        /\ Enumerates(Chain(h, Root(c)), S)
<1> DEFINE root == Root(c)
           w == ChainWalk(h, root)
           N == MaxBlocks
           Done(s) == \A z \in S : z <= EndOf(root, s)
           T == {n \in Nat : n \in 0..N =>
                   \E m \in 0..n : Listing(S, root, m, w[n]) /\ (m = n \/ Done(w[n]))}
<1>1. N \in Nat /\ 4 * N > MAX_HEAP
  BY MaxBlocksType
<1>2. w[0] = <<>> /\ \A n \in 1..N :
        w[n] = IF Succ(h, EndOf(root, w[n-1])) = Null THEN w[n-1]
               ELSE Append(w[n-1], Succ(h, EndOf(root, w[n-1])))
  BY ChainWalks
<1>3. Chain(h, root) = w[N]
  BY DEF Chain, ChainWalk
<1> HIDE DEF w, N
<1>4. 0 \in T
  <2>1. Listing(S, root, 0, <<>>)
    BY DEF Listing
  <2> QED
    BY <1>2, <2>1
<1>5. ASSUME NEW n \in Nat, n \in T PROVE n + 1 \in T
  <2> SUFFICES ASSUME n + 1 \in 0..N
               PROVE  \E m \in 0..n+1 : Listing(S, root, m, w[n+1]) /\ (m = n + 1 \/ Done(w[n+1]))
    OBVIOUS
  <2> DEFINE s == w[n]
             y == Succ(h, EndOf(root, s))
  <2>1. PICK m \in 0..n : Listing(S, root, m, s) /\ (m = n \/ Done(s))
    BY <1>5, <1>1
  <2>2. w[n+1] = IF y = Null THEN s ELSE Append(s, y)
    <3>1. n + 1 \in 1..N /\ (n + 1) - 1 = n
      BY <1>1
    <3> QED
      BY <1>2, <3>1
  <2>3. EndOf(root, s) \in S \cup {root}
    BY <2>1 DEF EndOf, Listing
  <2>4. Follows(S, EndOf(root, s), y)
    BY <2>3 DEF Ordered
  <2> HIDE DEF y, s
  <2>5. CASE y = Null
    <3>1. Done(s)
      BY <2>4, <2>5 DEF Follows
    <3> QED
      BY <2>1, <2>2, <2>5, <3>1
  <2>6. CASE y # Null
    <3>1. y \in S /\ EndOf(root, s) < y
      BY <2>4, <2>6 DEF Follows
    <3>4. EndOf(root, s) \in Int /\ y \in Int
      BY <2>3, <3>1, SeparateType, HeapShape
    <3>2. m = n
      BY <2>1, <3>1, <3>4
    <3>3. Listing(S, root, n + 1, Append(s, y))
      BY <2>1, <2>4, <3>1, <3>2, ListingOn
    <3> QED
      BY <2>2, <2>6, <3>3
  <2> QED
    BY <2>5, <2>6
<1> HIDE DEF T
<1>6. \A n \in Nat : n \in T
  BY <1>4, <1>5, AllNumbers
<1>7. PICK m \in 0..N : Listing(S, root, m, w[N]) /\ (m = N \/ Done(w[N]))
  BY <1>1, <1>6 DEF T
<1>8. m # N
  <2> SUFFICES ASSUME m = N PROVE FALSE
    OBVIOUS
  <2>1. N \in 1..N /\ w[N][N] \in S
    BY <1>1, <1>7, HeapShape DEF Listing
  <2>2. w[N][N] >= FirstBlock + 4 * (N - 1)
    BY <1>7, <2>1, ListingGrows
  <2>3. w[N][N] \in Int /\ w[N][N] + 4 <= MAX_HEAP
    BY <2>1, SeparateType
  <2> QED
    BY <1>1, <2>2, <2>3, HeapShape
<1>9. S = {w[N][k] : k \in 1..m}
  BY <1>7, <1>8, ListingAll
<1>10. w[N] \in Seq(S) /\ Len(w[N]) = m /\ DOMAIN w[N] = 1..m
  BY <1>7 DEF Listing
<1>11. \A j, k \in 1..m : j < k => w[N][j] < w[N][k]
  BY <1>7, ListingGrows
<1>12. Enumerates(w[N], S)
  BY <1>9, <1>10, <1>11 DEF Enumerates
<1> QED
  BY <1>3, <1>7, <1>12

-----------------------------------------------------------------------------
(* The searches of the lists. *)
LEMMA MinIsLeast ==
  ASSUME NEW S \in SUBSET Nat, S # {}
  PROVE  Min(S) \in S /\ \A y \in S : Min(S) <= y
BY LeastExists DEF Min

\* The first of a list that is in U is the least of U.
LEMMA FirstInFacts ==
  ASSUME NEW list, NEW S, Separate(S), Enumerates(list, S), NEW U \in SUBSET S
  PROVE  /\ FirstIn(list, U) = Null => U = {}
         /\ FirstIn(list, U) # Null => /\ FirstIn(list, U) \in U
                                       /\ \A z \in U : FirstIn(list, U) <= z
<1> DEFINE hits == {k \in DOMAIN list : list[k] \in U}
<1>1. /\ list \in Seq(S) /\ S = {list[k] : k \in DOMAIN list}
      /\ \A j, k \in DOMAIN list : j < k => list[j] < list[k]
      /\ DOMAIN list = 1..Len(list)
  BY DEF Enumerates
<1>2. hits \in SUBSET Nat
  BY <1>1
<1>3. FirstIn(list, U) = IF hits = {} THEN Null ELSE list[Min(hits)]
  BY DEF FirstIn
<1>4. \A z \in U : \E k \in hits : list[k] = z
  BY <1>1
<1>5. CASE hits = {}
  BY <1>3, <1>4, <1>5
<1>6. CASE hits # {}
  <2> DEFINE m == Min(hits)
  <2>1. m \in hits /\ \A k \in hits : m <= k
    BY <1>2, <1>6, MinIsLeast
  <2> HIDE DEF m
  <2>2. list[m] \in U /\ list[m] # Null /\ m \in DOMAIN list
    BY <2>1, SeparateType DEF Null
  <2>3. ASSUME NEW z \in U
        PROVE  list[m] <= z
    <3>1. PICK k \in hits : list[k] = z
      BY <1>4
    <3>2. m = k \/ m < k
      BY <1>2, <2>1
    <3>3. list[m] \in Int /\ z \in Int
      BY <2>2, SeparateType
    <3> QED
      BY <1>1, <2>2, <3>1, <3>2, <3>3
  <2> QED
    BY <1>3, <1>6, <2>2, <2>3 DEF m
<1> QED
  BY <1>5, <1>6

\* seg_max is a function to the numbers.
LEMMA SegMaxType ==
  \A i \in Classes : seg_max[i] \in Nat
<1> DEFINE N == SEG_NUM - 1
           G == [p \in Nat \X Nat |-> 2 * p[1]]
           Rec(f) == f = [i \in 0 .. SEG_NUM - 1 |-> IF i = 0 THEN 4 ELSE 2 * f[i - 1]]
<1>1. N \in Nat
  BY HeapShape
<1>2. G \in [Nat \X Nat -> Nat] /\ \A x, i \in Nat : G[<<x, i>>] = 2 * x
  OBVIOUS
<1>3. PICK f : Iteration(f, Nat, 4, G, N)
  <2> HIDE DEF N, G
  <2> QED
    BY <1>1, <1>2, Iterates
<1>4. /\ f \in [0..N -> Nat] /\ f[0] = 4
      /\ \A i \in 1..N : f[i] = G[<<f[i-1], i>>]
  BY <1>3 DEF Iteration
<1> HIDE DEF G
<1>5. Rec(f)
  <2>1. ASSUME NEW i \in 0..N
        PROVE  f[i] = IF i = 0 THEN 4 ELSE 2 * f[i - 1]
    <3>1. CASE i = 0
      BY <1>4, <3>1
    <3>2. CASE i # 0
      <4>1. i \in 1..N /\ i - 1 \in 0..N /\ i \in Nat
        BY <1>1, <3>2
      <4> QED
        BY <1>2, <1>4, <3>2, <4>1
    <3> QED
      BY <3>1, <3>2
  <2> QED
    BY <1>4, <2>1
<1>6. Rec(CHOOSE g : Rec(g))
  BY <1>5
<1>7. Rec(seg_max)
  BY <1>6 DEF seg_max
<1> DEFINE T == {i \in Nat : i \in 0..N => seg_max[i] \in Nat}
<1>8. 0 \in T
  BY <1>7
<1>9. ASSUME NEW i \in Nat, i \in T PROVE i + 1 \in T
  <2> SUFFICES ASSUME i + 1 \in 0..N PROVE seg_max[i+1] \in Nat
    OBVIOUS
  <2>1. i \in 0..N /\ i + 1 # 0 /\ (i + 1) - 1 = i /\ seg_max[i] \in Nat
    BY <1>1, <1>9
  <2>2. seg_max[i+1] = 2 * seg_max[i]
    BY <1>7, <2>1
  <2> QED
    BY <2>1, <2>2
<1> HIDE DEF T
<1>10. \A i \in Nat : i \in T
  BY <1>8, <1>9, AllNumbers
<1> QED
  BY <1>1, <1>10 DEF T, Classes

\* A list for every size, and not an earlier one for a larger size.
LEMMA ListChosen ==
  ASSUME NEW w \in Int
  PROVE  /\ choose_list(w) \in Classes
         /\ \A v \in Int : w <= v => choose_list(w) <= choose_list(v)
<1> DEFINE I(v) == {i \in 0..SEG_NUM-2 : v <= seg_max[i]}
           J(v) == {SEG_NUM-1} \cup I(v)
<1>1. \A v \in Int : choose_list(v) = Min(J(v)) /\ J(v) \in SUBSET Nat /\ J(v) # {}
  BY HeapShape DEF choose_list
<1>2. \A v \in Int : J(v) \subseteq Classes
  BY HeapShape DEF Classes
<1>3. \A v \in Int : choose_list(v) \in J(v) /\ \A j \in J(v) : choose_list(v) <= j
  <2> HIDE DEF J
  <2> QED
    BY <1>1, MinIsLeast
<1>4. ASSUME NEW v \in Int, w <= v
      PROVE  J(v) \subseteq J(w)
  <2>1. \A i \in 0..SEG_NUM-2 : seg_max[i] \in Int
    BY SegMaxType, HeapShape DEF Classes
  <2> QED
    BY <1>4, <2>1
<1> HIDE DEF J
<1> QED
  BY <1>2, <1>3, <1>4

-----------------------------------------------------------------------------
(* place_free_block *)

\* Where a block that is not in the list belongs.
LEMMA PlaceFound ==
  ASSUME NEW h \in Heap, NEW S, NEW b, b \notin S, Separate(S \cup {b}), NEW c \in Classes,
         Ordered(h, Root(c), S),
         NEW list, list = Chain(h, Root(c)),
         NEW rover, rover = FirstIn(list, {r \in Range(list) : r > b}),
         NEW pred, pred = IF rover = Null THEN EndOf(Root(c), list) ELSE Pred(h, rover)
  PROVE  Follows(S, b, rover) /\ Precedes(S, Root(c), pred, b)
<1> DEFINE root == Root(c)
           U == {r \in S : r > b}
<1>0. Separate(S)
  BY DEF Separate
<1>1. Enumerates(list, S)
  BY <1>0, ChainFacts
<1>2. Range(list) = S
  BY <1>1 DEF Enumerates, Range
<1>3. rover = FirstIn(list, U)
  BY <1>2
<1>4. /\ b \in Int /\ root \in Int /\ root < b /\ Null \notin S
      /\ \A x \in S : x \in Int /\ root < x /\ x # b
  <2>1. \A x \in S \cup {b} : x \in Int /\ root < x /\ x # Null
    BY SeparateType, HeapShape DEF Null
  <2> QED
    BY <2>1, HeapShape
<1>5. /\ rover = Null => U = {}
      /\ rover # Null => rover \in U /\ \A z \in U : rover <= z
  BY <1>0, <1>1, <1>3, FirstInFacts
<1> HIDE DEF root
<1>6. Follows(S, b, rover)
  BY <1>4, <1>5 DEF Follows
<1> SUFFICES Precedes(S, root, pred, b)
  BY <1>6 DEF root
<1>7. CASE rover = Null
  <2>1. /\ list \in Seq(S) /\ S = {list[k] : k \in 1..Len(list)}
        /\ \A j, k \in 1..Len(list) : j < k => list[j] < list[k]
    BY <1>1 DEF Enumerates
  <2>2. \A z \in S : z < b
    BY <1>4, <1>5, <1>7
  <2>3. CASE list = <<>>
    <3>1. S = {} /\ pred = root
      BY <1>7, <2>1, <2>3 DEF EndOf, root
    <3> QED
      BY <1>4, <3>1 DEF Precedes
  <2>4. CASE list # <<>>
    <3>1. pred = list[Len(list)] /\ Len(list) \in 1..Len(list) /\ pred \in S
      BY <1>7, <2>1, <2>4 DEF EndOf
    <3>2. \A z \in S : z <= pred
      <4> SUFFICES ASSUME NEW k \in 1..Len(list) PROVE list[k] <= pred
        BY <2>1
      <4>1. k = Len(list) \/ k < Len(list)
        BY <2>1
      <4>2. list[k] \in S
        BY <2>1
      <4>3. CASE k = Len(list)
        BY <1>4, <3>1, <4>3
      <4>4. CASE k < Len(list)
        <5>1. list[k] < pred
          BY <2>1, <3>1, <4>4
        <5> QED
          BY <1>4, <3>1, <4>2, <5>1
      <4> QED
        BY <4>1, <4>3, <4>4
    <3> QED
      BY <2>2, <3>1, <3>2 DEF Precedes
  <2> QED
    BY <2>3, <2>4
<1>8. CASE rover # Null
  <2>1. rover \in S /\ b < rover /\ \A z \in S : z <= b \/ rover <= z
    BY <1>5, <1>4, <1>8
  <2>2. Precedes(S, root, pred, rover)
    BY <1>8, <2>1 DEF Ordered, root
  <2>3. pred \in S \cup {root} /\ pred < rover /\ \A z \in S : z <= pred \/ rover <= z
    BY <2>2 DEF Precedes
  <2>4. pred < b
    BY <1>4, <2>1, <2>3
  <2>5. \A z \in S : z <= pred \/ b <= z
    BY <1>4, <2>1, <2>3
  <2> QED
    BY <2>3, <2>4, <2>5 DEF Precedes
<1> QED
  BY <1>7, <1>8

\* place_free_block puts a block into its list, and writes links only.
LEMMA PlaceFacts ==
  ASSUME NEW h \in Heap, NEW S, NEW b, b \notin S, Separate(S \cup {b}), NEW c \in Classes,
         c = choose_list(Size(h, b)), Ordered(h, Root(c), S)
  PROVE  /\ place_free_block(h, b) \in Heap
         /\ Ordered(place_free_block(h, b), Root(c), S \cup {b})
         /\ Same(h, place_free_block(h, b), Links(S \cup {b, Root(c)}))
<1> DEFINE root == Root(c)
           list == Chain(h, root)
           s == FirstIn(list, {r \in Range(list) : r > b})
           p == IF s = Null THEN EndOf(root, list) ELSE Pred(h, s)
           h1 == Put(h, p + 2, b)
           h2 == Put(h1, b + 1, p)
           h3 == Put(h2, b + 2, s)
           k == place_free_block(h, b)
           N == S \cup {b, root}
<1>1. k = IF s = Null THEN h3 ELSE Put(h3, s + 1, b)
  BY DEF place_free_block, SetPred, SetSucc, EndOf
<1>2. Follows(S, b, s) /\ Precedes(S, root, p, b)
  BY PlaceFound
<1>3. /\ \A x \in N : x \in Int /\ x > 0 /\ {x, x + 1, x + 2, x + 3} \subseteq Words
      /\ \A x, y \in N : x = y \/ x + 4 <= y \/ y + 4 <= x
      /\ \A y \in S \cup {b} : root < y /\ y # Null
  BY NodeWords
<1> HIDE DEF s, p, list, k
<1>4. /\ p \in S \cup {root} /\ p < b /\ \A z \in S : z <= p \/ b <= z
      /\ s = Null => \A z \in S : z <= b
      /\ s # Null => s \in S /\ b < s /\ \A z \in S : z <= b \/ s <= z
  BY <1>2 DEF Precedes, Follows
<1>5. /\ s \in Int /\ p \in Int /\ b \in Int /\ p + 2 \in Words /\ b + 1 \in Words /\ b + 2 \in Words
      /\ s # Null => s + 1 \in Words
  BY <1>3, <1>4 DEF Null
<1>6. Wrote(h, p + 2, b, h1)
  BY <1>5, PutFacts
<1>a. h1 \in Heap
  BY <1>6 DEF Wrote
<1> HIDE DEF h1
<1>7. Wrote(h1, b + 1, p, h2)
  BY <1>5, <1>a, PutFacts
<1>b. h2 \in Heap
  BY <1>7 DEF Wrote
<1> HIDE DEF h2
<1>8. Wrote(h2, b + 2, s, h3)
  BY <1>5, <1>b, PutFacts
<1>c. h3 \in Heap
  BY <1>8 DEF Wrote
<1> HIDE DEF h3
<1>9. /\ k \in Heap /\ k.brk = h.brk
      /\ \A x \in Words : k.mem[x] = IF s # Null /\ x = s + 1 THEN b ELSE h3.mem[x]
  <2>0. h3.brk = h.brk
    BY <1>6, <1>7, <1>8 DEF Wrote
  <2>1. CASE s = Null
    BY <1>1, <1>c, <2>0, <2>1
  <2>2. CASE s # Null
    <3>1. k = Put(h3, s + 1, b) /\ s + 1 \in Words
      BY <1>1, <1>5, <2>2
    <3>2. Wrote(h3, s + 1, b, k)
      BY <1>5, <1>c, <3>1, PutFacts
    <3> QED
      BY <2>0, <2>2, <3>2 DEF Wrote
  <2> QED
    BY <2>1, <2>2
<1>10. Same(h, k, Links(N))
  <2>1. p + 2 \in Links(N) /\ b + 1 \in Links(N) /\ b + 2 \in Links(N)
        /\ (s # Null => s + 1 \in Links(N))
    BY <1>4 DEF Links
  <2> HIDE DEF N
  <2> QED
    BY <1>6, <1>7, <1>8, <1>9, <2>1 DEF Same, Wrote
<1>11. ASSUME NEW x \in N
       PROVE  /\ Succ(k, x) = IF x = p THEN b ELSE IF x = b THEN s ELSE Succ(h, x)
              /\ x # root => Pred(k, x) = IF x = b THEN p ELSE IF x = s THEN b ELSE Pred(h, x)
  <2>1. \A y \in {p, b} : y \in N /\ (x = y \/ x + 4 <= y \/ y + 4 <= x)
    BY <1>3, <1>4
  <2>2. s # Null => s \in N /\ (x = s \/ x + 4 <= s \/ s + 4 <= x)
    BY <1>3, <1>4
  <2>3. x + 1 \in Words /\ x + 2 \in Words /\ x \in Int /\ x # Null /\ p # b
    BY <1>3, <1>4 DEF Null
  <2>4. s # Null => s # b
    BY <1>4, <1>5
  <2>5. k.mem[x + 2] = IF x = p THEN b ELSE IF x = b THEN s ELSE h.mem[x + 2]
    BY <1>5, <1>6, <1>7, <1>8, <1>9, <2>1, <2>2, <2>3, <2>4 DEF Wrote
  <2>6. k.mem[x + 1] = IF x = b THEN p ELSE IF x = s THEN b ELSE h.mem[x + 1]
    BY <1>5, <1>6, <1>7, <1>8, <1>9, <2>1, <2>2, <2>3, <2>4 DEF Wrote
  <2> QED
    BY <2>5, <2>6 DEF Succ, Pred
<1>12. ASSUME NEW x \in N
       PROVE  Follows(S \cup {b}, x, Succ(k, x))
  <2>1. CASE x = p
    BY <1>3, <1>4, <1>5, <1>11, <2>1 DEF Follows
  <2>2. CASE x = b
    BY <1>3, <1>4, <1>5, <1>11, <2>2 DEF Follows
  <2>3. CASE x # p /\ x # b
    <3> DEFINE y == Succ(h, x)
    <3>1. Succ(k, x) = y /\ Follows(S, x, y)
      BY <1>11, <2>3 DEF Ordered
    <3> HIDE DEF y
    <3>2. y = Null => \A z \in S : z <= x
      BY <3>1 DEF Follows
    <3>3. y # Null => y \in S /\ x < y /\ \A z \in S : z <= x \/ y <= z
      BY <3>1 DEF Follows
    <3>4. CASE y = Null
      <4>1. b <= x
        BY <1>3, <1>4, <1>5, <2>3, <3>2, <3>4
      <4> QED
        BY <3>1, <3>2, <3>4, <4>1 DEF Follows
    <3>5. CASE y # Null
      <4>1. b <= x \/ y <= b
        <5>0. x \in Int /\ y \in Int /\ root \in Int /\ \A z \in S : z \in Int /\ root < z
          BY <1>3, <3>3, <3>5
        <5> SUFFICES ASSUME x < b, b < y PROVE FALSE
          BY <1>5, <5>0
        <5>1. CASE x \in S
          <6>1. x <= p
            BY <1>4, <1>5, <5>0, <5>1
          <6>2. p \in S
            BY <1>4, <1>5, <5>0, <5>1, <6>1
          <6>3. p <= x \/ y <= p
            BY <3>3, <3>5, <6>2
          <6> QED
            BY <1>4, <1>5, <2>3, <5>0, <6>1, <6>3
        <5>2. CASE x = root
          <6>1. p \in S
            BY <1>4, <2>3, <5>2
          <6>2. p <= x \/ y <= p
            BY <3>3, <3>5, <6>1
          <6> QED
            BY <1>4, <1>5, <5>0, <5>2, <6>1, <6>2
        <5> QED
          BY <2>3, <5>1, <5>2
      <4> QED
        BY <3>1, <3>3, <3>5, <4>1 DEF Follows
    <3> QED
      BY <3>4, <3>5
  <2> QED
    BY <2>1, <2>2, <2>3
<1>13. ASSUME NEW x \in S \cup {b}
       PROVE  Precedes(S \cup {b}, root, Pred(k, x), x)
  <2>1. x # root /\ x \in N /\ x \in Int /\ x # Null
    BY <1>3
  <2>2. CASE x = b
    BY <1>3, <1>4, <1>5, <1>11, <2>1, <2>2 DEF Precedes
  <2>3. CASE x # b /\ x = s
    BY <1>3, <1>4, <1>5, <1>11, <2>1, <2>3 DEF Precedes
  <2>4. CASE x # b /\ x # s
    <3> DEFINE q == Pred(h, x)
    <3>1. Pred(k, x) = q /\ Precedes(S, root, q, x)
      BY <1>11, <2>1, <2>4 DEF Ordered
    <3> HIDE DEF q
    <3>2. q \in S \cup {root} /\ q < x /\ \A z \in S : z <= q \/ x <= z
      BY <3>1 DEF Precedes
    <3>3. b <= q \/ x <= b
      BY <1>3, <1>4, <1>5, <2>1, <2>4, <3>2
    <3> QED
      BY <3>1, <3>2, <3>3 DEF Precedes
  <2> QED
    BY <2>2, <2>3, <2>4
<1>14. Ordered(k, root, S \cup {b})
  BY <1>12, <1>13 DEF Ordered
<1> QED
  BY <1>9, <1>10, <1>14 DEF k

-----------------------------------------------------------------------------
(* All the lists: of the blocks G, with K the list that each is in. *)
Roots == {Root(c) : c \in Classes}
InClass(G, K, c) == {b \in G : K[b] = c}

Lists(h, G, K) ==
  /\ Separate(G)
  /\ \A b \in G : K[b] \in Classes
  /\ \A c \in Classes : Ordered(h, Root(c), InClass(G, K, c))

\* The words of a node are its own.
LEMMA NodesApart ==
  ASSUME NEW G, Separate(G)
  PROVE  \A x, y \in G \cup Roots : /\ x \in Int /\ (x = y \/ x + 4 <= y \/ y + 4 <= x)
<1>1. \A x \in G : x \in Int /\ FirstBlock <= x
  BY SeparateType
<1>2. \A x \in Roots : x \in Int /\ x + 4 <= FirstBlock
  BY HeapShape DEF Roots
<1>3. \A x, y \in Roots : x = y \/ x + 4 <= y \/ y + 4 <= x
  BY HeapShape DEF Roots
<1>4. \A x, y \in G : x = y \/ x + 4 <= y \/ y + 4 <= x
  BY DEF Separate
<1> QED
  BY <1>1, <1>2, <1>3, <1>4, HeapShape

\* Blocks that do not meet: a part of them does not either.
LEMMA SeparatePart ==
  ASSUME NEW G, Separate(G), NEW H \in SUBSET G
  PROVE  Separate(H)
BY DEF Separate

\* Lists whose links are not written stay.
LEMMA ListKept ==
  ASSUME NEW h \in Heap, NEW k \in Heap, NEW G, Separate(G), NEW X, Same(h, k, Links(X)),
         X \subseteq G \cup Roots, NEW S \in SUBSET G, NEW c \in Classes, Ordered(h, Root(c), S),
         X \cap (S \cup {Root(c)}) = {}, S # {} \/ FirstBlock <= MAX_HEAP
  PROVE  Ordered(k, Root(c), S)
<1>1. Root(c) \in Roots
  BY DEF Roots
<1>2. ASSUME NEW x \in S \cup {Root(c)}
      PROVE  k.mem[x + 1] = h.mem[x + 1] /\ k.mem[x + 2] = h.mem[x + 2]
  <2>1. x \in G \cup Roots /\ x \notin X
    BY <1>1
  <2>2. \A y \in X : y \in Int /\ x \in Int /\ (x + 4 <= y \/ y + 4 <= x)
    BY <2>1, NodesApart
  <2>3. x + 1 \notin Links(X) /\ x + 2 \notin Links(X)
    BY <2>2 DEF Links
  <2>4. x + 1 \in Words /\ x + 2 \in Words
    <3>1. x \in S => x \in Int /\ x > 0 /\ x + 4 <= MAX_HEAP
      BY SeparateType
    <3>2. Root(c) \in Int /\ Root(c) > 0 /\ Root(c) + 4 <= FirstBlock
      BY HeapShape
    <3>3. FirstBlock <= MAX_HEAP
      BY SeparateType, HeapShape
    <3> QED
      BY <3>1, <3>2, <3>3, HeapShape DEF Words
  <2> QED
    BY <2>3, <2>4 DEF Same
<1> QED
  BY <1>2, OrderedKept

\* All lists stay if no link of theirs is written.
LEMMA ListsKept ==
  ASSUME NEW h \in Heap, NEW k \in Heap, NEW G, NEW K, Lists(h, G, K), FirstBlock <= MAX_HEAP,
         \A x \in G \cup Roots : k.mem[x + 1] = h.mem[x + 1] /\ k.mem[x + 2] = h.mem[x + 2]
  PROVE  Lists(k, G, K)
<1>1. ASSUME NEW c \in Classes
      PROVE  Ordered(k, Root(c), InClass(G, K, c))
  <2>1. InClass(G, K, c) \cup {Root(c)} \subseteq G \cup Roots
    BY DEF InClass, Roots
  <2>2. Ordered(h, Root(c), InClass(G, K, c))
    BY DEF Lists
  <2> QED
    BY <2>1, <2>2, OrderedKept
<1> QED
  BY <1>1 DEF Lists

\* Lists depend on the classes of their blocks only.
LEMMA ListsSame ==
  ASSUME NEW h, NEW G, NEW K, Lists(h, G, K), NEW L, \A b \in G : L[b] = K[b]
  PROVE  Lists(h, G, L)
<1>1. \A c : InClass(G, L, c) = InClass(G, K, c)
  BY DEF InClass
<1> QED
  BY <1>1 DEF Lists

\* Unlink takes the block out of its list and leaves the other lists.
LEMMA UnlinkLists ==
  ASSUME NEW h \in Heap, NEW G, NEW K, Lists(h, G, K), NEW b \in G
  PROVE  /\ Unlink(h, b) \in Heap
         /\ Lists(Unlink(h, b), G \ {b}, K)
         /\ Same(h, Unlink(h, b), Links((G \ {b}) \cup Roots))
<1> DEFINE k == Unlink(h, b)
           e == K[b]
           S == InClass(G, K, e)
           X == (S \ {b}) \cup {Root(e)}
<1>1. Separate(G) /\ e \in Classes /\ Ordered(h, Root(e), S) /\ S \subseteq G /\ b \in S
  BY DEF Lists, InClass
<1>2. Separate(S)
  BY <1>1, SeparatePart
<1> HIDE DEF S, e
<1>3. k \in Heap /\ Ordered(k, Root(e), S \ {b}) /\ Same(h, k, Links(X))
  BY <1>1, <1>2, UnlinkFacts
<1> HIDE DEF k
<1>4. X \subseteq (G \ {b}) \cup Roots
  BY <1>1 DEF Roots
<1>5. Same(h, k, Links((G \ {b}) \cup Roots))
  <2>1. Links(X) \subseteq Links((G \ {b}) \cup Roots)
    BY <1>4 DEF Links
  <2> HIDE DEF X
  <2> QED
    BY <1>3, <2>1 DEF Same
<1>6. ASSUME NEW c \in Classes
      PROVE  Ordered(k, Root(c), InClass(G \ {b}, K, c))
  <2>1. CASE c = e
    <3>1. InClass(G \ {b}, K, c) = S \ {b}
      BY <2>1 DEF InClass, S
    <3> QED
      BY <1>3, <2>1, <3>1
  <2>2. CASE c # e
    <3> DEFINE Q == InClass(G, K, c)
    <3>1. InClass(G \ {b}, K, c) = Q /\ Q \subseteq G /\ Q \cap S = {}
      BY <2>2 DEF InClass, S, e
    <3>2. Ordered(h, Root(c), Q)
      BY DEF Lists
    <3>3. Root(c) # Root(e) /\ \A x \in G : x # Root(c) /\ x # Root(e)
      <4>1. \A x \in G : x \in Int /\ FirstBlock <= x
        BY <1>1, SeparateType
      <4> QED
        BY <1>1, <2>2, <4>1, HeapShape DEF Root, Classes
    <3>4. X \cap (Q \cup {Root(c)}) = {} /\ X \subseteq G \cup Roots
      BY <1>1, <1>4, <3>1, <3>3
    <3>5. FirstBlock <= MAX_HEAP
      BY <1>1, SeparateType, HeapShape
    <3> HIDE DEF Q, X
    <3> QED
      BY <1>1, <1>3, <3>1, <3>2, <3>4, <3>5, ListKept
  <2> QED
    BY <2>1, <2>2
<1>7. Separate(G \ {b}) /\ \A x \in G \ {b} : K[x] \in Classes
  BY <1>1, SeparatePart DEF Lists
<1>8. Lists(k, G \ {b}, K)
  BY <1>6, <1>7 DEF Lists
<1> QED
  BY <1>3, <1>5, <1>8 DEF k

\* place_free_block puts the block into its list and leaves the other lists.
LEMMA PlaceLists ==
  ASSUME NEW h \in Heap, NEW G, NEW K, Lists(h, G, K), NEW b, b \notin G, Separate(G \cup {b}),
         K[b] = choose_list(Size(h, b)), Size(h, b) \in Int
  PROVE  /\ place_free_block(h, b) \in Heap
         /\ Lists(place_free_block(h, b), G \cup {b}, K)
         /\ Same(h, place_free_block(h, b), Links((G \cup {b}) \cup Roots))
<1> DEFINE k == place_free_block(h, b)
           e == K[b]
           S == InClass(G, K, e)
           X == S \cup {b, Root(e)}
<1>1. e \in Classes /\ Ordered(h, Root(e), S) /\ S \subseteq G /\ b \notin S
  BY ListChosen DEF Lists, InClass
<1>2. Separate(S \cup {b})
  BY <1>1, SeparatePart
<1> HIDE DEF S
<1>3. k \in Heap /\ Ordered(k, Root(e), S \cup {b}) /\ Same(h, k, Links(X))
  BY <1>1, <1>2, PlaceFacts
<1> HIDE DEF k, e
<1>4. X \subseteq (G \cup {b}) \cup Roots
  BY <1>1 DEF Roots
<1>5. Same(h, k, Links((G \cup {b}) \cup Roots))
  <2>1. Links(X) \subseteq Links((G \cup {b}) \cup Roots)
    BY <1>4 DEF Links
  <2> HIDE DEF X
  <2> QED
    BY <1>3, <2>1 DEF Same
<1>6. ASSUME NEW c \in Classes
      PROVE  Ordered(k, Root(c), InClass(G \cup {b}, K, c))
  <2>1. CASE c = e
    <3>1. InClass(G \cup {b}, K, c) = S \cup {b}
      BY <2>1 DEF InClass, S, e
    <3> QED
      BY <1>3, <2>1, <3>1
  <2>2. CASE c # e
    <3> DEFINE Q == InClass(G, K, c)
    <3>1. InClass(G \cup {b}, K, c) = Q /\ Q \subseteq G /\ Q \cap S = {} /\ b \notin Q
      BY <2>2 DEF InClass, S, e
    <3>2. Ordered(h, Root(c), Q)
      BY DEF Lists
    <3>3. Root(c) # Root(e) /\ \A x \in G \cup {b} : x # Root(c) /\ x # Root(e)
      <4>1. \A x \in G \cup {b} : x \in Int /\ FirstBlock <= x
        BY SeparateType
      <4> QED
        BY <1>1, <2>2, <4>1, HeapShape DEF Root, Classes
    <3>4. X \cap (Q \cup {Root(c)}) = {} /\ Q \subseteq G \cup {b}
      BY <1>1, <3>1, <3>3
    <3>5. FirstBlock <= MAX_HEAP
      BY SeparateType, HeapShape
    <3> HIDE DEF Q, X
    <3> QED
      BY <1>3, <1>4, <3>1, <3>2, <3>4, <3>5, ListKept
  <2> QED
    BY <2>1, <2>2
<1>7. \A x \in G \cup {b} : K[x] \in Classes
  BY <1>1 DEF Lists, e
<1>8. Lists(k, G \cup {b}, K)
  BY <1>6, <1>7 DEF Lists
<1> QED
  BY <1>3, <1>5, <1>8 DEF k

\* No block is in the lists at first.
LEMMA NoLists ==
  ASSUME NEW h, NEW K, \A c \in Classes : Succ(h, Root(c)) = Null
  PROVE  Lists(h, {}, K)
BY DEF Lists, Ordered, Follows, Separate, InClass

\* K is the list that a block of its size belongs to.
Sized(h, G, K) == \A b \in G : Size(h, b) \in Int /\ K[b] = choose_list(Size(h, b))

\* find_fit finds a block that is large enough, if there is one.
LEMMA FindFit ==
  ASSUME NEW h \in Heap, NEW G, NEW K, Lists(h, G, K), Sized(h, G, K), NEW words \in Int
  PROVE  \/ find_fit(h, words) = Null /\ \A b \in G : Size(h, b) < words
         \/ find_fit(h, words) \in G /\ Size(h, find_fit(h, words)) >= words
<1> DEFINE found(i) == FirstFit(h, FreeList(h, i), words)
           I == {i \in choose_list(words)..SEG_NUM-1 : found(i) # Null}
           fit == find_fit(h, words)
           Fits(i) == {b \in InClass(G, K, i) : Size(h, b) >= words}
<1>1. fit = IF I = {} THEN Null ELSE found(Min(I))
  BY DEF find_fit
<1>2. ASSUME NEW i \in Classes
      PROVE  /\ found(i) = Null => Fits(i) = {}
             /\ found(i) # Null => found(i) \in Fits(i)
  <2> DEFINE S == InClass(G, K, i)
             list == Chain(h, Root(i))
  <2>1. Separate(S) /\ Ordered(h, Root(i), S)
    BY SeparatePart DEF Lists, InClass
  <2> HIDE DEF S
  <2>2. Enumerates(list, S)
    BY <2>1, ChainFacts
  <2>3. Range(list) = S
    BY <2>2 DEF Enumerates, Range
  <2>4. found(i) = FirstIn(list, Fits(i))
    BY <2>3 DEF FirstFit, FreeList, S
  <2>5. Fits(i) \in SUBSET S
    BY DEF S
  <2> HIDE DEF found, list, Fits
  <2> QED
    BY <2>1, <2>2, <2>4, <2>5, FirstInFacts
<1> HIDE DEF found, fit
<1>3. choose_list(words) \in Classes
  BY ListChosen
<1>4. I \subseteq Classes /\ I \in SUBSET Nat
  BY <1>3 DEF Classes
<1>5. CASE I = {}
  <2>1. ASSUME NEW b \in G
        PROVE  Size(h, b) < words
    <3>1. Size(h, b) \in Int /\ K[b] = choose_list(Size(h, b)) /\ K[b] \in Classes
      BY DEF Sized, Lists
    <3>2. CASE words <= Size(h, b)
      <4>1. choose_list(words) <= K[b]
        BY <3>1, <3>2, ListChosen
      <4>2. K[b] \in choose_list(words)..SEG_NUM-1
        BY <1>3, <3>1, <4>1 DEF Classes
      <4>3. found(K[b]) = Null
        BY <1>5, <4>2
      <4>4. b \in Fits(K[b])
        BY <3>1, <3>2 DEF InClass
      <4> QED
        BY <1>2, <3>1, <4>3, <4>4
    <3> QED
      BY <3>1, <3>2
  <2> QED
    BY <1>1, <1>5, <2>1 DEF fit
<1>6. CASE I # {}
  <2>1. Min(I) \in I
    BY <1>4, <1>6, MinIsLeast
  <2>2. Min(I) \in Classes /\ found(Min(I)) # Null
    BY <1>4, <2>1
  <2>3. fit \in Fits(Min(I))
    BY <1>1, <1>2, <1>6, <2>2
  <2> QED
    BY <2>3 DEF fit, InClass
<1> QED
  BY <1>5, <1>6

-----------------------------------------------------------------------------
(* The blocks T tile the heap, from the roots to the epilogue. *)
End(h) == h.brk - 1
After(h, b) == b + Size(h, b)

Tiling(h, T) ==
  /\ FirstBlock <= End(h)
  /\ T \subseteq FirstBlock..End(h)-1
  /\ FirstBlock \in T \cup {End(h)}
  /\ \A b \in T : /\ Size(h, b) >= 4 /\ Size(h, b) % 2 = 0
                  /\ After(h, b) \in T \cup {End(h)}
                  /\ \A t \in T \cup {End(h)} : t <= b \/ After(h, b) <= t

\* Each block says whether the one before it is allocated.
Tagged(h, T) ==
  /\ Size(h, End(h)) = 0 /\ ~IsFree(h, End(h))
  /\ check_prev_alloc(h.mem[FirstBlock]) = 1
  /\ \A b \in T : check_prev_alloc(h.mem[After(h, b)]) = check_alloc(h.mem[b])

FreeIn(h, T) == {b \in T : IsFree(h, b)}

\* The footers of the blocks G.
Footed(h, G) == \A b \in G : get_blockSize(h.mem[After(h, b) - 1]) = Size(h, b)

\* The tiles are blocks within the heap, apart from each other.
LEMMA TilingType ==
  ASSUME NEW h \in Heap, NEW T, Tiling(h, T)
  PROVE  /\ Separate(T)
         /\ End(h) \in Words /\ End(h) \in Int /\ FirstBlock \in Words
         /\ \A b \in T : /\ b \in Words /\ b \in Int /\ b < End(h) /\ FirstBlock <= b
                         /\ Size(h, b) \in Int /\ After(h, b) \in Words /\ After(h, b) \in Int
                         /\ After(h, b) <= End(h) /\ b + 4 <= After(h, b)
                         /\ b..After(h, b)-1 \subseteq Words
<1>1. End(h) \in Words /\ End(h) \in Int /\ FirstBlock \in Words /\ FirstBlock <= End(h)
  BY HeapType, HeapShape DEF End, Words, Tiling
<1>2. \A b \in T : b \in Words /\ b \in Int /\ b < End(h) /\ FirstBlock <= b
  BY <1>1, HeapShape DEF Tiling, Words
<1>3. ASSUME NEW b \in T
      PROVE  /\ Size(h, b) \in Int /\ After(h, b) \in Int /\ b + 4 <= After(h, b)
             /\ After(h, b) <= End(h)
  <2>1. Size(h, b) \in Int
    BY <1>2, SizeType
  <2>2. Size(h, b) >= 4 /\ After(h, b) \in T \cup {End(h)}
    BY DEF Tiling
  <2>3. After(h, b) \in Int /\ b + 4 <= After(h, b)
    BY <1>2, <2>1, <2>2 DEF After
  <2> QED
    BY <1>1, <1>2, <2>1, <2>2, <2>3
<1>4. \A b \in T : After(h, b) \in Words /\ b..After(h, b)-1 \subseteq Words /\ b + 4 <= MAX_HEAP
  BY <1>1, <1>2, <1>3, HeapShape DEF Words
<1>5. ASSUME NEW b \in T, NEW d \in T
      PROVE  b = d \/ b + 4 <= d \/ d + 4 <= b
  <2>1. (d <= b \/ After(h, b) <= d) /\ (b <= d \/ After(h, d) <= b)
    BY DEF Tiling
  <2> QED
    BY <1>2, <1>3, <2>1
<1>6. Separate(T)
  BY <1>2, <1>4, <1>5 DEF Separate
<1> QED
  BY <1>1, <1>2, <1>3, <1>4, <1>6

\* Before every block but the first there is one.
LEMMA BlockBefore ==
  ASSUME NEW h \in Heap, NEW T, Tiling(h, T), NEW x \in T \cup {End(h)}, x # FirstBlock
  PROVE  \E p \in T : After(h, p) = x
<1> DEFINE S == {End(h) - t : t \in {u \in T : u < x}}
<1>1. /\ End(h) \in Int /\ FirstBlock \in Int
      /\ \A b \in T : b \in Int /\ b < End(h) /\ FirstBlock <= b /\ After(h, b) \in Int /\ b + 4 <= After(h, b)
  BY TilingType, HeapShape
<1>2. FirstBlock \in T /\ FirstBlock < x /\ x \in Int
  <2>1. FirstBlock \in T \cup {End(h)} /\ FirstBlock <= End(h)
    BY DEF Tiling
  <2> QED
    BY <1>1, <2>1
<1>3. S \in SUBSET Nat /\ S # {}
  BY <1>1, <1>2
<1>4. PICK m \in S : \A y \in S : m <= y
  BY <1>3, LeastExists
<1>5. PICK p \in T : p < x /\ m = End(h) - p
  BY <1>4
<1>6. ASSUME NEW t \in T, t < x PROVE t <= p
  <2>1. End(h) - t \in S
    BY <1>6
  <2>2. m <= End(h) - t
    BY <1>4, <2>1
  <2> QED
    BY <1>1, <1>5, <2>2
<1>7. After(h, p) \in T \cup {End(h)} /\ (x <= p \/ After(h, p) <= x)
  BY DEF Tiling
<1>8. After(h, p) <= x /\ After(h, p) > p
  <2>1. p \in Int /\ x \in Int /\ After(h, p) \in Int /\ p + 4 <= After(h, p)
    BY <1>1, <1>2
  <2> QED
    BY <1>5, <1>7, <2>1
<1>9. x <= End(h)
  BY <1>1
<1>10. ~(After(h, p) < x)
  <2> SUFFICES ASSUME After(h, p) < x PROVE FALSE
    OBVIOUS
  <2>1. End(h) \in Int /\ After(h, p) \in Int /\ p \in Int /\ x \in Int
    BY <1>1, <1>2
  <2>2. After(h, p) \in T
    BY <1>7, <1>9, <2>1
  <2>3. After(h, p) <= p
    BY <1>6, <2>2
  <2> QED
    BY <1>8, <2>1, <2>3
<1>11. After(h, p) = x
  <2>1. After(h, p) \in Int /\ x \in Int
    BY <1>1, <1>2
  <2> QED
    BY <1>8, <1>10, <2>1
<1> QED
  BY <1>11

\* Writing links changes no header, no footer, and no word of other blocks.
LEMMA LinksFrame ==
  ASSUME NEW h \in Heap, NEW T, Tiling(h, T),
         NEW g \in Heap, NEW k \in Heap, End(g) = End(h),
         NEW X, X \subseteq T \cup Roots, Same(g, k, Links(X))
  PROVE  /\ End(k) = End(h)
         /\ \A x \in T \cup {End(h)} : k.mem[x] = g.mem[x]
         /\ \A d \in T : k.mem[After(h, d) - 1] = g.mem[After(h, d) - 1]
         /\ \A d \in T \ X : \A a \in d..After(h, d)-1 : k.mem[a] = g.mem[a]
<1>1. /\ End(h) \in Int /\ End(h) \in Words
      /\ \A b \in T : /\ b \in Words /\ b \in Int /\ b < End(h) /\ FirstBlock <= b
                      /\ After(h, b) \in Int /\ After(h, b) <= End(h) /\ b + 4 <= After(h, b)
                      /\ b..After(h, b)-1 \subseteq Words
  BY TilingType
<1>2. \A b, t \in T : t <= b \/ After(h, b) <= t
  BY DEF Tiling
<1>3. \A x \in Roots : x \in Int /\ x + 4 <= FirstBlock
  BY HeapShape DEF Roots
<1>4. FirstBlock \in Int /\ FirstBlock <= End(h)
  BY HeapShape DEF Tiling
<1>5. End(k) = End(h) /\ \A a \in Words : a \in Links(X) \/ k.mem[a] = g.mem[a]
  BY DEF Same, End
<1>6. \A a \in Links(X) : \E x \in X : a = x + 1 \/ a = x + 2
  BY DEF Links
<1>7. ASSUME NEW d \in T, NEW a \in d..After(h, d)-1, a \in Links(X)
      PROVE  d \in X /\ (a = d + 1 \/ a = d + 2)
  <2>1. PICK x \in X : a = x + 1 \/ a = x + 2
    BY <1>6, <1>7
  <2>2. CASE x \in Roots
    BY <1>1, <1>3, <1>4, <2>1, <2>2
  <2>3. CASE x \in T
    <3>1. (d <= x \/ After(h, x) <= d) /\ (x <= d \/ After(h, d) <= x)
      BY <1>2, <2>3
    <3>2. x = d
      BY <1>1, <2>1, <2>3, <3>1
    <3> QED
      BY <2>1, <3>2
  <2> QED
    BY <2>2, <2>3
<1>8. ASSUME NEW d \in T
      PROVE  k.mem[d] = g.mem[d] /\ k.mem[After(h, d) - 1] = g.mem[After(h, d) - 1]
  <2>1. d \in d..After(h, d)-1 /\ After(h, d) - 1 \in d..After(h, d)-1
    BY <1>1
  <2>2. d \notin Links(X) /\ After(h, d) - 1 \notin Links(X)
    BY <1>1, <1>7, <2>1
  <2> QED
    BY <1>1, <1>5, <2>1, <2>2
<1>9. k.mem[End(h)] = g.mem[End(h)]
  <2>1. End(h) \notin Links(X)
    BY <1>1, <1>3, <1>4, <1>6
  <2> QED
    BY <1>1, <1>5, <2>1
<1>10. ASSUME NEW d \in T \ X, NEW a \in d..After(h, d)-1
       PROVE  k.mem[a] = g.mem[a]
  BY <1>1, <1>5, <1>7
<1> QED
  BY <1>5, <1>8, <1>9, <1>10

\* Heaps with the same headers have the same blocks.
LEMMA SameHeaders ==
  ASSUME NEW h, NEW k, NEW T, Tiling(h, T), End(k) = End(h),
         \A x \in T \cup {End(h)} : k.mem[x] = h.mem[x]
  PROVE  /\ Tiling(k, T)
         /\ Tagged(h, T) => Tagged(k, T)
         /\ FreeIn(k, T) = FreeIn(h, T)
         /\ \A x \in T \cup {End(h)} : /\ Size(k, x) = Size(h, x) /\ After(k, x) = After(h, x)
                                       /\ IsFree(k, x) <=> IsFree(h, x)
<1>1. \A x \in T \cup {End(h)} : /\ Size(k, x) = Size(h, x) /\ After(k, x) = After(h, x)
                                 /\ IsFree(k, x) <=> IsFree(h, x)
  BY DEF Size, After, IsFree
<1>2. Tiling(k, T)
  BY <1>1 DEF Tiling
<1>3. FreeIn(k, T) = FreeIn(h, T)
  BY <1>1 DEF FreeIn
<1>4. ASSUME Tagged(h, T)
      PROVE  Tagged(k, T)
  <2>1. \A b \in T : After(h, b) \in T \cup {End(h)}
    BY DEF Tiling
  <2>2. FirstBlock \in T \cup {End(h)}
    BY DEF Tiling
  <2>3. \A b \in T : k.mem[After(k, b)] = h.mem[After(h, b)] /\ k.mem[b] = h.mem[b]
    BY <1>1, <2>1
  <2>4. Size(k, End(k)) = Size(h, End(h)) /\ (IsFree(k, End(k)) <=> IsFree(h, End(h)))
    BY <1>1
  <2> QED
    BY <1>4, <2>2, <2>3, <2>4 DEF Tagged
<1> QED
  BY <1>1, <1>2, <1>3, <1>4

\* The blocks from s up to e are made one.
Joined(T, s, e) == {t \in T : t <= s \/ e <= t}

\* Tiles that are joined to one are tiles again.
LEMMA JoinedTiles ==
  ASSUME NEW h \in Heap, NEW k \in Heap, NEW T, Tiling(h, T), Tagged(h, T),
         NEW s \in T, NEW e \in T \cup {End(h)}, s < e, (e - s) % 2 = 0, NEW a \in Bit,
         End(k) = End(h),
         Size(k, s) = e - s, check_alloc(k.mem[s]) = a,
         check_prev_alloc(k.mem[s]) = check_prev_alloc(h.mem[s]),
         Size(k, e) = Size(h, e), check_alloc(k.mem[e]) = check_alloc(h.mem[e]),
         check_prev_alloc(k.mem[e]) = a,
         \A x \in T \cup {End(h)} : x < s \/ e < x => k.mem[x] = h.mem[x]
  PROVE  Tiling(k, Joined(T, s, e)) /\ Tagged(k, Joined(T, s, e))
<1> DEFINE U == Joined(T, s, e)
           E == End(h)
<1>1. /\ E \in Int /\ FirstBlock \in Int /\ FirstBlock <= E
      /\ \A b \in T : /\ b \in Int /\ b < E /\ FirstBlock <= b /\ After(h, b) \in Int
                      /\ After(h, b) <= E /\ b + 4 <= After(h, b) /\ Size(h, b) \in Int
  BY TilingType, HeapShape DEF Tiling
<1>2. /\ FirstBlock \in T \cup {E}
      /\ \A b \in T : /\ Size(h, b) >= 4 /\ Size(h, b) % 2 = 0 /\ After(h, b) \in T \cup {E}
                      /\ \A t \in T \cup {E} : t <= b \/ After(h, b) <= t
  BY DEF Tiling
<1>3. U \subseteq T /\ s \in U /\ e \in U \cup {E} /\ e \in Int /\ s \in Int /\ e <= E
      /\ \A t \in U : t <= s \/ e <= t
  BY <1>1 DEF Joined
<1> HIDE DEF E
<1>4. s + 4 <= e
  BY <1>1, <1>2, <1>3
<1>5. \A b \in U : b # s => Size(k, b) = Size(h, b) /\ After(k, b) = After(h, b)
                            /\ check_alloc(k.mem[b]) = check_alloc(h.mem[b])
  <2> SUFFICES ASSUME NEW b \in U, b # s
               PROVE  Size(k, b) = Size(h, b) /\ check_alloc(k.mem[b]) = check_alloc(h.mem[b])
    BY DEF After
  <2>0. b \in T /\ b \in Int /\ (b <= s \/ e <= b) /\ e \in Int /\ s \in Int
    BY <1>1, <1>3
  <2>1. b = e \/ b < s \/ e < b
    BY <2>0
  <2>2. CASE b = e
    BY <2>2
  <2>3. CASE b # e
    <3>1. k.mem[b] = h.mem[b]
      BY <1>3, <2>1, <2>3 DEF E
    <3> QED
      BY <3>1 DEF Size
  <2> QED
    BY <2>2, <2>3
<1>6. After(k, s) = e
  BY <1>1, <1>3 DEF After
<1>7. \A b \in U : b # s => /\ After(h, b) \in U \cup {E}
                            /\ After(h, b) <= s \/ e < After(h, b)
  <2> SUFFICES ASSUME NEW b \in U, b # s
               PROVE  After(h, b) \in U \cup {E} /\ (After(h, b) <= s \/ e < After(h, b))
    OBVIOUS
  <2>0. b \in T /\ b \in Int /\ (b <= s \/ e <= b) /\ e \in Int /\ s \in Int
    BY <1>1, <1>3
  <2>1. b < s \/ e <= b
    BY <2>0
  <2>2. CASE b < s
    <3>1. After(h, b) <= s
      <4>1. s <= b \/ After(h, b) <= s
        BY <1>2, <2>0
      <4> QED
        BY <2>0, <2>2, <4>1
    <3>2. After(h, b) \in U
      BY <1>1, <1>2, <1>3, <3>1 DEF Joined
    <3> QED
      BY <3>1, <3>2
  <2>3. CASE e <= b
    BY <1>1, <1>2, <1>3, <2>3 DEF Joined
  <2> QED
    BY <2>1, <2>2, <2>3
<1>8. FirstBlock \in U \cup {E} /\ FirstBlock <= s /\ FirstBlock < e
  BY <1>1, <1>2, <1>3 DEF Joined
<1> HIDE DEF U
<1>9. Tiling(k, U)
  <2>1. U \subseteq FirstBlock..E-1
    BY <1>1, <1>3
  <2>2. ASSUME NEW b \in U
        PROVE  /\ Size(k, b) >= 4 /\ Size(k, b) % 2 = 0
               /\ After(k, b) \in U \cup {E}
               /\ \A t \in U \cup {E} : t <= b \/ After(k, b) <= t
    <3>1. CASE b = s
      BY <1>1, <1>3, <1>4, <1>6, <3>1
    <3>2. CASE b # s
      <4>1. \A t \in U \cup {E} : t \in T \cup {E}
        BY <1>3
      <4> QED
        BY <1>2, <1>3, <1>5, <1>7, <3>2, <4>1
    <3> QED
      BY <3>1, <3>2
  <2> QED
    BY <1>1, <1>8, <2>1, <2>2 DEF Tiling, E
<1>10. Tagged(k, U)
  <2>1. Size(k, E) = 0 /\ ~IsFree(k, E)
    <3>1. Size(h, E) = 0 /\ ~IsFree(h, E)
      BY DEF Tagged, E
    <3>2. CASE e = E
      BY <3>1, <3>2 DEF IsFree
    <3>3. CASE e # E
      <4>1. k.mem[E] = h.mem[E]
        BY <1>1, <1>3, <3>3 DEF E
      <4> QED
        BY <3>1, <4>1 DEF IsFree, Size
    <3> QED
      BY <3>2, <3>3
  <2>2. check_prev_alloc(k.mem[FirstBlock]) = 1
    <3>1. check_prev_alloc(h.mem[FirstBlock]) = 1
      BY DEF Tagged
    <3>2. FirstBlock = s \/ FirstBlock < s
      BY <1>1, <1>3, <1>8
    <3>3. FirstBlock < s => k.mem[FirstBlock] = h.mem[FirstBlock]
      BY <1>2 DEF E
    <3> QED
      BY <3>1, <3>2, <3>3
  <2>3. ASSUME NEW b \in U
        PROVE  check_prev_alloc(k.mem[After(k, b)]) = check_alloc(k.mem[b])
    <3>1. CASE b = s
      BY <1>6, <3>1
    <3>2. CASE b # s
      <4>1. check_prev_alloc(h.mem[After(h, b)]) = check_alloc(h.mem[b])
        BY <1>3 DEF Tagged
      <4>2. check_prev_alloc(k.mem[After(h, b)]) = check_prev_alloc(h.mem[After(h, b)])
        <5>1. After(h, b) = s \/ After(h, b) < s \/ e < After(h, b)
          BY <1>1, <1>3, <1>7, <3>2
        <5>2. After(h, b) \in T \cup {E}
          BY <1>2, <1>3
        <5> QED
          BY <5>1, <5>2 DEF E
      <4> QED
        BY <1>5, <3>2, <4>1, <4>2
    <3> QED
      BY <3>1, <3>2
  <2> QED
    BY <2>1, <2>2, <2>3 DEF Tagged, E
<1> QED
  BY <1>9, <1>10 DEF U

\* A free block is cut at l: its first part is allocated, the other is free.
LEMMA CutTiles ==
  ASSUME NEW h \in Heap, NEW k \in Heap, NEW T, Tiling(h, T), Tagged(h, T),
         NEW b \in T, IsFree(h, b), NEW l \in Int, b + 4 <= l, l + 4 <= After(h, b), (l - b) % 2 = 0,
         End(k) = End(h),
         Size(k, b) = l - b, check_alloc(k.mem[b]) = 1,
         check_prev_alloc(k.mem[b]) = check_prev_alloc(h.mem[b]),
         Size(k, l) = After(h, b) - l, check_alloc(k.mem[l]) = 0, check_prev_alloc(k.mem[l]) = 1,
         \A x \in T \cup {End(h)} : x # b => k.mem[x] = h.mem[x]
  PROVE  Tiling(k, T \cup {l}) /\ Tagged(k, T \cup {l}) /\ l \notin T
<1> DEFINE U == T \cup {l}
           E == End(h)
<1>1. /\ E \in Int /\ FirstBlock \in Int /\ FirstBlock <= E
      /\ \A x \in T : /\ x \in Int /\ x < E /\ FirstBlock <= x /\ After(h, x) \in Int
                      /\ After(h, x) <= E /\ x + 4 <= After(h, x) /\ Size(h, x) \in Int
  BY TilingType, HeapShape DEF Tiling
<1>2. /\ FirstBlock \in T \cup {E}
      /\ \A x \in T : /\ Size(h, x) >= 4 /\ Size(h, x) % 2 = 0 /\ After(h, x) \in T \cup {E}
                      /\ \A t \in T \cup {E} : t <= x \/ After(h, x) <= t
  BY DEF Tiling
<1> HIDE DEF E
<1>3. /\ b < l /\ l < After(h, b) /\ l < E /\ FirstBlock <= l /\ l \notin T /\ l # E
      /\ FirstBlock # l
  BY <1>1, <1>2
<1>4. ASSUME NEW x \in T, x # b PROVE x < b \/ After(h, b) <= x
  <2>1. x \in Int /\ b \in Int /\ (x <= b \/ After(h, b) <= x)
    BY <1>1, <1>2
  <2> QED
    BY <1>4, <2>1
<1>5. \A x \in T : x # b => /\ Size(k, x) = Size(h, x) /\ After(k, x) = After(h, x)
                            /\ check_alloc(k.mem[x]) = check_alloc(h.mem[x])
  BY DEF Size, After
<1>6. After(k, b) = l /\ After(k, l) = After(h, b)
  BY <1>1 DEF After
<1>7. (After(h, b) - l) % 2 = 0
  <2>1. Size(h, b) \in Int /\ b \in Int /\ Size(h, b) % 2 = 0
    BY <1>1, <1>2
  <2>2. After(h, b) - l = Size(h, b) - (l - b)
    BY <2>1 DEF After
  <2>3. \A m, n \in Int : m % 2 = 0 /\ n % 2 = 0 => (m - n) % 2 = 0
    OBVIOUS
  <2>4. l - b \in Int
    BY <2>1
  <2> QED
    BY <2>1, <2>2, <2>3, <2>4
<1>8. Tiling(k, U)
  <2>1. ASSUME NEW x \in T, x # b
        PROVE  /\ Size(k, x) >= 4 /\ Size(k, x) % 2 = 0
               /\ After(k, x) \in U \cup {E}
               /\ \A t \in U \cup {E} : t <= x \/ After(k, x) <= t
    <3>1. l <= x \/ After(h, x) <= l
      BY <1>1, <1>2, <1>3, <1>4, <2>1
    <3> QED
      BY <1>2, <1>5, <2>1, <3>1
  <2>2. /\ Size(k, b) >= 4 /\ Size(k, b) % 2 = 0
        /\ After(k, b) \in U \cup {E}
        /\ \A t \in U \cup {E} : t <= b \/ After(k, b) <= t
    BY <1>1, <1>2, <1>3, <1>6
  <2>3. /\ Size(k, l) >= 4 /\ Size(k, l) % 2 = 0
        /\ After(k, l) \in U \cup {E}
        /\ \A t \in U \cup {E} : t <= l \/ After(k, l) <= t
    BY <1>1, <1>2, <1>3, <1>6, <1>7
  <2>4. U \subseteq FirstBlock..E-1
    BY <1>1, <1>3
  <2> QED
    BY <1>1, <1>2, <2>1, <2>2, <2>3, <2>4 DEF Tiling, E
<1>9. Tagged(k, U)
  <2>0. \A x \in T \cup {E} : check_prev_alloc(k.mem[x]) = check_prev_alloc(h.mem[x])
    BY DEF E
  <2>1. Size(k, E) = 0 /\ ~IsFree(k, E)
    <3>1. E # b /\ k.mem[E] = h.mem[E]
      BY <1>1 DEF E
    <3> QED
      BY <3>1 DEF Tagged, E, Size, IsFree
  <2>2. check_prev_alloc(k.mem[FirstBlock]) = 1
    BY <1>2, <2>0 DEF Tagged
  <2>3. ASSUME NEW x \in T
        PROVE  check_prev_alloc(h.mem[After(h, x)]) = check_alloc(h.mem[x])
               /\ check_prev_alloc(k.mem[After(h, x)]) = check_prev_alloc(h.mem[After(h, x)])
    BY <1>2, <2>0 DEF Tagged
  <2>4. ASSUME NEW x \in U
        PROVE  check_prev_alloc(k.mem[After(k, x)]) = check_alloc(k.mem[x])
    <3>1. CASE x = b
      BY <1>6, <3>1
    <3>2. CASE x = l
      <4>1. check_alloc(h.mem[b]) = 0
        BY DEF IsFree
      <4> QED
        BY <1>6, <2>3, <3>2, <4>1
    <3>3. CASE x # b /\ x # l
      BY <1>5, <2>3, <3>3
    <3> QED
      BY <3>1, <3>2, <3>3
  <2> QED
    BY <2>1, <2>2, <2>4 DEF Tagged, E
<1> QED
  BY <1>3, <1>8, <1>9

\* Writing no links leaves the lists: other words of blocks may change.
LEMMA ListsElsewhere ==
  ASSUME NEW h \in Heap, NEW T, Tiling(h, T),
         NEW g \in Heap, NEW k \in Heap, NEW G, G \subseteq T, NEW K, Lists(g, G, K),
         \A a \in Words : \/ k.mem[a] = g.mem[a]
                          \/ a \in T \cup {End(h)}
                          \/ \E d \in T : a \in d+3..After(h, d)-1
  PROVE  Lists(k, G, K)
<1>1. /\ End(h) \in Int /\ FirstBlock \in Int /\ FirstBlock <= End(h) /\ End(h) \in Words
      /\ \A b \in T : /\ b \in Words /\ b \in Int /\ b < End(h) /\ FirstBlock <= b
                      /\ After(h, b) \in Int /\ After(h, b) <= End(h) /\ b + 4 <= After(h, b)
                      /\ b..After(h, b)-1 \subseteq Words
  BY TilingType, HeapShape DEF Tiling
<1>2. \A b \in T, t \in T \cup {End(h)} : t <= b \/ After(h, b) <= t
  BY DEF Tiling
<1>3. \A x \in Roots : x \in Int /\ x + 4 <= FirstBlock /\ x > 0
  BY HeapShape DEF Roots
<1>4. FirstBlock <= MAX_HEAP
  BY <1>1, HeapShape DEF Words
<1>5. ASSUME NEW x \in G \cup Roots, NEW i \in {1, 2}
      PROVE  k.mem[x + i] = g.mem[x + i]
  <2>1. CASE x \in Roots
    <3>1. x + i \in Words /\ x + i < FirstBlock
      BY <1>3, <1>4, <2>1, HeapShape DEF Words
    <3>2. x + i \notin T \cup {End(h)} /\ \A d \in T : x + i \notin d+3..After(h, d)-1
      BY <1>1, <1>3, <2>1, <3>1
    <3> QED
      BY <3>1, <3>2
  <2>2. CASE x \in G
    <3>1. x \in T /\ x \in Int /\ x + i < x + 3 /\ x < x + i /\ x + i \in Words
      BY <1>1, <2>2
    <3>2. x + i \notin T \cup {End(h)}
      BY <1>1, <1>2, <3>1
    <3>3. ASSUME NEW d \in T, x + i \in d+3..After(h, d)-1 PROVE FALSE
      <4>1. (x <= d \/ After(h, d) <= x) /\ (d <= x \/ After(h, x) <= d)
        BY <1>2, <3>1
      <4> QED
        BY <1>1, <3>1, <3>3, <4>1
    <3> QED
      BY <3>1, <3>2, <3>3
  <2> QED
    BY <2>1, <2>2
<1> QED
  BY <1>4, <1>5, ListsKept

-----------------------------------------------------------------------------
(* The operations.  A heap is whole when its blocks tile it, the bits and  *)
(* footers agree with the headers, no two free blocks touch and the lists  *)
(* hold the free blocks by their sizes.                                    *)
Kinds(h) == [b \in Words |-> choose_list(Size(h, b))]
Untouched(h, F) == \A b \in F : After(h, b) \notin F

Whole(h, T) ==
  /\ h \in Heap /\ Tiling(h, T) /\ Tagged(h, T)
  /\ Footed(h, FreeIn(h, T))
  /\ Untouched(h, FreeIn(h, T))
  /\ Lists(h, FreeIn(h, T), Kinds(h))

Allocated(h, T) == T \ FreeIn(h, T)

\* The blocks D keep their sizes and all but their headers.
Kept(h, k, D) ==
  \A d \in D : /\ Size(k, d) = Size(h, d)
               /\ \A a \in d+1..After(h, d)-1 : k.mem[a] = h.mem[a]

\* A packed word that is written is read back from the heap.
LEMMA WroteHeader ==
  ASSUME NEW h \in Heap, NEW a \in Words, NEW v \in Int, NEW p \in Bit, NEW q \in Bit,
         NEW k, k = Put(h, a, PACK(v, p, q))
  PROVE  /\ Wrote(h, a, PACK(v, p, q), k)
         /\ Size(k, a) = v /\ check_prev_alloc(k.mem[a]) = p /\ check_alloc(k.mem[a]) = q
<1>1. PACK(v, p, q) \in Int
  BY PackReads
<1>2. Wrote(h, a, PACK(v, p, q), k)
  BY <1>1, PutFacts
<1>3. k.mem[a] = PACK(v, p, q)
  BY <1>2 DEF Wrote
<1> QED
  BY <1>2, <1>3, PackReads DEF Size

\* The bits and the size of a header.
LEMMA BitsOf ==
  ASSUME NEW h \in Heap, NEW a \in Words
  PROVE  /\ check_prev_alloc(h.mem[a]) \in Bit /\ check_alloc(h.mem[a]) \in Bit
         /\ Size(h, a) \in Int /\ (~IsFree(h, a) <=> check_alloc(h.mem[a]) = 1)
<1>1. h.mem[a] \in Int
  BY HeapType
<1> QED
  BY <1>1, ReadsType DEF Size, IsFree, Bit

\* What the next block, which is not free, is told.
LEMMA NextTold ==
  ASSUME NEW h \in Heap, NEW b, NEW n \in Words, n = After(h, b), ~IsFree(h, n), NEW p \in Bit
  PROVE  write_next_hf(h, b, p) = Put(h, n, PACK(Size(h, n), p, 1))
<1>1. Size(h, n) \in Int /\ check_alloc(h.mem[n]) = 1
  BY BitsOf
<1>2. check_alloc(PACK(Size(h, n), p, 1)) = 1
  BY <1>1, PackReads DEF Bit
<1> QED
  BY <1>1, <1>2 DEF write_next_hf, After

\* The classes that Kinds gives are those of the sizes.
LEMMA KindsSized ==
  ASSUME NEW h \in Heap, NEW T, Tiling(h, T), NEW G \in SUBSET T
  PROVE  Sized(h, G, Kinds(h))
BY TilingType DEF Sized, Kinds

\* Lists by other sizes that agree on their blocks.
LEMMA ListsKinds ==
  ASSUME NEW h, NEW G, NEW g, NEW k, Lists(k, G, Kinds(h)), \A b \in G : Size(g, b) = Size(h, b)
  PROVE  Lists(k, G, Kinds(g))
<1>1. G \subseteq Words
  BY DEF Lists, Separate
<1>2. \A b \in G : Kinds(g)[b] = Kinds(h)[b]
  BY <1>1 DEF Kinds
<1> QED
  BY <1>2, ListsSame

-----------------------------------------------------------------------------
\* Every word of a block lies in that block only.
LEMMA OwnWords ==
  ASSUME NEW h \in Heap, NEW T, Tiling(h, T), NEW b \in T, NEW a \in b..After(h, b)-1
  PROVE  /\ a \in Int /\ a \in Words /\ a # End(h)
         /\ a # b => a \notin T \cup {End(h)}
         /\ \A d \in T : d # b => a \notin d..After(h, d)-1
<1>1. /\ End(h) \in Int
      /\ \A x \in T : /\ x \in Int /\ x < End(h) /\ After(h, x) \in Int
                      /\ After(h, x) <= End(h) /\ x + 4 <= After(h, x)
  BY TilingType
<1>2. \A x \in T, t \in T \cup {End(h)} : t <= x \/ After(h, x) <= t
  BY DEF Tiling
<1>3. a \in Int /\ a \in Words /\ b <= a /\ a < After(h, b) /\ a # End(h)
  BY <1>1, TilingType
<1>4. ASSUME NEW d \in T, d # b
      PROVE  a \notin d..After(h, d)-1 /\ a # d
  <2>1. (b <= d \/ After(h, d) <= b) /\ (d <= b \/ After(h, b) <= d)
    BY <1>2
  <2> QED
    BY <1>1, <1>3, <1>4, <2>1
<1> QED
  BY <1>3, <1>4

\* A free block that may be allocated: its own footer may be overwritten.
Grantable(h, T, b) ==
  /\ h \in Heap /\ Tiling(h, T) /\ Tagged(h, T)
  /\ b \in FreeIn(h, T)
  /\ Footed(h, FreeIn(h, T) \ {b})
  /\ Untouched(h, FreeIn(h, T))
  /\ Lists(h, FreeIn(h, T), Kinds(h))

\* In k, b is allocated, of the size asked for, and nothing else has changed.
Granted(h, T, b, words, k) ==
  \E U : /\ Whole(k, U) /\ Allocated(k, U) = Allocated(h, T) \cup {b} /\ k.brk = h.brk
         /\ Size(k, b) >= words /\ Kept(h, k, Allocated(h, T))
         /\ \A a \in b+3..b+words-1 : k.mem[a] = h.mem[a]

\* allocate_block without a split.
LEMMA AllocateAll ==
  ASSUME NEW h, NEW T, NEW b, Grantable(h, T, b),
         NEW words \in Int, Size(h, b) >= words, ~CanSplit(h, b, words)
  PROVE  Granted(h, T, b, words, allocate_block(h, b, words))
<1> DEFINE F == FreeIn(h, T)
           k == allocate_block(h, b, words)
<1>a. F = FreeIn(h, T) /\ k = allocate_block(h, b, words)
  OBVIOUS
<1>b. /\ h \in Heap /\ Tiling(h, T) /\ Tagged(h, T) /\ b \in F
      /\ Footed(h, F \ {b}) /\ Untouched(h, F) /\ Lists(h, F, Kinds(h))
  BY DEF Grantable
<1> HIDE DEF F, k
<1> USE <1>a, <1>b
<1> DEFINE n == After(h, b)
           w == PACK(Size(h, b), check_prev_alloc(h.mem[b]), 1)
           h1 == Put(h, b, w)
           h2 == write_next_hf(h1, b, 1)
           E == End(h)
<1>1. k = Unlink(h2, b)
  BY DEF allocate_block
<1>2. b \in T /\ F \subseteq T /\ IsFree(h, b)
  BY DEF FreeIn
<1>3. /\ b \in Words /\ n \in Words /\ n \in T \cup {E} /\ b \in Int /\ n \in Int /\ b < n
      /\ \A x \in T : x \in Words /\ x \in Int
      /\ E \in Int /\ E \in Words
  <2>1. n \in T \cup {E}
    BY <1>2 DEF Tiling
  <2>2. /\ E \in Words /\ E \in Int
        /\ \A x \in T : /\ x \in Words /\ x \in Int /\ After(h, x) \in Words
                        /\ After(h, x) \in Int /\ x + 4 <= After(h, x)
    BY TilingType
  <2> HIDE DEF n, E
  <2>3. n \in Words /\ n \in Int /\ b + 4 <= n
    BY <1>2, <2>2 DEF n
  <2> QED
    BY <1>2, <2>1, <2>2, <2>3
<1>4. ~IsFree(h, n)
  BY <1>2, <1>3 DEF Untouched, Tagged, FreeIn
<1>5. /\ check_prev_alloc(h.mem[b]) \in Bit /\ Size(h, b) \in Int
      /\ Size(h, n) \in Int /\ check_alloc(h.mem[n]) = 1
  BY <1>3, <1>4, BitsOf
<1> HIDE DEF n, E
<1>6. /\ Wrote(h, b, w, h1) /\ Size(h1, b) = Size(h, b) /\ check_alloc(h1.mem[b]) = 1
      /\ check_prev_alloc(h1.mem[b]) = check_prev_alloc(h.mem[b])
  BY <1>3, <1>5, WroteHeader DEF Bit
<1> HIDE DEF w, h1
<1>7. h1 \in Heap /\ h1.mem[n] = h.mem[n] /\ n = After(h1, b)
  BY <1>3, <1>6 DEF Wrote, After, n
<1>8. Size(h1, n) = Size(h, n) /\ ~IsFree(h1, n)
  BY <1>4, <1>7 DEF Size, IsFree
<1>9. h2 = Put(h1, n, PACK(Size(h, n), 1, 1))
  BY <1>3, <1>7, <1>8, NextTold DEF Bit
<1> HIDE DEF h2
<1>10. /\ Wrote(h1, n, PACK(Size(h, n), 1, 1), h2) /\ Size(h2, n) = Size(h, n)
       /\ check_alloc(h2.mem[n]) = 1 /\ check_prev_alloc(h2.mem[n]) = 1
  BY <1>3, <1>5, <1>7, <1>9, WroteHeader DEF Bit
<1>11. /\ h2 \in Heap /\ h2.brk = h.brk /\ h2.mem[b] = h1.mem[b]
       /\ \A x \in Words : x = b \/ x = n \/ h2.mem[x] = h.mem[x]
  BY <1>3, <1>6, <1>10 DEF Wrote
<1>12. Size(h2, b) = n - b /\ n - b = Size(h, b) /\ Size(h2, b) = Size(h, b)
  BY <1>3, <1>5, <1>6, <1>11 DEF After, n, Size
<1>13. (n - b) % 2 = 0
  BY <1>2, <1>12 DEF Tiling
<1>14. Joined(T, b, n) = T
  BY <1>2 DEF Joined, Tiling, n
<1>15. End(h2) = E /\ E = End(h)
  BY <1>11 DEF End, E
<1>16. Tiling(h2, T) /\ Tagged(h2, T)
  <2>1. \A x \in T \cup {E} : x < b \/ n < x => h2.mem[x] = h.mem[x]
    BY <1>3, <1>11
  <2>2. Size(h2, n) = Size(h, n) /\ check_alloc(h2.mem[n]) = check_alloc(h.mem[n])
    BY <1>5, <1>10
  <2>3. check_alloc(h2.mem[b]) = 1 /\ check_prev_alloc(h2.mem[b]) = check_prev_alloc(h.mem[b])
    BY <1>6, <1>11
  <2> QED
    BY <1>2, <1>3, <1>10, <1>11, <1>12, <1>13, <1>14, <1>15, <2>1, <2>2, <2>3, JoinedTiles DEF Bit
<1>17. \A x \in T \cup {E} : Size(h2, x) = Size(h, x) /\ After(h2, x) = After(h, x)
  <2>1. \A x \in T \cup {E} : Size(h2, x) = Size(h, x)
    BY <1>3, <1>10, <1>11, <1>12 DEF Size
  <2> QED
    BY <2>1 DEF After
<1>18. FreeIn(h2, T) = F \ {b}
  <2>1. ~IsFree(h2, b) /\ ~IsFree(h2, n) /\ ~IsFree(h, n)
    BY <1>4, <1>6, <1>10, <1>11 DEF IsFree
  <2>2. \A x \in T : x = b \/ x = n \/ (IsFree(h2, x) <=> IsFree(h, x))
    BY <1>3, <1>11 DEF IsFree
  <2> QED
    BY <2>1, <2>2 DEF FreeIn
<1>19. Lists(h2, F, Kinds(h))
  <2>1. \A a \in Words : h2.mem[a] = h.mem[a] \/ a \in T \cup {E}
    BY <1>2, <1>3, <1>11
  <2> QED
    BY <1>2, <1>11, <2>1, ListsElsewhere DEF E
<1>20. k \in Heap /\ Lists(k, F \ {b}, Kinds(h)) /\ Same(h2, k, Links((F \ {b}) \cup Roots))
  BY <1>1, <1>11, <1>19, UnlinkLists
<1> DEFINE X == (F \ {b}) \cup Roots
<1>21. X \subseteq T \cup Roots
  BY <1>2
<1> HIDE DEF X
<1>22. /\ End(k) = E
       /\ \A x \in T \cup {E} : k.mem[x] = h2.mem[x]
       /\ \A d \in T : k.mem[After(h2, d) - 1] = h2.mem[After(h2, d) - 1]
       /\ \A d \in T \ X : \A a \in d..After(h2, d)-1 : k.mem[a] = h2.mem[a]
  BY <1>11, <1>15, <1>16, <1>20, <1>21, LinksFrame DEF X
<1>23. /\ Tiling(k, T) /\ Tagged(k, T) /\ FreeIn(k, T) = F \ {b}
       /\ \A x \in T \cup {E} : Size(k, x) = Size(h, x) /\ After(k, x) = After(h, x)
  <2>1. /\ Tiling(k, T) /\ Tagged(k, T) /\ FreeIn(k, T) = FreeIn(h2, T)
        /\ \A x \in T \cup {E} : Size(k, x) = Size(h2, x) /\ After(k, x) = After(h2, x)
    BY <1>15, <1>16, <1>22, SameHeaders
  <2> QED
    BY <1>17, <1>18, <2>1
<1>24. Footed(k, F \ {b})
  <2>1. ASSUME NEW d \in F \ {b}
        PROVE  k.mem[After(h, d) - 1] = h.mem[After(h, d) - 1]
    <3>1. d \in T /\ d # b /\ After(h, d) - 1 \in d..After(h, d)-1 /\ After(h, d) - 1 # d
      BY <1>2, TilingType
    <3>2. After(h, d) - 1 \notin T \cup {E}
      BY <1>2, <3>1, OwnWords DEF E
    <3>3. After(h, d) - 1 \in Words
      BY <3>1, TilingType
    <3>4. h2.mem[After(h, d) - 1] = h.mem[After(h, d) - 1]
      BY <1>2, <1>3, <1>11, <3>2, <3>3
    <3> QED
      BY <1>17, <1>22, <3>1, <3>4
  <2>2. \A d \in F \ {b} : Size(k, d) = Size(h, d) /\ After(k, d) = After(h, d)
    BY <1>2, <1>23
  <2> QED
    BY <2>1, <2>2 DEF Footed
<1>25. Untouched(k, F \ {b})
  BY <1>2, <1>23 DEF Untouched
<1>26. Lists(k, F \ {b}, Kinds(k))
  <2>1. \A x \in F \ {b} : Size(k, x) = Size(h, x)
    BY <1>2, <1>23
  <2> QED
    BY <1>20, <2>1, ListsKinds
<1>27. Whole(k, T)
  BY <1>20, <1>23, <1>24, <1>25, <1>26 DEF Whole
<1>28. ASSUME NEW d \in (T \ F) \cup {b}, NEW a \in d+1..After(h, d)-1
       PROVE  k.mem[a] = h.mem[a]
  <2>1. d \in T /\ d \notin X
    <3>1. d \in T /\ d \notin F \ {b}
      BY <1>2
    <3>2. d \notin Roots
      <4>1. FirstBlock <= d /\ d \in Int
        BY <3>1, TilingType
      <4> QED
        BY <4>1, HeapShape DEF Roots
    <3> QED
      BY <3>1, <3>2 DEF X
  <2>2. a \in d..After(h, d)-1 /\ a # d /\ d..After(h, d)-1 \subseteq Words
    BY <2>1, TilingType
  <2>3. a \notin T \cup {E}
    BY <2>1, <2>2, OwnWords DEF E
  <2>4. h2.mem[a] = h.mem[a]
    BY <1>2, <1>3, <1>11, <2>2, <2>3
  <2> QED
    BY <1>17, <1>22, <2>1, <2>2, <2>4
<1>29. Kept(h, k, T \ F)
  BY <1>23, <1>28 DEF Kept
<1>30. \A a \in b+3..After(h, b)-1 : k.mem[a] = h.mem[a]
  <2>1. b+3..After(h, b)-1 \subseteq b+1..After(h, b)-1
    BY <1>3
  <2> QED
    BY <1>28, <2>1
<1>31. k.brk = h.brk
  BY <1>11, <1>20 DEF Same
<1>32. Allocated(k, T) = Allocated(h, T) \cup {b}
  BY <1>2, <1>23 DEF Allocated
<1>33. \A a \in b+3..b+words-1 : k.mem[a] = h.mem[a]
  <2>1. Size(h, b) \in Int /\ After(h, b) = b + Size(h, b) /\ b \in Int
    BY <1>3, <1>5 DEF After
  <2>2. \A a \in b+3..b+words-1 : a \in b+3..After(h, b)-1
    BY <2>1
  <2> QED
    BY <1>30, <2>2
<1>34. Size(k, b) >= words
  BY <1>2, <1>23
<1>35. Kept(h, k, Allocated(h, T))
  BY <1>29 DEF Allocated
<1> QED
  BY <1>27, <1>31, <1>32, <1>33, <1>34, <1>35 DEF Granted

\* allocate_block with a split.
LEMMA AllocateSplit ==
  ASSUME NEW h, NEW T, NEW b, Grantable(h, T, b),
         NEW words \in Int, words >= 4, words % 2 = 0, CanSplit(h, b, words)
  PROVE  Granted(h, T, b, words, allocate_block(h, b, words))
<1> DEFINE F == FreeIn(h, T)
           k == allocate_block(h, b, words)
<1>a. F = FreeIn(h, T) /\ k = allocate_block(h, b, words)
  OBVIOUS
<1>b. /\ h \in Heap /\ Tiling(h, T) /\ Tagged(h, T) /\ b \in F
      /\ Footed(h, F \ {b}) /\ Untouched(h, F) /\ Lists(h, F, Kinds(h))
  BY DEF Grantable
<1> HIDE DEF F, k
<1> USE <1>a, <1>b
<1> DEFINE n == After(h, b)
           E == End(h)
           l == b + words
           size == Size(h, b) - words
           w == PACK(words, check_prev_alloc(h.mem[b]), 1)
           v == PACK(size, 1, 0)
           h1 == Put(h, b, w)
           u == Unlink(h1, b)
           h2 == Put(u, l, v)
           h3 == write_footer(h2, l, v)
           U == T \cup {l}
           G == F \ {b}
<1>1. k = place_free_block(h3, l)
  BY DEF allocate_block, split
<1>2. b \in T /\ F \subseteq T /\ IsFree(h, b) /\ G \subseteq T
  BY DEF FreeIn
<1>3. /\ E \in Words /\ E \in Int /\ Separate(T)
      /\ \A x \in T : /\ x \in Words /\ x \in Int /\ After(h, x) \in Words /\ FirstBlock <= x
                      /\ After(h, x) \in Int /\ x + 4 <= After(h, x) /\ Size(h, x) \in Int
                      /\ x..After(h, x)-1 \subseteq Words
  BY TilingType
<1>4. n \in T \cup {E} /\ n \in Words /\ n \in Int /\ b \in Int /\ b \in Words
  BY <1>2, <1>3 DEF Tiling
<1>5. ~IsFree(h, n)
  BY <1>2, <1>4 DEF Untouched, Tagged, FreeIn
<1>6. /\ size \in Int /\ size > 4 /\ l \in Int /\ b + 4 <= l /\ l + 4 <= n /\ n = l + size
      /\ l \in Words /\ n - 1 \in Words /\ n - 1 \in b+3..n-1 /\ l \in b+3..n-1 /\ n - 1 \in l+3..n-1
  <2>1. Size(h, b) \in Int /\ size > 4 /\ n = b + Size(h, b)
    BY <1>2, <1>3 DEF CanSplit, After
  <2>2. b..n-1 \subseteq Words
    BY <1>2, <1>3
  <2> HIDE DEF n
  <2>3. /\ size \in Int /\ l \in Int /\ b + 4 <= l /\ l + 4 <= n /\ n = l + size
        /\ l \in b..n-1 /\ n - 1 \in b..n-1
    BY <1>4, <2>1
  <2> HIDE DEF l, size
  <2> QED
    BY <1>4, <2>1, <2>2, <2>3
<1>7. check_prev_alloc(h.mem[b]) \in Bit
  BY <1>4, BitsOf
<1> HIDE DEF n, E, l, size, G
<1>8. /\ Wrote(h, b, w, h1) /\ Size(h1, b) = words /\ check_alloc(h1.mem[b]) = 1
      /\ check_prev_alloc(h1.mem[b]) = check_prev_alloc(h.mem[b])
  BY <1>4, <1>7, WroteHeader DEF Bit
<1> HIDE DEF w, h1
<1>9. h1 \in Heap /\ h1.brk = h.brk /\ \A x \in Words : x = b \/ h1.mem[x] = h.mem[x]
  BY <1>8 DEF Wrote
<1>10. Lists(h1, F, Kinds(h))
  <2>1. \A a \in Words : h1.mem[a] = h.mem[a] \/ a \in T \cup {End(h)}
    BY <1>2, <1>9
  <2> QED
    BY <1>2, <1>9, <2>1, ListsElsewhere
<1>11. u \in Heap /\ Lists(u, G, Kinds(h)) /\ Same(h1, u, Links(G \cup Roots))
  BY <1>9, <1>10, UnlinkLists DEF G
<1>12. End(h1) = E /\ G \cup Roots \subseteq T \cup Roots
  BY <1>2, <1>9 DEF End, E
<1> HIDE DEF u
<1>13. /\ End(u) = E
       /\ \A x \in T \cup {E} : u.mem[x] = h1.mem[x]
       /\ \A d \in T : u.mem[After(h, d) - 1] = h1.mem[After(h, d) - 1]
       /\ \A d \in T \ (G \cup Roots) : \A a \in d..After(h, d)-1 : u.mem[a] = h1.mem[a]
  BY <1>9, <1>11, <1>12, LinksFrame DEF E
<1>14. /\ Wrote(u, l, v, h2) /\ Size(h2, l) = size /\ check_alloc(h2.mem[l]) = 0
       /\ check_prev_alloc(h2.mem[l]) = 1
  BY <1>6, <1>11, WroteHeader DEF Bit
<1>15. v \in Int /\ get_blockSize(v) = size
  BY <1>6, PackReads DEF Bit
<1>16. h3 = Put(h2, n - 1, v)
  BY <1>6, <1>14 DEF write_footer
<1> HIDE DEF h2, h3, v
<1>17. Wrote(h2, n - 1, v, h3)
  <2>1. h2 \in Heap
    BY <1>14 DEF Wrote
  <2> QED
    BY <1>6, <1>15, <1>16, <2>1, PutFacts
<1>18. /\ h3 \in Heap /\ h3.brk = u.brk
       /\ h3.mem[l] = h2.mem[l] /\ h3.mem[n - 1] = v
       /\ \A x \in Words : x = l \/ x = n - 1 \/ h3.mem[x] = u.mem[x]
  BY <1>4, <1>6, <1>14, <1>17 DEF Wrote
<1>19. End(h3) = E /\ h3.brk = h.brk
  BY <1>9, <1>11, <1>18 DEF End, Same, E
<1>20. \A x \in T \cup {E} : x # b => h3.mem[x] = h.mem[x]
  <2> SUFFICES ASSUME NEW x \in T \cup {E}, x # b PROVE h3.mem[x] = h.mem[x]
    OBVIOUS
  <2>1. x \in Words /\ u.mem[x] = h1.mem[x] /\ h1.mem[x] = h.mem[x]
    BY <1>3, <1>9, <1>13
  <2>2. x # l /\ x # n - 1
    <3>1. l \in b..n-1 /\ n - 1 \in b..n-1 /\ l # b /\ n - 1 # b
      BY <1>4, <1>6
    <3>2. l \notin T \cup {E} /\ n - 1 \notin T \cup {E}
      BY <1>2, <3>1, OwnWords DEF n, E
    <3> QED
      BY <3>2
  <2> QED
    BY <1>18, <2>1, <2>2
<1>21. h3.mem[b] = h1.mem[b]
  BY <1>2, <1>4, <1>6, <1>13, <1>18
<1>22. Tiling(h3, U) /\ Tagged(h3, U) /\ l \notin T
  <2>1. Size(h3, b) = l - b /\ (l - b) % 2 = 0
    BY <1>4, <1>8, <1>21 DEF Size, l
  <2>2. Size(h3, l) = n - l
    BY <1>6, <1>14, <1>18 DEF Size
  <2>3. check_alloc(h3.mem[b]) = 1 /\ check_prev_alloc(h3.mem[b]) = check_prev_alloc(h.mem[b])
    BY <1>8, <1>21
  <2>4. check_alloc(h3.mem[l]) = 0 /\ check_prev_alloc(h3.mem[l]) = 1
    BY <1>14, <1>18
  <2> QED
    BY <1>2, <1>6, <1>18, <1>19, <1>20, <2>1, <2>2, <2>3, <2>4, CutTiles DEF n, E
<1>23. \A x \in T \cup {E} : x # b => Size(h3, x) = Size(h, x) /\ After(h3, x) = After(h, x)
                                      /\ (IsFree(h3, x) <=> IsFree(h, x))
  BY <1>20 DEF Size, After, IsFree
<1>24. FreeIn(h3, U) = G \cup {l}
  <2>1. ~IsFree(h3, b) /\ IsFree(h3, l)
    BY <1>8, <1>14, <1>18, <1>21 DEF IsFree
  <2> QED
    BY <1>2, <1>23, <2>1 DEF FreeIn, G
<1>25. Lists(h3, G, Kinds(h3))
  <2>1. \A a \in Words : \/ h3.mem[a] = u.mem[a]
                         \/ \E d \in T : a \in d+3..After(h, d)-1
    BY <1>2, <1>6, <1>18 DEF n
  <2>2. Lists(h3, G, Kinds(h))
    BY <1>2, <1>11, <1>18, <2>1, ListsElsewhere
  <2>3. \A x \in G : Size(h3, x) = Size(h, x)
    BY <1>2, <1>23 DEF G
  <2> QED
    BY <2>2, <2>3, ListsKinds
<1>26. Separate(G \cup {l})
  <2>1. Separate(U)
    BY <1>18, <1>22, TilingType
  <2> QED
    BY <1>2, <2>1, SeparatePart
<1>27. /\ k \in Heap /\ Lists(k, G \cup {l}, Kinds(h3))
       /\ Same(h3, k, Links((G \cup {l}) \cup Roots))
  <2>1. l \notin G /\ Kinds(h3)[l] = choose_list(Size(h3, l)) /\ Size(h3, l) \in Int
    <3>1. Size(h3, l) \in Int
      BY <1>6, <1>18, SizeType
    <3> QED
      BY <1>2, <1>6, <1>22, <3>1 DEF Kinds
  <2> QED
    BY <1>1, <1>18, <1>25, <1>26, <2>1, PlaceLists
<1> DEFINE X == (G \cup {l}) \cup Roots
<1>28. X \subseteq U \cup Roots
  BY <1>2
<1>29. /\ End(k) = E
       /\ \A x \in U \cup {E} : k.mem[x] = h3.mem[x]
       /\ \A d \in U : k.mem[After(h3, d) - 1] = h3.mem[After(h3, d) - 1]
       /\ \A d \in U \ X : \A a \in d..After(h3, d)-1 : k.mem[a] = h3.mem[a]
  <2> HIDE DEF U
  <2> QED
    BY <1>18, <1>19, <1>22, <1>27, <1>28, LinksFrame
<1> HIDE DEF X
<1>30. /\ Tiling(k, U) /\ Tagged(k, U) /\ FreeIn(k, U) = G \cup {l}
       /\ \A x \in U \cup {E} : Size(k, x) = Size(h3, x) /\ After(k, x) = After(h3, x)
  <2> HIDE DEF U
  <2> QED
    BY <1>19, <1>22, <1>24, <1>29, SameHeaders
<1>31. After(h3, l) = n /\ Size(h3, l) = size /\ Size(h3, b) = words
  BY <1>6, <1>8, <1>14, <1>18, <1>21 DEF Size, After
<1>32. Footed(k, G \cup {l})
  <2>1. ASSUME NEW d \in G
        PROVE  k.mem[After(h, d) - 1] = h.mem[After(h, d) - 1]
    <3>1. d \in T /\ d # b /\ After(h, d) - 1 \in d..After(h, d)-1 /\ After(h, d) - 1 # d
      BY <1>2, <1>3 DEF G
    <3>2. After(h, d) - 1 \in Words /\ After(h, d) - 1 # b /\ After(h, d) - 1 \notin b..n-1
      BY <1>2, <3>1, OwnWords DEF n
    <3>3. After(h, d) - 1 # l /\ After(h, d) - 1 # n - 1
      BY <1>4, <1>6, <3>2
    <3>4. k.mem[After(h, d) - 1] = h3.mem[After(h, d) - 1]
      BY <1>23, <1>29, <3>1
    <3> QED
      BY <1>9, <1>13, <1>18, <3>1, <3>2, <3>3, <3>4
  <2>2. \A d \in G : Size(k, d) = Size(h, d) /\ After(k, d) = After(h, d)
    BY <1>2, <1>23, <1>30 DEF G
  <2>3. get_blockSize(k.mem[After(k, l) - 1]) = Size(k, l)
    BY <1>15, <1>18, <1>29, <1>30, <1>31
  <2> QED
    BY <2>1, <2>2, <2>3 DEF Footed, G
<1>33. Untouched(k, G \cup {l})
  <2>1. n \notin G \cup {l}
    BY <1>2, <1>5, <1>6 DEF G, FreeIn
  <2>2. \A x \in G : After(h, x) \notin G \cup {l}
    <3> SUFFICES ASSUME NEW x \in G PROVE After(h, x) \notin G \cup {l}
      OBVIOUS
    <3>1. After(h, x) \in T \cup {E}
      BY <1>2 DEF Tiling, E
    <3>2. l # E
      BY <1>4, <1>6, <1>2, OwnWords DEF n, E
    <3> QED
      BY <1>22, <3>1, <3>2 DEF Untouched, G
  <2>3. \A x \in G \cup {l} : After(k, x) = IF x = l THEN n ELSE After(h, x)
    BY <1>2, <1>22, <1>23, <1>30, <1>31 DEF G
  <2> QED
    BY <1>22, <1>2, <2>1, <2>2, <2>3 DEF Untouched
<1>34. Lists(k, G \cup {l}, Kinds(k))
  <2>1. \A x \in G \cup {l} : Size(k, x) = Size(h3, x)
    BY <1>2, <1>30
  <2> QED
    BY <1>27, <2>1, ListsKinds
<1>35. Whole(k, U)
  BY <1>27, <1>30, <1>32, <1>33, <1>34 DEF Whole
<1>36. ASSUME NEW d \in T \ F, NEW a \in d+1..After(h, d)-1
       PROVE  k.mem[a] = h.mem[a]
  <2>1. d \in T /\ d # b /\ d \notin Roots /\ d \notin G
    BY <1>2, <1>3, HeapShape DEF Roots, G
  <2>2. a \in d..After(h, d)-1 /\ a # d
    BY <1>3, <2>1
  <2>3. a \in Words /\ a \notin T \cup {E} /\ a \notin b..n-1
    BY <1>2, <2>1, <2>2, OwnWords DEF E, n
  <2>4. a # l /\ a # n - 1 /\ a # b
    BY <1>2, <1>4, <1>6, <2>3
  <2>5. d \in T \ (G \cup Roots) /\ d \in U \ X
    BY <1>22, <2>1 DEF X
  <2>6. u.mem[a] = h1.mem[a] /\ k.mem[a] = h3.mem[a]
    BY <1>13, <1>23, <1>29, <2>1, <2>2, <2>5
  <2> QED
    BY <1>9, <1>18, <2>3, <2>4, <2>6
<1>37. Kept(h, k, T \ F)
  BY <1>2, <1>23, <1>30, <1>36 DEF Kept
<1>38. ASSUME NEW a \in b+3..b+words-1
       PROVE  k.mem[a] = h.mem[a]
  <2>1. b \notin Roots /\ b \notin G /\ b # l
    BY <1>2, <1>3, <1>6, HeapShape DEF Roots, G
  <2>2. a \in b..n-1 /\ a # b /\ a \in b..l-1 /\ a # l /\ a # n - 1
    BY <1>4, <1>6 DEF l
  <2>3. a \in Words
    BY <1>2, <2>2, OwnWords DEF n
  <2>4. After(h3, b) = l
    BY <1>31 DEF After, l
  <2>5. u.mem[a] = h1.mem[a] /\ k.mem[a] = h3.mem[a]
    BY <1>2, <1>13, <1>29, <2>1, <2>2, <2>4 DEF X, n
  <2> QED
    BY <1>9, <1>18, <2>2, <2>3, <2>5
<1>39. k.brk = h.brk
  BY <1>19, <1>27 DEF Same
<1>40. Allocated(k, U) = Allocated(h, T) \cup {b}
  BY <1>2, <1>22, <1>30 DEF Allocated, G
<1>41. Size(k, b) >= words
  BY <1>2, <1>30, <1>31
<1>42. Kept(h, k, Allocated(h, T))
  BY <1>37 DEF Allocated
<1> HIDE DEF U
<1> QED
  BY <1>35, <1>38, <1>39, <1>40, <1>41, <1>42 DEF Granted

\* allocate_block grants the block, with a split or without.
LEMMA AllocateFacts ==
  ASSUME NEW h, NEW T, NEW b, Grantable(h, T, b),
         NEW words \in Int, words >= 4, words % 2 = 0, Size(h, b) >= words
  PROVE  Granted(h, T, b, words, allocate_block(h, b, words))
BY AllocateAll, AllocateSplit

-----------------------------------------------------------------------------
(* A block is marked free before it is merged and listed. *)
Loose(h, T, b) ==
  /\ h \in Heap /\ Tiling(h, T) /\ Tagged(h, T)
  /\ b \in FreeIn(h, T)
  /\ Footed(h, FreeIn(h, T))
  /\ \A x \in FreeIn(h, T) : After(h, x) \in FreeIn(h, T) => x = b \/ After(h, x) = b
  /\ Lists(h, FreeIn(h, T) \ {b}, Kinds(h))

\* mm_free marks the block free in its header, footer and the next header.
LEMMA MarkFree ==
  ASSUME NEW h, NEW T, Whole(h, T), NEW b \in Allocated(h, T),
         NEW w, w = PACK(Size(h, b), check_prev_alloc(h.mem[b]), 0),
         NEW k, k = write_next_hf(write_footer(Put(h, b, w), b, w), b, 0)
  PROVE  /\ Loose(k, T, b) /\ k.brk = h.brk /\ FreeIn(k, T) = FreeIn(h, T) \cup {b}
         /\ \A x \in T : Size(k, x) = Size(h, x)
         /\ \A d \in Allocated(h, T) \ {b}, a \in Words :
              a \in d+1..After(h, d)-1 => k.mem[a] = h.mem[a]
         /\ \A a \in b+1..After(h, b)-2 : k.mem[a] = h.mem[a]
<1> DEFINE F == FreeIn(h, T)
           n == After(h, b)
           E == End(h)
           h1 == Put(h, b, w)
           h2 == write_footer(h1, b, w)
           v == PACK(Size(h2, n), 0, check_alloc(h2.mem[n]))
           h3 == Put(h2, n, v)
           m == After(h, n) - 1
<1>k. k = write_next_hf(h2, b, 0)
  OBVIOUS
<1>0. /\ h \in Heap /\ Tiling(h, T) /\ Tagged(h, T) /\ Footed(h, F) /\ Untouched(h, F)
      /\ Lists(h, F, Kinds(h))
  BY DEF Whole
<1>1. b \in T /\ b \notin F /\ ~IsFree(h, b) /\ F \subseteq T
  BY DEF Allocated, FreeIn
<1>2. /\ E \in Words /\ E \in Int
      /\ \A x \in T : /\ x \in Words /\ x \in Int /\ After(h, x) \in Words /\ FirstBlock <= x
                      /\ After(h, x) \in Int /\ x + 4 <= After(h, x) /\ Size(h, x) \in Int
                      /\ x..After(h, x)-1 \subseteq Words
  BY <1>0, TilingType
<1>3. n \in T \cup {E} /\ n \in Words /\ n \in Int /\ b \in Int /\ b \in Words /\ b + 4 <= n /\ b # n
      /\ n - 1 \in Words /\ n - 1 \in b+3..n-1 /\ n - 1 \in b..n-1
  <2>1. n \in T \cup {E}
    BY <1>0, <1>1 DEF Tiling
  <2>2. n \in Words /\ n \in Int /\ b \in Int /\ b \in Words /\ b + 4 <= n
        /\ b..n-1 \subseteq Words
    BY <1>1, <1>2
  <2> QED
    BY <2>1, <2>2
<1>4. /\ check_prev_alloc(h.mem[b]) \in Bit /\ Size(h, b) \in Int /\ Size(h, n) \in Int
      /\ check_alloc(h.mem[n]) \in Bit
  BY <1>0, <1>3, BitsOf
<1> HIDE DEF n, E, F
<1>5. /\ Wrote(h, b, w, h1) /\ Size(h1, b) = Size(h, b) /\ check_alloc(h1.mem[b]) = 0
      /\ check_prev_alloc(h1.mem[b]) = check_prev_alloc(h.mem[b])
  BY <1>0, <1>3, <1>4, WroteHeader DEF Bit
<1>6. w \in Int /\ get_blockSize(w) = Size(h, b)
  BY <1>4, PackReads DEF Bit
<1>7. h1 \in Heap
  BY <1>5 DEF Wrote
<1> HIDE DEF h1
<1>8. h2 = Put(h1, n - 1, w)
  <2>1. b + Size(h1, b) = n
    BY <1>5 DEF n, After
  <2> HIDE DEF n
  <2>2. h2 = Put(h1, b + Size(h1, b) - 1, w)
    BY DEF write_footer
  <2>3. Size(h1, b) \in Int
    BY <1>4, <1>5
  <2> HIDE DEF h2
  <2>4. b + Size(h1, b) - 1 = n - 1
    BY <1>3, <2>1, <2>3
  <2> QED
    BY <2>2, <2>4, Zenon
<1>9. Wrote(h1, n - 1, w, h2)
  BY <1>3, <1>6, <1>7, <1>8, PutFacts
<1>10. /\ h2 \in Heap /\ h2.brk = h.brk /\ h2.mem[n - 1] = w /\ h2.mem[b] = h1.mem[b]
       /\ h2.mem[n] = h.mem[n]
       /\ \A x \in Words : x = b \/ x = n - 1 \/ h2.mem[x] = h.mem[x]
  BY <1>3, <1>5, <1>9 DEF Wrote
<1> HIDE DEF h2
<1>11. /\ Size(h2, b) = Size(h, b) /\ After(h2, b) = n /\ Size(h2, n) = Size(h, n)
       /\ check_alloc(h2.mem[n]) = check_alloc(h.mem[n])
  BY <1>5, <1>10 DEF Size, After, n
<1>12. /\ Wrote(h2, n, v, h3) /\ Size(h3, n) = Size(h, n)
       /\ check_alloc(h3.mem[n]) = check_alloc(h.mem[n]) /\ check_prev_alloc(h3.mem[n]) = 0
  BY <1>3, <1>4, <1>10, <1>11, WroteHeader DEF Bit
<1>13. v \in Int /\ get_blockSize(v) = Size(h, n) /\ check_alloc(v) = check_alloc(h.mem[n])
  BY <1>4, <1>11, PackReads DEF Bit
<1>14. k = IF check_alloc(v) = 1 THEN h3 ELSE write_footer(h3, n, v)
  <2>1. b + Size(h2, b) = n
    BY <1>11 DEF After
  <2> QED
    BY <1>k, <2>1 DEF write_next_hf
<1> HIDE DEF h3, v
<1>15. h3 \in Heap /\ h3.brk = h.brk
  BY <1>10, <1>12 DEF Wrote
<1>16. n \in F <=> n \in T /\ IsFree(h, n)
  BY DEF FreeIn, F
<1>17. n \notin F => check_alloc(v) = 1
  <2>1. n \notin F => ~IsFree(h, n)
    BY <1>0, <1>3, <1>16 DEF Tagged, E
  <2> QED
    BY <1>0, <1>3, <1>13, <2>1, BitsOf
<1>18. n \in F => m \in Words /\ m \in n+3..After(h, n)-1 /\ m # n /\ m # n - 1 /\ m # b
  <2> SUFFICES ASSUME n \in F
               PROVE  m \in Words /\ m \in n+3..After(h, n)-1 /\ m # n /\ m # n - 1 /\ m # b
    OBVIOUS
  <2>1. n \in T
    BY <1>1
  <2>2. After(h, n) \in Int /\ n + 4 <= After(h, n) /\ n..After(h, n)-1 \subseteq Words
    BY <1>2, <2>1
  <2> QED
    BY <1>3, <2>2
<1>19. n \in F => Wrote(h3, m, v, k)
  <2> SUFFICES ASSUME n \in F PROVE Wrote(h3, m, v, k)
    OBVIOUS
  <2>1. check_alloc(v) # 1
    BY <1>13, <1>16 DEF IsFree
  <2>2. n + Size(h3, n) - 1 = m
    BY <1>3, <1>4, <1>12 DEF After, m
  <2>3. k = Put(h3, n + Size(h3, n) - 1, v)
    BY <1>14, <2>1 DEF write_footer
  <2> HIDE DEF m
  <2>4. k = Put(h3, m, v)
    BY <2>2, <2>3
  <2> QED
    BY <1>13, <1>15, <1>18, <2>4, PutFacts
<1> HIDE DEF m
<1>20. /\ k \in Heap /\ k.brk = h.brk
       /\ n \in F => k.mem[m] = v
       /\ \A x \in Words : (n \in F /\ x = m) \/ k.mem[x] = h3.mem[x]
  <2>1. CASE n \in F
    BY <1>15, <1>18, <1>19, <2>1 DEF Wrote
  <2>2. CASE n \notin F
    BY <1>14, <1>15, <1>17, <2>2
  <2> QED
    BY <2>1, <2>2
<1>21. \A x \in Words : \/ x = b \/ x = n - 1 \/ x = n \/ (n \in F /\ x = m)
                        \/ k.mem[x] = h.mem[x]
  BY <1>10, <1>12, <1>20 DEF Wrote
<1>22. k.mem[b] = h1.mem[b] /\ k.mem[n] = h3.mem[n] /\ k.mem[n - 1] = w
  BY <1>3, <1>10, <1>12, <1>18, <1>20 DEF Wrote
<1>23. End(k) = E
  BY <1>20 DEF End, E
<1>24. n - 1 \notin T \cup {E} /\ (n \in F => m \notin T \cup {E})
  <2>1. n - 1 \notin T \cup {E}
    BY <1>0, <1>1, <1>3, OwnWords DEF n, E
  <2>2. ASSUME n \in F PROVE m \notin T \cup {E}
    <3>1. n \in T /\ m \in n..After(h, n)-1 /\ m # n
      BY <1>1, <1>3, <1>18, <2>2
    <3> QED
      BY <1>0, <3>1, OwnWords DEF E
  <2> QED
    BY <2>1, <2>2
<1>25. \A x \in T \cup {E} : x = b \/ x = n \/ k.mem[x] = h.mem[x]
  BY <1>2, <1>21, <1>24
<1>26. /\ Size(k, b) = Size(h, b) /\ check_alloc(k.mem[b]) = 0
       /\ check_prev_alloc(k.mem[b]) = check_prev_alloc(h.mem[b])
       /\ Size(k, n) = Size(h, n) /\ check_alloc(k.mem[n]) = check_alloc(h.mem[n])
       /\ check_prev_alloc(k.mem[n]) = 0
  BY <1>5, <1>12, <1>22 DEF Size
<1>27. Tiling(k, T) /\ Tagged(k, T)
  <2>1. n - b = Size(h, b)
    BY <1>3, <1>4 DEF n, After
  <2>2. (n - b) % 2 = 0
    BY <1>0, <1>1, <2>1 DEF Tiling
  <2>3. Joined(T, b, n) = T
    BY <1>0, <1>1 DEF Joined, Tiling, n
  <2>4. ASSUME NEW x \in T \cup {E}, x < b \/ n < x PROVE k.mem[x] = h.mem[x]
    <3>1. x # b /\ x # n
      BY <1>3, <2>4
    <3> QED
      BY <1>25, <3>1
  <2>5. b < n /\ Size(k, b) = n - b
    BY <1>3, <1>26, <2>1
  <2>6. k \in Heap /\ b \in T /\ n \in T \cup {End(h)} /\ End(k) = End(h) /\ 0 \in Bit
    BY <1>0, <1>1, <1>3, <1>20, <1>23 DEF Bit, E
  <2>7. \A x \in T \cup {End(h)} : x < b \/ n < x => k.mem[x] = h.mem[x]
    BY <2>4 DEF E
  <2> HIDE DEF E, n
  <2>8. Tiling(k, Joined(T, b, n)) /\ Tagged(k, Joined(T, b, n))
    BY <1>0, <1>26, <2>2, <2>5, <2>6, <2>7, JoinedTiles
  <2> QED
    BY <2>3, <2>8
<1>28. \A x \in T \cup {E} : /\ Size(k, x) = Size(h, x) /\ After(k, x) = After(h, x)
                             /\ x # b => (IsFree(k, x) <=> IsFree(h, x))
  <2>1. \A x \in T \cup {E} : Size(k, x) = Size(h, x)
    BY <1>25, <1>26 DEF Size
  <2>2. \A x \in T \cup {E} : x # b => (IsFree(k, x) <=> IsFree(h, x))
    BY <1>25, <1>26 DEF IsFree
  <2> QED
    BY <2>1, <2>2 DEF After
<1>29. FreeIn(k, T) = F \cup {b}
  <2>1. IsFree(k, b)
    BY <1>26 DEF IsFree
  <2> QED
    BY <1>1, <1>28, <2>1 DEF FreeIn, F
<1>30. Footed(k, F \cup {b})
  <2> SUFFICES ASSUME NEW d \in F \cup {b}
               PROVE  get_blockSize(k.mem[After(h, d) - 1]) = Size(h, d)
    BY <1>1, <1>28 DEF Footed
  <2>1. CASE d = b
    BY <1>6, <1>22, <2>1 DEF n
  <2>2. CASE d = n
    BY <1>1, <1>13, <1>20, <2>2, <1>3 DEF m
  <2>3. CASE d # b /\ d # n
    <3>1. d \in F /\ d \in T
      BY <1>1, <2>3
    <3>2. After(h, d) - 1 \in d..After(h, d)-1 /\ After(h, d) - 1 # d
      BY <1>2, <3>1
    <3>3. /\ After(h, d) - 1 \in Words /\ After(h, d) - 1 \notin T \cup {E}
          /\ After(h, d) - 1 \notin b..n-1
          /\ n \in T => After(h, d) - 1 \notin n..After(h, n)-1
      BY <1>0, <1>1, <2>3, <3>1, <3>2, OwnWords DEF n, E
    <3>4. n \in F => m \in n..After(h, n)-1
      BY <1>3, <1>18
    <3>5. k.mem[After(h, d) - 1] = h.mem[After(h, d) - 1]
      BY <1>1, <1>3, <1>21, <3>3, <3>4
    <3> QED
      BY <1>0, <3>1, <3>5 DEF Footed
  <2> QED
    BY <2>1, <2>2, <2>3
<1>31. Lists(k, F, Kinds(k))
  <2>1. \A a \in Words : \/ k.mem[a] = h.mem[a]
                         \/ a \in T \cup {End(h)}
                         \/ \E d \in T : a \in d+3..After(h, d)-1
    BY <1>1, <1>3, <1>18, <1>21 DEF E, n
  <2>2. Lists(k, F, Kinds(h))
    BY <1>0, <1>1, <1>20, <2>1, ListsElsewhere
  <2>3. \A x \in F : Size(k, x) = Size(h, x)
    BY <1>1, <1>28
  <2> QED
    BY <2>2, <2>3, ListsKinds
<1>32. (F \cup {b}) \ {b} = F
  BY <1>1
<1>33. \A x \in F \cup {b} : After(k, x) \in F \cup {b} => x = b \/ After(k, x) = b
  BY <1>0, <1>1, <1>28 DEF Untouched
<1>34. Loose(k, T, b)
  BY <1>20, <1>27, <1>29, <1>30, <1>31, <1>32, <1>33 DEF Loose
<1>35. ASSUME NEW d \in Allocated(h, T) \ {b}, NEW a \in d+1..After(h, d)-1
       PROVE  k.mem[a] = h.mem[a]
  <2>1. d \in T /\ d \notin F /\ d # b /\ d \in Int
    BY <1>2 DEF Allocated, F
  <2>2. a \in d..After(h, d)-1 /\ a # d
    BY <2>1
  <2>3. /\ a \in Words /\ a \notin T \cup {E} /\ a \notin b..n-1
        /\ n \in F => a \notin n..After(h, n)-1
    BY <1>0, <1>1, <2>1, <2>2, OwnWords DEF n, E
  <2>4. n \in F => m \in n..After(h, n)-1
    BY <1>3, <1>18
  <2> QED
    BY <1>1, <1>3, <1>21, <2>3, <2>4
<1>36. ASSUME NEW a \in b+1..n-2
       PROVE  k.mem[a] = h.mem[a]
  <2>1. a \in b..n-1 /\ a # b /\ a # n - 1 /\ a # n
    BY <1>3
  <2>2. a \in Words /\ (n \in F => a \notin n..After(h, n)-1)
    <3>1. n \in F => n \in T /\ n # b
      BY <1>1
    <3> QED
      BY <1>0, <1>1, <2>1, <3>1, OwnWords DEF n
  <2>3. n \in F => m \in n..After(h, n)-1
    BY <1>3, <1>18
  <2> QED
    BY <1>21, <2>1, <2>2, <2>3
<1> QED
  BY <1>20, <1>28, <1>29, <1>34, <1>35, <1>36 DEF F, n

-----------------------------------------------------------------------------
(* coallesce.  The blocks from s up to e are free and, but for b, listed   *)
(* before; the ones merged so far have been taken out of their lists.      *)
Outside(F, s, e) == {x \in F : x < s \/ e <= x}

Merging(h, T, b, g, s, size) ==
  /\ g \in Heap /\ g.brk = h.brk
  /\ Same(h, g, Links(FreeIn(h, T) \cup Roots))
  /\ s \in T /\ size \in Int /\ s + size \in T \cup {End(h)}
  /\ s <= b /\ b < s + size /\ size % 2 = 0
  /\ \A x \in T : s <= x /\ x < s + size => x \in FreeIn(h, T)
  /\ Lists(g, Outside(FreeIn(h, T), s, s + size), Kinds(h))

Apart(h, T, s) == \A x \in FreeIn(h, T) : After(h, x) # s

\* MergePrev: the block before is taken out of its list if it is free.
LEMMA MergePrevFacts ==
  ASSUME NEW h, NEW T, NEW b, Loose(h, T, b),
         NEW m, m = MergePrev(h, b)
  PROVE  /\ Merging(h, T, b, m.heap, m.block, m.size)
         /\ Apart(h, T, m.block) /\ m.block + m.size = After(h, b)
<1> DEFINE F == FreeIn(h, T)
           n == After(h, b)
<1>0. /\ h \in Heap /\ Tiling(h, T) /\ Tagged(h, T) /\ b \in F /\ Footed(h, F)
      /\ \A x \in F : After(h, x) \in F => x = b \/ After(h, x) = b
      /\ Lists(h, F \ {b}, Kinds(h))
  BY DEF Loose
<1>1. b \in T /\ F \subseteq T /\ \A x \in T : x \in F <=> IsFree(h, x)
  BY <1>0 DEF FreeIn
<1>2. \A x \in T : /\ x \in Words /\ x \in Int /\ After(h, x) \in Int /\ x + 4 <= After(h, x)
                   /\ Size(h, x) \in Int /\ After(h, x) = x + Size(h, x)
  BY <1>0, TilingType DEF After
<1>3. \A x \in T : /\ After(h, x) \in T \cup {End(h)} /\ Size(h, x) % 2 = 0
                   /\ \A t \in T : t <= x \/ After(h, x) <= t
  BY <1>0 DEF Tiling
<1>4. Same(h, h, Links(F \cup Roots))
  BY DEF Same
<1>5. check_prev_alloc(h.mem[b]) \in Bit
  BY <1>0, <1>1, <1>2, BitsOf
<1> HIDE DEF F, n
<1>6. CASE check_prev_alloc(h.mem[b]) = 1
  <2>1. m = [heap |-> h, block |-> b, size |-> Size(h, b)]
    BY <1>6 DEF MergePrev
  <2>2. m.heap = h /\ m.block = b /\ m.size = Size(h, b) /\ b + Size(h, b) = n
    BY <1>1, <1>2, <2>1 DEF n
  <2>3. Outside(F, b, n) = F \ {b}
    BY <1>1, <1>2, <1>3 DEF Outside, n
  <2>4. \A x \in T : b <= x /\ x < n => x \in F
    BY <1>0, <1>1, <1>2, <1>3 DEF n
  <2>5. Merging(h, T, b, h, b, Size(h, b))
    <3>1. /\ b <= b /\ b < n /\ Size(h, b) \in Int /\ Size(h, b) % 2 = 0
          /\ n \in T \cup {End(h)}
      BY <1>1, <1>2, <1>3 DEF n
    <3> QED
      BY <1>0, <1>1, <1>4, <2>2, <2>3, <2>4, <3>1 DEF Merging, F
  <2>6. ASSUME NEW x \in F, After(h, x) = b PROVE FALSE
    <3>1. check_prev_alloc(h.mem[b]) = check_alloc(h.mem[x])
      BY <1>0, <1>1, <2>6 DEF Tagged
    <3> QED
      BY <1>1, <1>6, <3>1 DEF IsFree
  <2> QED
    BY <2>2, <2>5, <2>6 DEF Apart, F, n
<1>7. CASE check_prev_alloc(h.mem[b]) # 1
  <2>1. PICK p \in T : After(h, p) = b
    <3>1. b # FirstBlock
      BY <1>0, <1>7 DEF Tagged
    <3> QED
      BY <1>0, <1>1, <3>1, BlockBefore
  <2>2. p \in F /\ p # b /\ p < b
    <3>1. check_prev_alloc(h.mem[b]) = check_alloc(h.mem[p])
      BY <1>0, <2>1 DEF Tagged
    <3>2. check_alloc(h.mem[p]) \in Bit
      BY <1>0, <1>2, BitsOf
    <3>3. IsFree(h, p)
      BY <1>7, <3>1, <3>2 DEF IsFree, Bit
    <3> QED
      BY <1>1, <1>2, <2>1, <3>3
  <2>3. get_blockSize(h.mem[b - 1]) = Size(h, p)
    BY <1>0, <2>1, <2>2 DEF Footed
  <2>4. b - get_blockSize(h.mem[b - 1]) = p
    BY <1>1, <1>2, <2>1, <2>3
  <2>5. m = [heap |-> Unlink(h, p), block |-> p, size |-> Size(h, b) + b - p]
    BY <1>7, <2>4 DEF MergePrev
  <2> DEFINE sz == Size(h, b) + b - p
             u == Unlink(h, p)
  <2>6. m.heap = u /\ m.block = p /\ m.size = sz
    BY <2>5
  <2>7. sz \in Int /\ p + sz = n /\ sz % 2 = 0
    <3>1. Size(h, b) % 2 = 0 /\ Size(h, p) % 2 = 0 /\ b - p = Size(h, p)
      BY <1>1, <1>2, <1>3, <2>1
    <3> QED
      BY <1>1, <1>2, <3>1 DEF n
  <2>8. p \in F \ {b}
    BY <2>2
  <2>9. /\ u \in Heap /\ Lists(u, (F \ {b}) \ {p}, Kinds(h))
        /\ Same(h, u, Links(((F \ {b}) \ {p}) \cup Roots))
    BY <1>0, <2>8, UnlinkLists
  <2>10. Same(h, u, Links(F \cup Roots)) /\ u.brk = h.brk
    BY <2>9 DEF Same, Links
  <2>11. \A x \in T : p <= x /\ x < n => x = p \/ x = b
    BY <1>1, <1>2, <1>3, <2>1 DEF n
  <2>12. Outside(F, p, n) = (F \ {b}) \ {p}
    BY <1>1, <1>2, <2>1, <2>2, <2>11 DEF Outside, n
  <2>13. n \in T \cup {End(h)} /\ p <= b /\ b < n
    BY <1>1, <1>2, <1>3, <2>1 DEF n
  <2> HIDE DEF sz, u
  <2>14. Merging(h, T, b, u, p, sz)
    BY <1>0, <2>1, <2>2, <2>7, <2>9, <2>10, <2>11, <2>12, <2>13 DEF Merging, F
  <2>15. ASSUME NEW x \in F, After(h, x) = p PROVE FALSE
    <3>1. x = b \/ After(h, x) = b
      BY <1>0, <2>2, <2>15
    <3> QED
      BY <1>1, <1>2, <2>1, <2>2, <2>15, <3>1
  <2> QED
    BY <2>6, <2>7, <2>14, <2>15 DEF Apart, F, n
<1> QED
  BY <1>6, <1>7

\* MergeNext: so is the block after.
LEMMA MergeNextFacts ==
  ASSUME NEW h, NEW T, NEW b, Loose(h, T, b),
         NEW m, m = [heap |-> m.heap, block |-> m.block, size |-> m.size],
         Merging(h, T, b, m.heap, m.block, m.size), m.block + m.size = After(h, b),
         NEW r, r = MergeNext(m)
  PROVE  /\ Merging(h, T, b, r.heap, r.block, r.size)
         /\ r.block = m.block /\ r.block + r.size \notin FreeIn(h, T)
         /\ After(h, b) <= r.block + r.size
<1> DEFINE F == FreeIn(h, T)
           n == After(h, b)
           g == m.heap
           s == m.block
<1>0. /\ h \in Heap /\ Tiling(h, T) /\ Tagged(h, T) /\ b \in F /\ Footed(h, F)
      /\ \A x \in F : After(h, x) \in F => x = b \/ After(h, x) = b
  BY DEF Loose
<1>1. b \in T /\ F \subseteq T /\ \A x \in T : x \in F <=> IsFree(h, x)
  BY <1>0 DEF FreeIn
<1>2. \A x \in T : /\ x \in Words /\ x \in Int /\ After(h, x) \in Int /\ x + 4 <= After(h, x)
                   /\ Size(h, x) \in Int /\ After(h, x) = x + Size(h, x)
  BY <1>0, TilingType DEF After
<1>3. \A x \in T : /\ After(h, x) \in T \cup {End(h)} /\ Size(h, x) % 2 = 0
                   /\ \A t \in T : t <= x \/ After(h, x) <= t
  BY <1>0 DEF Tiling
<1>4. /\ g \in Heap /\ g.brk = h.brk /\ Same(h, g, Links(F \cup Roots))
      /\ s \in T /\ m.size \in Int /\ s + m.size = n /\ m.size % 2 = 0 /\ s <= b
      /\ \A x \in T : s <= x /\ x < n => x \in F
      /\ Lists(g, Outside(F, s, n), Kinds(h))
  BY DEF Merging
<1>5. \A x \in T \cup {End(h)} : g.mem[x] = h.mem[x]
  <2>1. End(h) = End(h) /\ F \cup Roots \subseteq T \cup Roots
    BY <1>1
  <2> QED
    BY <1>0, <1>4, <2>1, LinksFrame
<1>6. n \in T \cup {End(h)} /\ g.mem[n] = h.mem[n] /\ n \in Int /\ b < n /\ Size(g, n) = Size(h, n)
  BY <1>1, <1>2, <1>3, <1>5 DEF Size
<1> HIDE DEF F, n, g, s
<1>7. CASE check_alloc(g.mem[n]) = 1
  <2>1. r = m
    BY <1>4, <1>7 DEF MergeNext, g, s
  <2>2. n \notin F
    BY <1>1, <1>6, <1>7 DEF IsFree
  <2> QED
    BY <1>4, <1>6, <2>1, <2>2 DEF F, n, s
<1>8. CASE check_alloc(g.mem[n]) # 1
  <2>1. n \in T /\ n \in F
    <3>1. h.mem[n] \in Int
      <4>1. n \in Words
        BY <1>0, <1>1, TilingType DEF n
      <4> QED
        BY <1>0, <4>1, HeapType
    <3>2. IsFree(h, n)
      BY <1>6, <1>8, <3>1, ReadsType DEF IsFree, Bit
    <3> QED
      BY <1>0, <1>1, <1>6, <3>2 DEF Tagged
  <2> DEFINE u == Unlink(g, n)
             e == After(h, n)
             sz == m.size + Size(g, n)
  <2>2. r = [heap |-> u, block |-> s, size |-> sz]
    BY <1>4, <1>8 DEF MergeNext, g, s
  <2>3. r.heap = u /\ r.block = s /\ r.size = sz
    BY <2>2
  <2>4. sz \in Int /\ s + sz = e /\ sz % 2 = 0
    <3>1. Size(h, n) \in Int /\ Size(h, n) % 2 = 0 /\ s \in Int /\ e = n + Size(h, n)
      BY <1>2, <1>3, <1>4, <2>1
    <3> HIDE DEF e
    <3> QED
      BY <1>4, <1>6, <3>1
  <2>5. n \in Outside(F, s, n)
    BY <1>6, <2>1 DEF Outside
  <2> DEFINE G == Outside(F, s, n) \ {n}
  <2>6. u \in Heap /\ Lists(u, G, Kinds(h)) /\ Same(g, u, Links(G \cup Roots))
    BY <1>4, <2>5, UnlinkLists
  <2>7. Same(h, u, Links(F \cup Roots)) /\ u.brk = h.brk
    BY <1>4, <2>6 DEF Same, Links, Outside
  <2>8. G = Outside(F, s, e)
    BY <1>1, <1>2, <1>3, <1>4, <1>6, <2>1 DEF Outside
  <2>9. e \in T \cup {End(h)} /\ b < e /\ n <= e
    BY <1>1, <1>2, <1>3, <1>6, <2>1
  <2>10. \A x \in T : s <= x /\ x < e => x \in F
    BY <1>2, <1>3, <1>4, <1>6, <2>1
  <2>11. e \notin F
    <3> SUFFICES ASSUME e \in F PROVE FALSE
      OBVIOUS
    <3>1. n = b \/ e = b
      BY <1>0, <2>1
    <3> QED
      BY <1>1, <1>2, <1>6, <2>9, <3>1
  <2> HIDE DEF sz, u, e, G
  <2>12. Merging(h, T, b, u, s, sz)
    BY <1>4, <2>4, <2>6, <2>7, <2>8, <2>9, <2>10 DEF Merging, F
  <2> QED
    BY <2>3, <2>4, <2>9, <2>11, <2>12 DEF s, F, n
<1> QED
  BY <1>7, <1>8

\* The new tags of the merged block.
Tagging(h, T, b, g, s, e) ==
  /\ g \in Heap /\ g.brk = h.brk
  /\ Tiling(g, Joined(T, s, e)) /\ Tagged(g, Joined(T, s, e))
  /\ FreeIn(g, Joined(T, s, e)) = Outside(FreeIn(h, T), s, e) \cup {s}
  /\ Footed(g, Outside(FreeIn(h, T), s, e) \cup {s})
  /\ Untouched(g, Outside(FreeIn(h, T), s, e) \cup {s})
  /\ Lists(g, Outside(FreeIn(h, T), s, e), Kinds(g))
  /\ \A x \in Joined(T, s, e) : x # s => Size(g, x) = Size(h, x)
  /\ \A a \in Words : a \in {s, e - 1, e} \cup Links(FreeIn(h, T) \cup Roots)
                      \/ g.mem[a] = h.mem[a]

\* TagFree writes the tags of the merged block.
LEMMA TagFreeFacts ==
  ASSUME NEW h, NEW T, NEW b, Loose(h, T, b),
         NEW m, m = [heap |-> m.heap, block |-> m.block, size |-> m.size],
         Merging(h, T, b, m.heap, m.block, m.size), Apart(h, T, m.block),
         m.block + m.size \notin FreeIn(h, T)
  PROVE  /\ Tagging(h, T, b, TagFree(m).heap, m.block, m.block + m.size)
         /\ TagFree(m).block = m.block
<1> DEFINE F == FreeIn(h, T)
           E == End(h)
           g == m.heap
           s == m.block
           e == s + m.size
           O == Outside(F, s, e)
           U == Joined(T, s, e)
           p == check_prev_alloc(g.mem[s])
           w == PACK(m.size, p, 0)
           h1 == Put(g, s, w)
           h2 == write_footer(h1, s, w)
           h3 == write_next_hf(h2, s, 0)
<1>0. /\ h \in Heap /\ Tiling(h, T) /\ Tagged(h, T) /\ b \in F /\ Footed(h, F)
      /\ \A x \in F : After(h, x) \in F => x = b \/ After(h, x) = b
  BY DEF Loose
<1>1. b \in T /\ F \subseteq T /\ \A x \in T : x \in F <=> IsFree(h, x)
  BY <1>0 DEF FreeIn
<1>2. /\ \A x \in T : /\ x \in Words /\ x \in Int /\ After(h, x) \in Int /\ x + 4 <= After(h, x)
                      /\ Size(h, x) \in Int /\ After(h, x) = x + Size(h, x) /\ FirstBlock <= x
                      /\ x..After(h, x)-1 \subseteq Words
      /\ E \in Words /\ E \in Int
  BY <1>0, TilingType DEF After
<1>3. \A x \in T : /\ After(h, x) \in T \cup {E} /\ Size(h, x) % 2 = 0
                   /\ \A t \in T \cup {E} : t <= x \/ After(h, x) <= t
  BY <1>0 DEF Tiling
<1>4. /\ g \in Heap /\ g.brk = h.brk /\ Same(h, g, Links(F \cup Roots))
      /\ s \in T /\ m.size \in Int /\ e \in T \cup {E} /\ m.size % 2 = 0 /\ s <= b /\ b < e
      /\ \A x \in T : s <= x /\ x < e => x \in F
      /\ Lists(g, O, Kinds(h)) /\ e \notin F
  BY DEF Merging
<1>5. /\ \A x \in T \cup {E} : g.mem[x] = h.mem[x]
      /\ \A d \in T : g.mem[After(h, d) - 1] = h.mem[After(h, d) - 1]
  <2>1. End(h) = End(h) /\ F \cup Roots \subseteq T \cup Roots
    BY <1>1
  <2> QED
    BY <1>0, <1>4, <2>1, LinksFrame
<1> HIDE DEF F, E, g, s, O, U
<1>6. /\ e \in Words /\ e \in Int /\ s \in Int /\ s \in Words /\ s < e /\ m.size = e - s
      /\ s + 4 <= e
  BY <1>1, <1>2, <1>3, <1>4
<1>7. ~IsFree(h, e)
  BY <1>0, <1>1, <1>4, <1>6 DEF Tagged, E
<1>8. /\ p \in Bit /\ p = check_prev_alloc(h.mem[s]) /\ Size(h, e) \in Int
      /\ check_alloc(h.mem[e]) = 1
  <2>1. g.mem[s] = h.mem[s]
    BY <1>4, <1>5
  <2> QED
    BY <1>0, <1>6, <1>7, <2>1, BitsOf
<1>9. e - 1 \in Words /\ e - 1 \notin T \cup {E} /\ e - 1 # s /\ e - 1 # e
  <2>1. PICK q \in T : After(h, q) = e
    <3>1. e # FirstBlock
      BY <1>2, <1>4, <1>6
    <3> QED
      BY <1>0, <1>4, <3>1, BlockBefore DEF E
  <2>2. e - 1 \in q..After(h, q)-1 /\ e - 1 # q
    BY <1>2, <1>6, <2>1
  <2>3. e - 1 \in Words /\ e - 1 \notin T \cup {E}
    BY <1>0, <2>2, OwnWords DEF E
  <2> QED
    BY <1>4, <1>6, <2>3
<1>t. TagFree(m).heap = h3 /\ TagFree(m).block = s
  <2>1. TagFree(m) = [m EXCEPT !.heap = h3]
    BY DEF TagFree, g, s
  <2>2. m = [heap |-> m.heap, block |-> m.block, size |-> m.size]
    OBVIOUS
  <2> HIDE DEF h3
  <2> QED
    BY <2>1, <2>2 DEF s
<1> HIDE DEF p
<1>10. /\ Wrote(g, s, w, h1) /\ Size(h1, s) = m.size /\ check_alloc(h1.mem[s]) = 0
       /\ check_prev_alloc(h1.mem[s]) = p
  BY <1>4, <1>6, <1>8, WroteHeader DEF Bit
<1>11. w \in Int /\ get_blockSize(w) = m.size
  BY <1>4, <1>8, PackReads DEF Bit
<1> HIDE DEF w, h1
<1>12. h2 = Put(h1, e - 1, w)
  <2>1. s + Size(h1, s) = e
    BY <1>10
  <2> HIDE DEF e
  <2>2. h2 = Put(h1, s + Size(h1, s) - 1, w)
    BY DEF write_footer
  <2> HIDE DEF h2
  <2>3. s + Size(h1, s) - 1 = e - 1
    BY <1>4, <1>6, <1>10, <2>1
  <2> QED
    BY <2>2, <2>3, Zenon
<1> HIDE DEF e, h2
<1>13. Wrote(h1, e - 1, w, h2)
  <2>1. h1 \in Heap
    BY <1>10 DEF Wrote
  <2> QED
    BY <1>9, <1>11, <1>12, <2>1, PutFacts
<1>14. /\ h2 \in Heap /\ h2.brk = h.brk /\ h2.mem[e - 1] = w /\ h2.mem[s] = h1.mem[s]
       /\ h2.mem[e] = h.mem[e]
       /\ \A x \in Words : x = s \/ x = e - 1 \/ h2.mem[x] = g.mem[x]
  BY <1>4, <1>5, <1>6, <1>9, <1>10, <1>13 DEF Wrote
<1>15. Size(h2, s) = m.size /\ After(h2, s) = e /\ Size(h2, e) = Size(h, e) /\ ~IsFree(h2, e)
  BY <1>6, <1>7, <1>10, <1>14 DEF Size, After, IsFree, e
<1>16. h3 = Put(h2, e, PACK(Size(h, e), 0, 1))
  BY <1>6, <1>14, <1>15, NextTold DEF Bit
<1> HIDE DEF h3
<1>17. /\ Wrote(h2, e, PACK(Size(h, e), 0, 1), h3) /\ Size(h3, e) = Size(h, e)
       /\ check_alloc(h3.mem[e]) = 1 /\ check_prev_alloc(h3.mem[e]) = 0
  BY <1>6, <1>8, <1>14, <1>16, WroteHeader DEF Bit
<1>18. /\ h3 \in Heap /\ h3.brk = h.brk /\ h3.mem[e - 1] = w /\ h3.mem[s] = h1.mem[s]
       /\ \A x \in Words : x \in {s, e - 1, e} \/ h3.mem[x] = g.mem[x]
  BY <1>6, <1>9, <1>14, <1>17 DEF Wrote
<1>19. End(h3) = E
  BY <1>18 DEF End, E
<1>20. \A x \in T \cup {E} : x # s /\ x # e => h3.mem[x] = h.mem[x]
  BY <1>2, <1>5, <1>9, <1>18
<1>21. Tiling(h3, U) /\ Tagged(h3, U)
  <2>1. ASSUME NEW x \in T \cup {E}, x < s \/ e < x PROVE h3.mem[x] = h.mem[x]
    <3>1. x # s /\ x # e
      BY <1>6, <2>1
    <3> QED
      BY <1>20, <3>1
  <2>2. (e - s) % 2 = 0 /\ Size(h3, s) = e - s
    BY <1>4, <1>6, <1>10, <1>18 DEF Size
  <2>3. /\ check_alloc(h3.mem[s]) = 0 /\ check_prev_alloc(h3.mem[s]) = check_prev_alloc(h.mem[s])
        /\ check_alloc(h3.mem[e]) = check_alloc(h.mem[e])
    BY <1>8, <1>10, <1>17, <1>18
  <2> QED
    BY <1>0, <1>4, <1>6, <1>17, <1>18, <1>19, <2>1, <2>2, <2>3, JoinedTiles DEF Bit, E, U
<1>22. /\ U \subseteq T /\ s \in U /\ s \notin O /\ O \subseteq U /\ O \subseteq F
       /\ \A x \in U : x < s \/ e <= x \/ x = s
  BY <1>1, <1>2, <1>4, <1>6 DEF U, O, Joined, Outside
<1>23. \A x \in U : x # s => /\ Size(h3, x) = Size(h, x) /\ After(h3, x) = After(h, x)
                             /\ (IsFree(h3, x) <=> IsFree(h, x))
  <2> SUFFICES ASSUME NEW x \in U, x # s
               PROVE  Size(h3, x) = Size(h, x) /\ (IsFree(h3, x) <=> IsFree(h, x))
    BY DEF After
  <2>1. CASE x = e
    BY <1>7, <1>17, <2>1 DEF IsFree
  <2>2. CASE x # e
    BY <1>20, <1>22, <2>2 DEF IsFree, Size
  <2> QED
    BY <2>1, <2>2
<1>24. FreeIn(h3, U) = O \cup {s}
  <2>1. IsFree(h3, s)
    BY <1>10, <1>18 DEF IsFree
  <2>2. \A x \in U : x # s => (x \in O <=> IsFree(h, x))
    BY <1>1, <1>22 DEF O, Outside
  <2> QED
    BY <1>22, <1>23, <2>1, <2>2 DEF FreeIn
<1>25. After(h3, s) = e /\ Size(h3, s) = m.size
  BY <1>6, <1>10, <1>18 DEF Size, After, e
<1>26. Footed(h3, O \cup {s})
  <2>1. ASSUME NEW d \in O
        PROVE  h3.mem[After(h, d) - 1] = h.mem[After(h, d) - 1]
    <3>1. d \in T /\ (d < s \/ e <= d)
      BY <1>1, <1>22 DEF O, Outside
    <3>2. After(h, d) - 1 \in d..After(h, d)-1 /\ After(h, d) - 1 # d
      BY <1>2, <3>1
    <3>3. After(h, d) - 1 \in Words /\ After(h, d) - 1 \notin T \cup {E}
      BY <1>0, <3>1, <3>2, OwnWords DEF E
    <3>4. After(h, d) - 1 # e - 1
      BY <1>2, <1>3, <1>4, <1>6, <3>1
    <3> QED
      BY <1>4, <1>5, <1>18, <3>1, <3>3, <3>4
  <2>2. \A d \in O : Size(h3, d) = Size(h, d) /\ After(h3, d) = After(h, d)
    BY <1>22, <1>23
  <2>3. \A d \in O : get_blockSize(h.mem[After(h, d) - 1]) = Size(h, d)
    BY <1>0, <1>22 DEF Footed
  <2> QED
    BY <1>11, <1>18, <1>25, <2>1, <2>2, <2>3 DEF Footed
<1>27. Untouched(h3, O \cup {s})
  <2>1. e \notin O \cup {s}
    BY <1>4, <1>6, <1>22
  <2>2. ASSUME NEW x \in O PROVE After(h, x) \notin O \cup {s}
    <3>1. After(h, x) # s
      BY <1>22 DEF Apart, F, s
    <3>2. ASSUME After(h, x) \in O PROVE FALSE
      <4>1. x = b \/ After(h, x) = b
        BY <1>0, <1>22, <3>2
      <4>2. b < s \/ e <= b
        BY <3>2, <4>1 DEF O, Outside
      <4> QED
        BY <1>1, <1>2, <1>4, <1>6, <4>2
    <3> QED
      BY <3>1, <3>2
  <2>3. \A x \in O : After(h3, x) = After(h, x)
    BY <1>22, <1>23
  <2> QED
    BY <1>25, <2>1, <2>2, <2>3 DEF Untouched
<1>28. Lists(h3, O, Kinds(h3))
  <2>1. \A a \in Words : \/ h3.mem[a] = g.mem[a]
                         \/ a \in T \cup {End(h)}
                         \/ \E d \in T : a \in d+3..After(h, d)-1
    <3>1. PICK q \in T : After(h, q) = e
      <4>1. e # FirstBlock
        BY <1>2, <1>4, <1>6
      <4> QED
        BY <1>0, <1>4, <4>1, BlockBefore DEF E
    <3>2. e - 1 \in q+3..After(h, q)-1
      BY <1>2, <1>6, <3>1
    <3> QED
      BY <1>4, <1>18, <3>2 DEF E
  <2>2. O \subseteq T
    BY <1>1, <1>22
  <2>3. Lists(h3, O, Kinds(h))
    BY <1>0, <1>4, <1>18, <2>1, <2>2, ListsElsewhere
  <2>4. \A x \in O : Size(h3, x) = Size(h, x)
    BY <1>22, <1>23
  <2> QED
    BY <2>3, <2>4, ListsKinds
<1>29. \A a \in Words : a \in {s, e - 1, e} \cup Links(F \cup Roots) \/ h3.mem[a] = h.mem[a]
  BY <1>4, <1>18 DEF Same
<1> QED
  BY <1>t, <1>18, <1>21, <1>23, <1>24, <1>26, <1>27, <1>28, <1>29 DEF Tagging, F, O, U, e, s

\* A link in a block is that block's.
LEMMA LinkWords ==
  ASSUME NEW h \in Heap, NEW T, Tiling(h, T), NEW X, X \subseteq T \cup Roots,
         NEW d \in T, NEW a \in d..After(h, d)-1, a \in Links(X)
  PROVE  d \in X /\ (a = d + 1 \/ a = d + 2)
<1>1. \A b \in T : /\ b \in Int /\ FirstBlock <= b /\ After(h, b) \in Int /\ b + 4 <= After(h, b)
  BY TilingType
<1>2. \A b, t \in T : t <= b \/ After(h, b) <= t
  BY DEF Tiling
<1>3. \A x \in Roots : x \in Int /\ x + 4 <= FirstBlock
  BY HeapShape DEF Roots
<1>4. PICK x \in X : a = x + 1 \/ a = x + 2
  BY DEF Links
<1>5. CASE x \in Roots
  BY <1>1, <1>3, <1>4, <1>5, HeapShape
<1>6. CASE x \in T
  <2>1. (d <= x \/ After(h, x) <= d) /\ (x <= d \/ After(h, d) <= x)
    BY <1>2, <1>6
  <2>2. x = d
    BY <1>1, <1>4, <1>6, <2>1
  <2> QED
    BY <1>4, <2>2
<1> QED
  BY <1>5, <1>6

\* In k, b is free and nothing else has changed.
Freed(h, T, b, k) ==
  \E U : /\ Whole(k, U) /\ Allocated(k, U) = Allocated(h, T) /\ k.brk = h.brk
         /\ Kept(h, k, Allocated(h, T)) /\ IsFree(k, b)
         /\ \A a \in b+3..After(h, b)-2 : k.mem[a] = h.mem[a]

\* A block that is marked free, but not yet in a list, is put into one.
Unlisted(g, U, s) ==
  /\ g \in Heap /\ Tiling(g, U) /\ Tagged(g, U) /\ s \in FreeIn(g, U)
  /\ Footed(g, FreeIn(g, U)) /\ Untouched(g, FreeIn(g, U))
  /\ Lists(g, FreeIn(g, U) \ {s}, Kinds(g))

\* Such a block is put into its list, and the heap is whole.
LEMMA PlaceWhole ==
  ASSUME NEW g, NEW U, NEW s, Unlisted(g, U, s), NEW k, k = place_free_block(g, s)
  PROVE  /\ Whole(k, U) /\ FreeIn(k, U) = FreeIn(g, U)
         /\ Same(g, k, Links(FreeIn(g, U) \cup Roots))
         /\ \A x \in U \cup {End(g)} : Size(k, x) = Size(g, x)
<1> DEFINE G == FreeIn(g, U)
           O == G \ {s}
           X == G \cup Roots
<1>1. /\ g \in Heap /\ Tiling(g, U) /\ Tagged(g, U) /\ s \in G
      /\ Footed(g, G) /\ Untouched(g, G) /\ Lists(g, O, Kinds(g))
  BY DEF Unlisted
<1>2. G \subseteq U /\ O \cup {s} = G /\ s \notin O /\ X \subseteq U \cup Roots
  BY <1>1 DEF FreeIn
<1> HIDE DEF G, O
<1>3. k \in Heap /\ Lists(k, G, Kinds(g)) /\ Same(g, k, Links(G \cup Roots))
  <2>1. Separate(G)
    <3>1. Separate(U)
      BY <1>1, TilingType
    <3> QED
      BY <1>2, <3>1, SeparatePart
  <2>2. Kinds(g)[s] = choose_list(Size(g, s)) /\ Size(g, s) \in Int
    <3>1. s \in Words /\ Size(g, s) \in Int
      BY <1>1, <1>2, TilingType
    <3> QED
      BY <3>1 DEF Kinds
  <2> QED
    BY <1>1, <1>2, <2>1, <2>2, PlaceLists
<1> HIDE DEF X
<1>4. /\ End(k) = End(g)
      /\ \A x \in U \cup {End(g)} : k.mem[x] = g.mem[x]
      /\ \A d \in U : k.mem[After(g, d) - 1] = g.mem[After(g, d) - 1]
  BY <1>1, <1>2, <1>3, LinksFrame DEF X
<1>5. /\ Tiling(k, U) /\ Tagged(k, U) /\ FreeIn(k, U) = G
      /\ \A x \in U \cup {End(g)} : Size(k, x) = Size(g, x) /\ After(k, x) = After(g, x)
  BY <1>1, <1>4, SameHeaders DEF G
<1>6. Footed(k, G) /\ Untouched(k, G)
  BY <1>1, <1>2, <1>4, <1>5 DEF Footed, Untouched
<1>7. Lists(k, G, Kinds(k))
  <2>1. \A x \in G : Size(k, x) = Size(g, x)
    BY <1>2, <1>5
  <2> QED
    BY <1>3, <2>1, ListsKinds
<1> QED
  BY <1>3, <1>5, <1>6, <1>7 DEF Whole, G

\* The merged block, tagged and put into its list, is free and the others stay.
LEMMA PlaceMerged ==
  ASSUME NEW h, NEW T, NEW b, Loose(h, T, b), NEW g, NEW s, NEW e,
         Tagging(h, T, b, g, s, e), s \in T, s <= b, e \in T \cup {End(h)}, b < e,
         After(h, b) <= e, \A x \in T : s <= x /\ x < e => x \in FreeIn(h, T)
  PROVE  Freed(h, T, b, place_free_block(g, s))
<1> DEFINE F == FreeIn(h, T)
           E == End(h)
           O == Outside(F, s, e)
           G == O \cup {s}
           U == Joined(T, s, e)
           k == place_free_block(g, s)
<1>k. k = place_free_block(g, s)
  OBVIOUS
<1>0. h \in Heap /\ Tiling(h, T) /\ b \in F
  BY DEF Loose
<1>1. b \in T /\ F \subseteq T /\ \A x \in T : x \in F <=> IsFree(h, x)
  BY <1>0 DEF FreeIn
<1>2. /\ \A x \in T : /\ x \in Words /\ x \in Int /\ After(h, x) \in Int /\ x + 4 <= After(h, x)
                      /\ After(h, x) \in T \cup {E} /\ FirstBlock <= x
                      /\ \A t \in T \cup {E} : t <= x \/ After(h, x) <= t
      /\ E \in Words /\ E \in Int
  BY <1>0, TilingType DEF Tiling
<1>3. /\ g \in Heap /\ g.brk = h.brk /\ Tiling(g, U) /\ Tagged(g, U) /\ FreeIn(g, U) = G
      /\ Footed(g, G) /\ Untouched(g, G) /\ Lists(g, O, Kinds(g))
      /\ \A x \in U : x # s => Size(g, x) = Size(h, x)
      /\ \A a \in Words : a \in {s, e - 1, e} \cup Links(F \cup Roots) \/ g.mem[a] = h.mem[a]
  BY DEF Tagging
<1>4. e \in Int /\ s \in Int /\ s + 4 <= e /\ s \in F
  BY <1>1, <1>2
<1>5. /\ s \in U /\ U \subseteq T /\ s \notin O /\ O \subseteq F /\ G \subseteq F /\ G \subseteq U
  <2>1. s \in U /\ U \subseteq T /\ s \notin O
    BY <1>4 DEF U, O, Joined, Outside
  <2>2. O \subseteq F
    BY DEF O, Outside
  <2>3. ASSUME NEW x \in O PROVE x \in U
    <3>1. x \in T /\ x \in Int /\ (x < s \/ e <= x)
      BY <1>1, <1>2 DEF O, Outside
    <3>2. x <= s \/ e <= x
      BY <1>4, <3>1
    <3> QED
      BY <3>1, <3>2 DEF U, Joined
  <2> HIDE DEF O, U, F
  <2> QED
    BY <1>4, <2>1, <2>2, <2>3
<1>6. End(g) = E
  BY <1>3 DEF End
<1> HIDE DEF F, E, O, U, k
<1>7. /\ Whole(k, U) /\ FreeIn(k, U) = G /\ Same(g, k, Links(G \cup Roots))
      /\ \A x \in U \cup {E} : Size(k, x) = Size(g, x)
  <2>1. G \ {s} = O /\ s \in G
    BY <1>5 DEF G
  <2> HIDE DEF G
  <2>2. Unlisted(g, U, s)
    BY <1>3, <2>1 DEF Unlisted
  <2> QED
    BY <1>k, <1>3, <1>6, <2>2, PlaceWhole
<1> HIDE DEF G
<1>13. Whole(k, U)
  BY <1>7
<1>14. k.brk = h.brk
  BY <1>3, <1>7 DEF Same
<1>15. Allocated(k, U) = T \ F
  <2>1. \A x \in T : x \in U \/ x \in F
    BY <1>2, <1>4 DEF F, U, Joined
  <2>2. \A x \in U : x \in G <=> x \in F
    <3> SUFFICES ASSUME NEW x \in U, x \in F PROVE x \in G
      BY <1>5
    <3>1. x < s \/ e <= x \/ x = s
      BY <1>2, <1>4, <1>5 DEF U, Joined
    <3> QED
      BY <3>1 DEF G, O, Outside
  <2> QED
    BY <1>5, <1>7, <2>1, <2>2 DEF Allocated
<1>16. \A a \in Words : a \in {s, e - 1, e} \cup Links(F \cup Roots) \/ k.mem[a] = h.mem[a]
  <2>1. Links(G \cup Roots) \subseteq Links(F \cup Roots)
    BY <1>5 DEF Links
  <2> QED
    BY <1>3, <1>7, <2>1 DEF Same
<1>17. ASSUME NEW d \in T, NEW a \in d..After(h, d)-1, a \in Links(F \cup Roots)
       PROVE  d \in F /\ (a = d + 1 \/ a = d + 2)
  <2>1. F \cup Roots \subseteq T \cup Roots
    BY <1>1
  <2>2. d \in F \cup Roots /\ (a = d + 1 \/ a = d + 2)
    BY <1>0, <1>17, <2>1, LinkWords
  <2>3. d \notin Roots
    BY <1>2, HeapShape DEF Roots
  <2> QED
    BY <2>2, <2>3
<1>18. ASSUME NEW d \in T, d \notin F, NEW a \in d+1..After(h, d)-1
       PROVE  k.mem[a] = h.mem[a]
  <2>1. d < s \/ e <= d
    BY <1>2, <1>4, <1>18 DEF F
  <2>2. a \in d..After(h, d)-1 /\ a # d /\ a \in Int
    BY <1>2
  <2>3. a \in Words /\ a \notin T \cup {E}
    BY <1>0, <2>2, OwnWords DEF E
  <2>4. a # e - 1
    BY <1>2, <1>4, <2>1, <2>2
  <2>5. a # s /\ a # e
    BY <2>3 DEF E
  <2>6. a \notin Links(F \cup Roots)
    BY <1>17, <1>18, <2>2
  <2> QED
    BY <1>16, <2>3, <2>4, <2>5, <2>6
<1>19. ASSUME NEW d \in T, d \notin F
       PROVE  Size(k, d) = Size(h, d)
  <2>1. d < s \/ e <= d
    BY <1>2, <1>4, <1>19 DEF F
  <2>2. d \in U /\ d # s
    BY <1>2, <1>4, <2>1 DEF U, Joined
  <2> QED
    BY <1>3, <1>5, <1>7, <2>2
<1>20. Kept(h, k, T \ F)
  BY <1>18, <1>19 DEF Kept
<1>21. IsFree(k, b)
  <2>1. CASE b = s
    <3>1. b \in FreeIn(k, U)
      BY <1>7, <2>1 DEF G
    <3> QED
      BY <3>1 DEF FreeIn
  <2>2. CASE b # s
    <3>1. b \in b..After(h, b)-1 /\ b # b + 1 /\ b # b + 2
      BY <1>1, <1>2
    <3>2. b \notin Links(F \cup Roots)
      BY <1>1, <1>17, <3>1
    <3>3. b # e
      BY <1>1, <1>2, <1>4
    <3>4. b # e - 1
      BY <1>1, <1>2, <1>4
    <3>5. k.mem[b] = h.mem[b]
      BY <1>1, <1>2, <1>16, <2>2, <3>2, <3>3, <3>4
    <3> QED
      BY <1>0, <1>1, <3>5 DEF IsFree
  <2> QED
    BY <2>1, <2>2
<1>22. ASSUME NEW a \in b+3..After(h, b)-2
       PROVE  k.mem[a] = h.mem[a]
  <2>1. a \in b..After(h, b)-1 /\ a \in Int /\ a # b + 1 /\ a # b + 2 /\ b < a /\ a < e - 1
    BY <1>1, <1>2, <1>4
  <2>2. a \notin Links(F \cup Roots)
    BY <1>1, <1>17, <2>1
  <2>3. a \in Words
    BY <1>0, <1>1, <2>1, OwnWords
  <2>4. a # s /\ a # e - 1 /\ a # e
    BY <1>1, <1>2, <1>4, <2>1
  <2> QED
    BY <1>16, <2>2, <2>3, <2>4
<1> QED
  BY <1>13, <1>14, <1>15, <1>20, <1>21, <1>22 DEF Freed, Allocated, F, k

\* coallesce and place_free_block free a block that is marked and in no list.
LEMMA LooseFacts ==
  ASSUME NEW h, NEW T, NEW b, Loose(h, T, b)
  PROVE  Freed(h, T, b, Place(coallesce(h, b)))
<1> DEFINE m == MergePrev(h, b)
           r == MergeNext(m)
           t == TagFree(r)
<1>1. /\ Merging(h, T, b, m.heap, m.block, m.size)
      /\ Apart(h, T, m.block) /\ m.block + m.size = After(h, b)
  BY MergePrevFacts
<1>2. m = [heap |-> m.heap, block |-> m.block, size |-> m.size]
  BY DEF MergePrev
<1> HIDE DEF m
<1>3. /\ Merging(h, T, b, r.heap, r.block, r.size)
      /\ r.block = m.block /\ r.block + r.size \notin FreeIn(h, T)
      /\ After(h, b) <= r.block + r.size
  BY <1>1, <1>2, MergeNextFacts
<1>4. r = [heap |-> r.heap, block |-> r.block, size |-> r.size]
  BY <1>2 DEF MergeNext
<1> HIDE DEF r
<1>5. Apart(h, T, r.block)
  BY <1>1, <1>3
<1>6. Tagging(h, T, b, t.heap, r.block, r.block + r.size) /\ t.block = r.block
  BY <1>3, <1>4, <1>5, TagFreeFacts
<1>7. Place(coallesce(h, b)) = place_free_block(t.heap, t.block)
  BY DEF Place, coallesce, t, r, m
<1> HIDE DEF t
<1>8. /\ r.block \in T /\ r.block <= b /\ r.block + r.size \in T \cup {End(h)}
      /\ b < r.block + r.size
      /\ \A x \in T : r.block <= x /\ x < r.block + r.size => x \in FreeIn(h, T)
  BY <1>3 DEF Merging
<1> QED
  BY <1>3, <1>6, <1>7, <1>8, PlaceMerged

\* mm_free: the block is free, the others stay.
FreeDone(h, T, b, k) ==
  \E U : /\ Whole(k, U) /\ Allocated(k, U) = Allocated(h, T) \ {b} /\ k.brk = h.brk
         /\ Kept(h, k, Allocated(h, T) \ {b}) /\ IsFree(k, b)
         /\ \A a \in b+3..After(h, b)-2 : k.mem[a] = h.mem[a]

\* mm_free frees its block and keeps all others.
LEMMA FreeFacts ==
  ASSUME NEW h, NEW T, Whole(h, T), NEW b \in Allocated(h, T), NEW ptr \in Int, b = ptr - 3
  PROVE  FreeDone(h, T, b, mm_free(h, ptr))
<1> DEFINE w == PACK(Size(h, b), check_prev_alloc(h.mem[b]), 0)
           g == write_next_hf(write_footer(Put(h, b, w), b, w), b, 0)
           k == mm_free(h, ptr)
           A == Allocated(h, T) \ {b}
<1>1. mm_free(h, ptr) = Place(coallesce(g, b))
  BY DEF mm_free, get_block
<1>2. /\ Loose(g, T, b) /\ g.brk = h.brk /\ FreeIn(g, T) = FreeIn(h, T) \cup {b}
      /\ \A x \in T : Size(g, x) = Size(h, x)
      /\ \A d \in Allocated(h, T) \ {b}, a \in Words :
           a \in d+1..After(h, d)-1 => g.mem[a] = h.mem[a]
      /\ \A a \in b+1..After(h, b)-2 : g.mem[a] = h.mem[a]
  BY MarkFree
<1> HIDE DEF g, w
<1>3. Freed(g, T, b, k)
  BY <1>1, <1>2, LooseFacts
<1> HIDE DEF k
<1>4. Allocated(g, T) = A
  BY <1>2 DEF Allocated
<1>5. PICK U : /\ Whole(k, U) /\ Allocated(k, U) = A /\ k.brk = g.brk
               /\ Kept(g, k, A) /\ IsFree(k, b)
               /\ \A a \in b+3..After(g, b)-2 : k.mem[a] = g.mem[a]
  BY <1>3, <1>4 DEF Freed
<1>6. /\ \A x \in T : After(g, x) = After(h, x)
      /\ b \in T /\ A \subseteq T
  BY <1>2 DEF After, Allocated
<1>7. /\ h \in Heap /\ Tiling(h, T)
      /\ \A x \in T : /\ x \in Int /\ After(h, x) \in Int /\ x..After(h, x)-1 \subseteq Words
  BY TilingType DEF Whole
<1>8. Kept(h, k, A)
  <2>1. ASSUME NEW d \in A, NEW a \in d+1..After(h, d)-1
        PROVE  k.mem[a] = h.mem[a]
    <3>1. a \in d..After(h, d)-1
      BY <1>6, <1>7
    <3>2. a \in Words
      BY <1>6, <1>7, <3>1
    <3>3. g.mem[a] = h.mem[a]
      BY <1>2, <3>2
    <3>4. k.mem[a] = g.mem[a]
      BY <1>5, <1>6 DEF Kept
    <3> QED
      BY <3>3, <3>4
  <2>2. \A d \in A : Size(k, d) = Size(h, d)
    BY <1>2, <1>5, <1>6 DEF Kept
  <2> QED
    BY <2>1, <2>2 DEF Kept
<1>9. ASSUME NEW a \in b+3..After(h, b)-2
      PROVE  k.mem[a] = h.mem[a]
  <2>1. a \in b+1..After(h, b)-2
    BY <1>6, <1>7
  <2> QED
    BY <1>2, <1>5, <1>6, <2>1
<1> QED
  BY <1>2, <1>5, <1>8, <1>9 DEF FreeDone, A, k

-----------------------------------------------------------------------------
(* mm_extend_heap: the old epilogue is the header of a new block. *)
Grown(h, T, words, a, k) ==
  /\ k \in Heap /\ k.brk = h.brk + words
  /\ Tiling(k, T \cup {End(h)}) /\ Tagged(k, T \cup {End(h)})
  /\ Size(k, End(h)) = words /\ check_alloc(k.mem[End(h)]) = a
  /\ a = 0 => get_blockSize(k.mem[End(h) + words - 1]) = words
  /\ \A x \in Words : x < End(h) => k.mem[x] = h.mem[x]

\* mm_extend_heap adds one block at the old epilogue.
LEMMA ExtendFacts ==
  ASSUME NEW h \in Heap, NEW T, Tiling(h, T), Tagged(h, T), NEW words \in Int,
         words >= 4, words % 2 = 0, NEW a \in Bit, ~Fails(h, words),
         NEW new, new = mm_extend_heap(h, words, a)
  PROVE  new.block = End(h) /\ Grown(h, T, words, a, new.heap)
<1> DEFINE b == End(h)
           p == check_prev_alloc(h.mem[b])
           w == PACK(words, p, a)
           h0 == Put(h, b, w)
           h1 == [h0 EXCEPT !.brk = @ + words]
           h2 == IF a = 0 THEN write_footer(h1, b, w) ELSE h1
           k == write_epilogue(h2, b, a)
           e == b + words
           U == T \cup {b}
<1>1. new = [block |-> b, heap |-> k]
  BY DEF mm_extend_heap, End
<1>2. new.block = b /\ new.heap = k
  BY <1>1
<1>3. /\ b \in Words /\ b \in Int /\ FirstBlock <= b /\ FirstBlock \in Int
      /\ FirstBlock \in T \cup {b}
      /\ \A x \in T : /\ x \in Words /\ x \in Int /\ x < b /\ After(h, x) \in Int
                      /\ After(h, x) <= b /\ After(h, x) \in T \cup {b} /\ FirstBlock <= x
                      /\ Size(h, x) >= 4 /\ Size(h, x) % 2 = 0
                      /\ \A t \in T \cup {b} : t <= x \/ After(h, x) <= t
  BY TilingType, HeapShape DEF Tiling
<1>4. h.brk = b + 1 /\ h.brk + words <= MAX_HEAP /\ h.brk \in Int
  BY HeapType, HeapShape DEF Fails, End
<1>5. p \in Bit
  BY <1>3, BitsOf
<1> HIDE DEF b, p
<1>6. /\ e \in Int /\ e \in Words /\ e - 1 \in Words /\ b < e - 1
  BY <1>3, <1>4, HeapShape DEF Words
<1>7. Wrote(h, b, w, h0) /\ Size(h0, b) = words /\ check_prev_alloc(h0.mem[b]) = p
      /\ check_alloc(h0.mem[b]) = a
  BY <1>3, <1>5, WroteHeader
<1>8. w \in Int /\ get_blockSize(w) = words
  BY <1>5, PackReads
<1> HIDE DEF w, h0
<1>9. h1 \in Heap /\ h1.brk = h.brk + words /\ h1.mem = h0.mem
  <2>1. h0 \in Heap /\ h0.brk = h.brk
    BY <1>7 DEF Wrote
  <2>2. h.brk + words \in 0..MAX_HEAP
    BY <1>3, <1>4, HeapShape
  <2> QED
    BY <2>1, <2>2 DEF Heap
<1> HIDE DEF h1
<1>10. /\ h2 \in Heap /\ h2.brk = h.brk + words
       /\ \A x \in Words : x = e - 1 \/ h2.mem[x] = h1.mem[x]
       /\ a = 0 => h2.mem[e - 1] = w
  <2>1. CASE a = 0
    <3>1. b + Size(h1, b) - 1 = e - 1
      BY <1>3, <1>7, <1>9 DEF Size
    <3> HIDE DEF e
    <3>2. h2 = Put(h1, b + Size(h1, b) - 1, w)
      BY <2>1 DEF write_footer
    <3> HIDE DEF h2
    <3>3. h2 = Put(h1, e - 1, w)
      BY <3>1, <3>2, Zenon
    <3>4. Wrote(h1, e - 1, w, h2)
      BY <1>6, <1>8, <1>9, <3>3, PutFacts
    <3> QED
      BY <1>6, <1>9, <3>4 DEF Wrote
  <2>2. CASE a # 0
    BY <1>9, <2>2
  <2> QED
    BY <2>1, <2>2
<1> HIDE DEF h2
<1>11. h2.mem[b] = h0.mem[b]
  BY <1>3, <1>6, <1>9, <1>10
<1>12. k = Put(h2, e, PACK(0, a, 1))
  <2>1. b + Size(h2, b) = e
    BY <1>7, <1>11 DEF Size
  <2> HIDE DEF e
  <2> QED
    BY <2>1 DEF write_epilogue
<1> HIDE DEF k
<1>13. /\ Wrote(h2, e, PACK(0, a, 1), k) /\ Size(k, e) = 0
       /\ check_prev_alloc(k.mem[e]) = a /\ check_alloc(k.mem[e]) = 1
  BY <1>6, <1>10, <1>12, WroteHeader DEF Bit
<1>14. /\ k \in Heap /\ k.brk = h.brk + words /\ k.mem[b] = h0.mem[b]
       /\ a = 0 => k.mem[e - 1] = w
  BY <1>3, <1>6, <1>10, <1>11, <1>13 DEF Wrote
<1>15. \A x \in Words : x < b => k.mem[x] = h.mem[x]
  <2> SUFFICES ASSUME NEW x \in Words, x < b PROVE k.mem[x] = h.mem[x]
    OBVIOUS
  <2>1. x # b /\ x # e - 1 /\ x # e
    BY <1>3, <1>6 DEF Words
  <2> QED
    BY <1>7, <1>9, <1>10, <1>13, <2>1 DEF Wrote
<1>16. End(k) = e
  BY <1>4, <1>14, <1>3 DEF End
<1> HIDE DEF e
<1>17. \A x \in T : /\ Size(k, x) = Size(h, x) /\ After(k, x) = After(h, x)
                    /\ k.mem[x] = h.mem[x]
  BY <1>3, <1>15 DEF Size, After
<1>18. Size(k, b) = words /\ check_alloc(k.mem[b]) = a /\ check_prev_alloc(k.mem[b]) = p
       /\ After(k, b) = e
  BY <1>7, <1>14 DEF Size, After, e
<1>19. Tiling(k, U)
  <2>1. U \subseteq FirstBlock..End(k)-1 /\ FirstBlock <= End(k) /\ FirstBlock \in U \cup {End(k)}
    BY <1>3, <1>6, <1>16
  <2>2. ASSUME NEW x \in T
        PROVE  /\ Size(k, x) >= 4 /\ Size(k, x) % 2 = 0
               /\ After(k, x) \in U \cup {End(k)}
               /\ \A t \in U \cup {End(k)} : t <= x \/ After(k, x) <= t
    BY <1>3, <1>6, <1>16, <1>17
  <2>3. /\ Size(k, b) >= 4 /\ Size(k, b) % 2 = 0
        /\ After(k, b) \in U \cup {End(k)}
        /\ \A t \in U \cup {End(k)} : t <= b \/ After(k, b) <= t
    BY <1>3, <1>6, <1>16, <1>18
  <2> QED
    BY <2>1, <2>2, <2>3 DEF Tiling
<1>20. Tagged(k, U)
  <2>1. Size(k, End(k)) = 0 /\ ~IsFree(k, End(k))
    BY <1>13, <1>16 DEF IsFree
  <2>2. \A x \in U : check_prev_alloc(k.mem[x]) = check_prev_alloc(h.mem[x])
    BY <1>17, <1>18 DEF p
  <2>3. check_prev_alloc(h.mem[FirstBlock]) = 1
        /\ \A x \in T : check_prev_alloc(h.mem[After(h, x)]) = check_alloc(h.mem[x])
    BY DEF Tagged
  <2>4. ASSUME NEW x \in U
        PROVE  check_prev_alloc(k.mem[After(k, x)]) = check_alloc(k.mem[x])
    <3>1. CASE x \in T
      BY <1>3, <1>17, <2>2, <2>3, <3>1
    <3>2. CASE x = b
      BY <1>13, <1>18, <3>2
    <3> QED
      BY <3>1, <3>2
  <2> QED
    BY <1>3, <2>1, <2>2, <2>3, <2>4 DEF Tagged
<1>21. a = 0 => get_blockSize(k.mem[b + words - 1]) = words
  <2>1. e - 1 = b + words - 1
    BY <1>3 DEF e
  <2>2. a = 0 => get_blockSize(k.mem[e - 1]) = words
    BY <1>8, <1>14
  <2> QED
    BY <2>1, <2>2, Zenon
<1> QED
  BY <1>2, <1>14, <1>15, <1>18, <1>19, <1>20, <1>21 DEF Grown, b

\* The extension as an allocated block: the heap stays whole.
LEMMA GrownWhole ==
  ASSUME NEW h, NEW T, Whole(h, T), NEW words \in Int, words >= 4, NEW k, Grown(h, T, words, 1, k)
  PROVE  /\ Whole(k, T \cup {End(h)})
         /\ FreeIn(k, T \cup {End(h)}) = FreeIn(h, T)
         /\ Allocated(k, T \cup {End(h)}) = Allocated(h, T) \cup {End(h)}
         /\ \A x \in T : Size(k, x) = Size(h, x)
         /\ Kept(h, k, T) /\ End(h) \notin T
<1> DEFINE E == End(h)
           U == T \cup {E}
           F == FreeIn(h, T)
<1>1. /\ h \in Heap /\ Tiling(h, T) /\ Footed(h, F) /\ Untouched(h, F) /\ Lists(h, F, Kinds(h))
  BY DEF Whole
<1>2. /\ k \in Heap /\ Tiling(k, U) /\ Tagged(k, U) /\ Size(k, E) = words
      /\ check_alloc(k.mem[E]) = 1 /\ \A x \in Words : x < E => k.mem[x] = h.mem[x]
  BY DEF Grown
<1>3. /\ E \in Int /\ E \in Words /\ F \subseteq T /\ FirstBlock \in Int /\ FirstBlock <= E
      /\ \A x \in T : /\ x \in Words /\ x \in Int /\ x < E /\ After(h, x) \in Int
                      /\ After(h, x) <= E /\ x + 4 <= After(h, x) /\ After(h, x) \in U
                      /\ x..After(h, x)-1 \subseteq Words /\ FirstBlock <= x
  BY <1>1, TilingType, HeapShape DEF Tiling, FreeIn
<1> HIDE DEF E
<1>4. \A x \in T : /\ Size(k, x) = Size(h, x) /\ After(k, x) = After(h, x)
                   /\ (IsFree(k, x) <=> IsFree(h, x))
  BY <1>2, <1>3 DEF Size, After, IsFree
<1>5. FreeIn(k, U) = F /\ E \notin T
  BY <1>2, <1>3, <1>4 DEF FreeIn, IsFree, F
<1>6. ASSUME NEW d \in T, NEW a \in d..After(h, d)-1
      PROVE  k.mem[a] = h.mem[a]
  <2>1. a \in Words /\ a < E
    BY <1>3
  <2> QED
    BY <1>2, <2>1
<1>7. Footed(k, F)
  <2> SUFFICES ASSUME NEW d \in F
               PROVE  get_blockSize(k.mem[After(h, d) - 1]) = Size(h, d)
    BY <1>3, <1>4 DEF Footed
  <2>1. After(h, d) - 1 \in d..After(h, d)-1
    BY <1>3
  <2> QED
    BY <1>1, <1>3, <1>6, <2>1 DEF Footed
<1>8. Untouched(k, F)
  BY <1>1, <1>3, <1>4 DEF Untouched
<1>9. Lists(k, F, Kinds(k))
  <2>1. ASSUME NEW x \in F \cup Roots
        PROVE  k.mem[x + 1] = h.mem[x + 1] /\ k.mem[x + 2] = h.mem[x + 2]
    <3>0. x \in T \/ x \in Roots
      BY <1>3
    <3>1. x \in Int /\ x > 0 /\ x + 4 <= E
      BY <1>3, <3>0, HeapShape DEF Roots
    <3>2. x + 1 \in Words /\ x + 2 \in Words /\ x + 1 < E /\ x + 2 < E
      BY <1>3, <3>1, HeapShape DEF Words
    <3> QED
      BY <1>2, <3>2
  <2>2. FirstBlock <= MAX_HEAP
    BY <1>3, HeapShape DEF Words
  <2>3. Lists(k, F, Kinds(h))
    BY <1>1, <1>2, <2>1, <2>2, ListsKept
  <2> QED
    BY <1>3, <1>4, <2>3, ListsKinds
<1>10. Whole(k, U)
  BY <1>2, <1>5, <1>7, <1>8, <1>9 DEF Whole
<1>11. Allocated(k, U) = Allocated(h, T) \cup {E}
  BY <1>3, <1>5 DEF Allocated, F
<1>12. Kept(h, k, T)
  <2>1. \A d \in T : \A a \in d+1..After(h, d)-1 : a \in d..After(h, d)-1
    BY <1>3
  <2> QED
    BY <1>4, <1>6, <2>1 DEF Kept
<1> QED
  BY <1>4, <1>5, <1>10, <1>11, <1>12 DEF E, F, U

\* The extension as a free block, after one that is allocated.
LEMMA SpareWhole ==
  ASSUME NEW h, NEW T, Whole(h, T), NEW words \in Int, words >= 4, NEW g, Grown(h, T, words, 0, g),
         \A x \in FreeIn(h, T) : After(h, x) # End(h), NEW k, k = place_free_block(g, End(h))
  PROVE  /\ Whole(k, T \cup {End(h)})
         /\ Allocated(k, T \cup {End(h)}) = Allocated(h, T)
         /\ \A x \in T : Size(k, x) = Size(h, x)
         /\ Kept(h, k, Allocated(h, T))
<1> DEFINE E == End(h)
           U == T \cup {E}
           F == FreeIn(h, T)
<1>1. /\ h \in Heap /\ Tiling(h, T) /\ Footed(h, F) /\ Untouched(h, F) /\ Lists(h, F, Kinds(h))
  BY DEF Whole
<1>2. /\ g \in Heap /\ Tiling(g, U) /\ Tagged(g, U) /\ Size(g, E) = words
      /\ check_alloc(g.mem[E]) = 0 /\ \A x \in Words : x < E => g.mem[x] = h.mem[x]
      /\ get_blockSize(g.mem[E + words - 1]) = words
  BY DEF Grown
<1>3. /\ E \in Int /\ E \in Words /\ F \subseteq T /\ FirstBlock \in Int /\ FirstBlock <= E
      /\ \A x \in T : /\ x \in Words /\ x \in Int /\ x < E /\ After(h, x) \in Int
                      /\ After(h, x) <= E /\ x + 4 <= After(h, x) /\ After(h, x) \in U
                      /\ x..After(h, x)-1 \subseteq Words /\ FirstBlock <= x
  BY <1>1, TilingType, HeapShape DEF Tiling, FreeIn
<1>e. \A x \in F : After(h, x) # E
  OBVIOUS
<1>k. k = place_free_block(g, E)
  OBVIOUS
<1> HIDE DEF E
<1>4. \A x \in T : /\ Size(g, x) = Size(h, x) /\ After(g, x) = After(h, x)
                   /\ (IsFree(g, x) <=> IsFree(h, x))
  BY <1>2, <1>3 DEF Size, After, IsFree
<1>5. FreeIn(g, U) = F \cup {E} /\ E \notin T /\ (F \cup {E}) \ {E} = F
  BY <1>2, <1>3, <1>4 DEF FreeIn, IsFree, F
<1>6. ASSUME NEW d \in T, NEW a \in d..After(h, d)-1
      PROVE  g.mem[a] = h.mem[a]
  <2>1. a \in Words /\ a < E
    BY <1>3
  <2> QED
    BY <1>2, <2>1
<1>7. Footed(g, F \cup {E})
  <2>1. ASSUME NEW d \in F
        PROVE  get_blockSize(g.mem[After(g, d) - 1]) = Size(g, d)
    <3>1. After(h, d) - 1 \in d..After(h, d)-1
      BY <1>3
    <3>2. get_blockSize(h.mem[After(h, d) - 1]) = Size(h, d)
      BY <1>1 DEF Footed
    <3> QED
      BY <1>3, <1>4, <1>6, <3>1, <3>2
  <2>2. get_blockSize(g.mem[After(g, E) - 1]) = Size(g, E)
    <3>1. After(g, E) - 1 = E + words - 1
      BY <1>2, <1>3 DEF After
    <3> QED
      BY <1>2, <3>1, Zenon
  <2> QED
    BY <2>1, <2>2 DEF Footed
<1>8. Untouched(g, F \cup {E})
  <2>1. After(g, E) > E /\ After(g, E) \in Int
    BY <1>2, <1>3 DEF After
  <2>2. After(g, E) \notin F \cup {E}
    BY <1>3, <2>1
  <2> QED
    BY <1>1, <1>3, <1>4, <1>e, <2>2 DEF Untouched
<1>9. Lists(g, F, Kinds(g))
  <2>1. ASSUME NEW x \in F \cup Roots
        PROVE  g.mem[x + 1] = h.mem[x + 1] /\ g.mem[x + 2] = h.mem[x + 2]
    <3>0. x \in T \/ x \in Roots
      BY <1>3
    <3>1. x \in Int /\ x > 0 /\ x + 4 <= E
      BY <1>3, <3>0, HeapShape DEF Roots
    <3>2. x + 1 \in Words /\ x + 2 \in Words /\ x + 1 < E /\ x + 2 < E
      BY <1>3, <3>1, HeapShape DEF Words
    <3> QED
      BY <1>2, <3>2
  <2>2. FirstBlock <= MAX_HEAP
    BY <1>3, HeapShape DEF Words
  <2>3. Lists(g, F, Kinds(h))
    BY <1>1, <1>2, <2>1, <2>2, ListsKept
  <2> QED
    BY <1>3, <1>4, <2>3, ListsKinds
<1>10. Unlisted(g, U, E)
  BY <1>2, <1>5, <1>7, <1>8, <1>9 DEF Unlisted
<1> HIDE DEF F, U
<1>11. /\ Whole(k, U) /\ FreeIn(k, U) = F \cup {E}
       /\ Same(g, k, Links((F \cup {E}) \cup Roots))
       /\ \A x \in U \cup {End(g)} : Size(k, x) = Size(g, x)
  BY <1>5, <1>10, <1>k, PlaceWhole
<1>12. \A x \in T : Size(k, x) = Size(h, x)
  BY <1>4, <1>11 DEF U
<1>13. ASSUME NEW d \in T \ F, NEW a \in d+1..After(h, d)-1
       PROVE  k.mem[a] = h.mem[a]
  <2>1. a \in d..After(h, d)-1 /\ a \in Words
    BY <1>3
  <2>2. d \in U /\ d # E /\ d \notin Roots /\ a \in d..After(g, d)-1
    BY <1>1, <1>3, <1>4, <2>1, TilingType, HeapShape DEF U, Roots
  <2>3. (F \cup {E}) \cup Roots \subseteq U \cup Roots
    BY <1>3 DEF U
  <2>4. a \notin Links((F \cup {E}) \cup Roots)
    BY <1>2, <2>2, <2>3, LinkWords
  <2> QED
    BY <1>6, <1>11, <2>1, <2>4 DEF Same
<1>14. Kept(h, k, T \ F)
  BY <1>12, <1>13 DEF Kept
<1>15. Allocated(k, U) = T \ F
  BY <1>3, <1>5, <1>11 DEF Allocated, U
<1> QED
  BY <1>11, <1>12, <1>14, <1>15 DEF Allocated, E, F, U

-----------------------------------------------------------------------------
(* mm_malloc. *)
LEMMA WordsType ==
  ASSUME NEW size \in Sizes
  PROVE  /\ size \in Int /\ size > 0 /\ size \div WSIZE \in Int /\ size \div WSIZE > 0
         /\ BlockWords(size) \in Int /\ BlockWords(size) >= 4 /\ BlockWords(size) % 2 = 0
         /\ size \div WSIZE + 3 <= BlockWords(size)
<1>1. size \in Nat /\ size > 0 /\ size % WSIZE = 0
  BY DriverAssumption
<1>2. (size + 3 * WSIZE + WSIZE - 1) \div WSIZE = size \div WSIZE + 3
  BY <1>1 DEF WSIZE
<1>3. size \div WSIZE \in Int /\ size \div WSIZE > 0
  BY <1>1 DEF WSIZE
<1>4. BlockWords(size) = IF (size \div WSIZE + 3) % 2 = 0 THEN size \div WSIZE + 3
                         ELSE size \div WSIZE + 3 + 1
  BY <1>2 DEF BlockWords, byte2wordAligned
<1> QED
  BY <1>1, <1>3, <1>4

\* A block is had: it is allocated, of the words asked for, the others stay.
Got(h, T, size, b, k) ==
  \E U : /\ Whole(k, U) /\ Allocated(k, U) = Allocated(h, T) \cup {b}
         /\ b \notin Allocated(h, T)
         /\ Size(k, b) >= BlockWords(size) /\ Kept(h, k, Allocated(h, T))

\* None is had, because none is free and the heap cannot grow by two.
Refused(h, T, size, k) ==
  /\ \E U : /\ Whole(k, U) /\ Allocated(h, T) \subseteq Allocated(k, U)
            /\ Kept(h, k, Allocated(h, T))
  /\ \A b \in FreeIn(h, T) : Size(h, b) < BlockWords(size)
  /\ h.brk + 2 * BlockWords(size) > MAX_HEAP

\* Nothing changes: all blocks are kept.
LEMMA KeptAll ==
  ASSUME NEW h, NEW D
  PROVE  Kept(h, h, D)
BY DEF Kept

\* Blocks kept twice are kept.
LEMMA KeptOn ==
  ASSUME NEW h, NEW g, NEW k, NEW D, NEW C, Kept(h, g, D), Kept(g, k, C), D \subseteq C
  PROVE  Kept(h, k, D)
BY DEF Kept, After

\* A part of the blocks kept is kept.
LEMMA KeptPart ==
  ASSUME NEW h, NEW k, NEW D, NEW C, Kept(h, k, D), C \subseteq D
  PROVE  Kept(h, k, C)
BY DEF Kept

\* What find_fit finds may be allocated.
LEMMA FitFacts ==
  ASSUME NEW h, NEW T, Whole(h, T), NEW words \in Int
  PROVE  \/ find_fit(h, words) = Null /\ \A b \in FreeIn(h, T) : Size(h, b) < words
         \/ /\ find_fit(h, words) # Null
            /\ find_fit(h, words) \in FreeIn(h, T) /\ find_fit(h, words) \in T
            /\ Size(h, find_fit(h, words)) >= words
            /\ Grantable(h, T, find_fit(h, words))
<1> DEFINE F == FreeIn(h, T)
           b == find_fit(h, words)
<1>1. /\ h \in Heap /\ Tiling(h, T) /\ Tagged(h, T) /\ Footed(h, F) /\ Untouched(h, F)
      /\ Lists(h, F, Kinds(h))
  BY DEF Whole
<1>2. F \in SUBSET T
  BY DEF FreeIn
<1>3. Sized(h, F, Kinds(h))
  BY <1>1, <1>2, KindsSized
<1>4. \/ b = Null /\ \A x \in F : Size(h, x) < words
      \/ b \in F /\ Size(h, b) >= words
  BY <1>1, <1>3, FindFit
<1> HIDE DEF b
<1>5. ASSUME b \in F
      PROVE  b # Null /\ b \in T /\ Grantable(h, T, b)
  <2>1. b \in T /\ FirstBlock <= b
    BY <1>1, <1>2, <1>5, TilingType
  <2>2. Footed(h, F \ {b})
    BY <1>1 DEF Footed
  <2> QED
    BY <1>1, <1>5, <2>1, <2>2, HeapShape DEF Grantable, Null
<1> QED
  BY <1>4, <1>5 DEF F, b

\* mm_malloc gives a block, or fails as the heap is full.
LEMMA MallocFacts ==
  ASSUME NEW h, NEW T, Whole(h, T), NEW size \in Sizes,
         NEW got, got = mm_malloc(h, size)
  PROVE  \/ got.ptr = Null /\ Refused(h, T, size, got.heap)
         \/ /\ got.ptr # Null /\ got.ptr \in Int
            /\ Got(h, T, size, got.ptr - 3, got.heap)
<1> DEFINE words == BlockWords(size)
           fit == find_fit(h, words)
           new == mm_extend_heap(h, words, 1)
           spare == mm_extend_heap(new.heap, words, 0)
           E == End(h)
           F == FreeIn(h, T)
           A == Allocated(h, T)
<1>w. words \in Int /\ words >= 4 /\ words % 2 = 0
  BY WordsType
<1>h. h \in Heap /\ Tiling(h, T) /\ Tagged(h, T)
  BY DEF Whole
<1>t. /\ \A x \in T : x \in Int /\ After(h, x) \in Int /\ After(h, x) <= E /\ x < E
      /\ E \in Int /\ E > 0
  <2>1. FirstBlock <= E
    BY <1>h DEF Tiling
  <2>2. \A x \in T : After(h, x) \in Int
    BY <1>h, TilingType
  <2>3. \A x \in T : x \in Int /\ After(h, x) <= E /\ x < E
    BY <1>h, TilingType
  <2>4. E \in Int
    BY <1>h, TilingType
  <2> HIDE DEF E
  <2> QED
    BY <2>1, <2>2, <2>3, <2>4, HeapShape
<1>g. got = IF fit # Null THEN Ret(Payload(fit), allocate_block(h, fit, words))
            ELSE IF new.block = Null THEN Ret(Null, h)
            ELSE IF spare.block = Null THEN Ret(Null, new.heap)
            ELSE Ret(Payload(new.block), place_free_block(spare.heap, spare.block))
  BY DEF mm_malloc
<1> HIDE DEF words, E, new, spare
<1>f. \/ fit = Null /\ \A b \in F : Size(h, b) < words
      \/ fit # Null /\ fit \in F /\ fit \in T /\ Size(h, fit) >= words /\ Grantable(h, T, fit)
  BY <1>w, FitFacts
<1> HIDE DEF fit, F, A
<1>1. CASE fit # Null
  <2> DEFINE k == allocate_block(h, fit, words)
  <2>1. got = [ptr |-> fit + 3, heap |-> k]
    BY <1>g, <1>1 DEF Ret, Payload
  <2>2. got.ptr = fit + 3 /\ got.heap = k
    BY <2>1
  <2>3. Granted(h, T, fit, words, k)
    BY <1>w, <1>f, <1>1, AllocateFacts
  <2>4. fit \notin A
    BY <1>f, <1>1 DEF A, F, Allocated
  <2> HIDE DEF k
  <2>5. Got(h, T, size, fit, k)
    BY <2>3, <2>4 DEF Got, Granted, A, words
  <2>6. fit \in Int /\ fit > 0
    <3>1. FirstBlock <= fit /\ fit \in Int
      BY <1>h, <1>f, <1>1, TilingType
    <3> QED
      BY <3>1, HeapShape
  <2>7. got.ptr \in Int /\ got.ptr - 3 = fit /\ got.ptr # Null
    BY <2>2, <2>6 DEF Null
  <2> QED
    BY <2>2, <2>5, <2>7, Zenon
<1>2. CASE fit = Null /\ Fails(h, words)
  <2>1. new = [block |-> Null, heap |-> h]
    BY <1>2 DEF mm_extend_heap, new
  <2>2. got = [ptr |-> Null, heap |-> h]
    BY <1>g, <1>2, <2>1 DEF Ret
  <2>3. got.ptr = Null /\ got.heap = h
    BY <2>2
  <2>4. h.brk + 2 * words > MAX_HEAP
    <3>1. h.brk \in Int /\ h.brk + words > MAX_HEAP
      BY <1>h, <1>2, HeapType DEF Fails
    <3> QED
      BY <1>w, <3>1, HeapShape
  <2>5. \A b \in F : Size(h, b) < words
    BY <1>f, <1>2
  <2>6. Refused(h, T, size, h)
    BY <2>4, <2>5, KeptAll DEF Refused, words, F
  <2> QED
    BY <2>3, <2>6
<1>3. CASE fit = Null /\ ~Fails(h, words)
  <2> DEFINE g == new.heap
             U == T \cup {E}
  <2>1. new.block = E /\ Grown(h, T, words, 1, g)
    BY <1>h, <1>w, <1>3, ExtendFacts DEF new, E, Bit
  <2>2. /\ Whole(g, U) /\ FreeIn(g, U) = F /\ Allocated(g, U) = A \cup {E}
        /\ \A x \in T : Size(g, x) = Size(h, x)
        /\ Kept(h, g, T) /\ E \notin T
    <3>1. E = End(h) /\ F = FreeIn(h, T) /\ A = Allocated(h, T)
      BY DEF E, F, A
    <3> HIDE DEF g
    <3>2. /\ Whole(g, T \cup {End(h)})
          /\ FreeIn(g, T \cup {End(h)}) = FreeIn(h, T)
          /\ Allocated(g, T \cup {End(h)}) = Allocated(h, T) \cup {End(h)}
          /\ \A x \in T : Size(g, x) = Size(h, x)
          /\ Kept(h, g, T) /\ End(h) \notin T
      <4>1. Grown(h, T, words, 1, g)
        BY <2>1
      <4> QED
        BY <1>w, <4>1, GrownWhole
    <3> QED
      BY <3>1, <3>2, Zenon
  <2>3. g.brk = h.brk + words /\ Size(g, E) = words /\ g \in Heap /\ Tiling(g, U) /\ Tagged(g, U)
    BY <2>1 DEF Grown, E
  <2>4. Kept(h, g, A) /\ E \notin A /\ A \subseteq T
    BY <2>2, KeptPart DEF A, Allocated
  <2> HIDE DEF g, U
  <2>5. E # Null
    BY <1>t DEF Null
  <2>6. CASE Fails(g, words)
    <3>1. spare = [block |-> Null, heap |-> g]
      BY <2>6 DEF mm_extend_heap, spare, g
    <3>2. got = [ptr |-> Null, heap |-> g]
      BY <1>g, <1>3, <2>1, <2>5, <3>1 DEF Ret, g
    <3>3. got.ptr = Null /\ got.heap = g
      BY <3>2
    <3>4. h.brk + 2 * words > MAX_HEAP
      <4>1. h.brk \in Int /\ g.brk + words > MAX_HEAP
        BY <1>h, <2>6, HeapType DEF Fails
      <4> QED
        BY <1>w, <2>3, <4>1
    <3>5. \A b \in F : Size(h, b) < words
      BY <1>f, <1>3
    <3>6. A \subseteq Allocated(g, U)
      BY <2>2
    <3>7. Refused(h, T, size, g)
      BY <2>2, <2>4, <3>4, <3>5, <3>6 DEF Refused, A, F, words
    <3> QED
      BY <3>3, <3>7
  <2>7. CASE ~Fails(g, words)
    <3> DEFINE s == spare.heap
               k == place_free_block(s, End(g))
               V == U \cup {End(g)}
    <3>1. spare.block = End(g) /\ Grown(g, U, words, 0, s)
      BY <1>w, <2>3, <2>7, ExtendFacts DEF spare, g, Bit
    <3>2. End(g) = E + words /\ End(g) # Null
      <4>1. h.brk \in Int
        BY <1>h, HeapType
      <4> QED
        BY <1>w, <1>t, <2>3, <4>1 DEF End, E, Null
    <3>3. ASSUME NEW x \in F, After(g, x) = End(g) PROVE FALSE
      <4>1. x \in T /\ Size(g, x) = Size(h, x)
        BY <2>2 DEF F, FreeIn
      <4>2. After(g, x) = After(h, x)
        BY <4>1 DEF After
      <4> QED
        BY <1>w, <1>t, <3>2, <3>3, <4>1, <4>2
    <3>4. got = [ptr |-> E + 3, heap |-> k]
      BY <1>g, <1>3, <2>1, <2>5, <3>1, <3>2 DEF Ret, Payload
    <3>5. got.ptr = E + 3 /\ got.heap = k
      BY <3>4
    <3> HIDE DEF s
    <3>6. /\ Whole(k, V) /\ Allocated(k, V) = A \cup {E}
          /\ \A x \in U : Size(k, x) = Size(g, x)
          /\ Kept(g, k, A \cup {E})
      BY <1>w, <2>2, <3>1, <3>3, SpareWhole
    <3> HIDE DEF k, V
    <3>7. Kept(h, k, A)
      BY <2>4, <3>6, KeptOn
    <3>8. Size(k, E) >= words
      BY <1>w, <2>3, <3>6 DEF U
    <3>9. Got(h, T, size, E, k)
      BY <2>4, <3>6, <3>7, <3>8 DEF Got, A, words
    <3>10. got.ptr \in Int /\ got.ptr - 3 = E /\ got.ptr # Null
      BY <1>t, <3>5 DEF Null
    <3> QED
      BY <3>5, <3>9, <3>10, Zenon
  <2> QED
    BY <2>6, <2>7
<1> QED
  BY <1>1, <1>2, <1>3

-----------------------------------------------------------------------------
(* Words of a payload are written: by the move of mm_realloc, by the       *)
(* program.  Nothing but the footer that the block had can break.          *)
PayloadWritten(g, d, n, k) ==
  /\ k \in Heap /\ k.brk = g.brk
  /\ \A a \in Words : a \in d+3..d+n-1 \/ k.mem[a] = g.mem[a]

OnlyPayload(g, V, d, k) ==
  /\ End(k) = End(g) /\ \A x \in V \cup {End(g)} : k.mem[x] = g.mem[x]
  /\ Kept(g, k, V \ {d})
  /\ \A x \in V : x # d => k.mem[After(g, x) - 1] = g.mem[After(g, x) - 1]
  /\ \A a \in Words : \/ k.mem[a] = g.mem[a]
                      \/ \E x \in V : a \in x+3..After(g, x)-1

\* A write to a payload leaves sizes, tags and footers of the others.
LEMMA WrittenHeaders ==
  ASSUME NEW g \in Heap, NEW V, Tiling(g, V), NEW d \in V, NEW n \in Int, n <= Size(g, d),
         NEW k, PayloadWritten(g, d, n, k)
  PROVE  OnlyPayload(g, V, d, k)
<1>1. /\ End(g) \in Words
      /\ \A x \in V : /\ x \in Words /\ x \in Int /\ After(g, x) \in Int /\ x + 4 <= After(g, x)
                      /\ x..After(g, x)-1 \subseteq Words /\ Size(g, x) \in Int
                      /\ After(g, x) = x + Size(g, x)
  BY TilingType DEF After
<1>2. ASSUME NEW a \in d+3..d+n-1 PROVE a \in d+3..After(g, d)-1 /\ a \in d..After(g, d)-1 /\ a # d
  BY <1>1
<1>3. /\ k \in Heap /\ k.brk = g.brk
      /\ \A a \in Words : a \in d+3..d+n-1 \/ k.mem[a] = g.mem[a]
  BY DEF PayloadWritten
<1>4. ASSUME NEW x \in V \cup {End(g)} PROVE k.mem[x] = g.mem[x]
  <2>1. x \notin d+3..d+n-1
    <3> SUFFICES ASSUME x \in d+3..d+n-1 PROVE FALSE
      OBVIOUS
    <3>1. x \in d..After(g, d)-1 /\ x # d
      BY <1>2
    <3> QED
      BY <3>1, OwnWords
  <2> QED
    BY <1>1, <1>3, <2>1
<1>5. ASSUME NEW x \in V, x # d, NEW a \in x..After(g, x)-1 PROVE k.mem[a] = g.mem[a]
  <2>1. a \in Words /\ a \notin d..After(g, d)-1
    BY <1>1, <1>5, OwnWords
  <2> QED
    BY <1>2, <1>3, <2>1
<1>6. \A x \in V : \A a \in x+1..After(g, x)-1 : a \in x..After(g, x)-1
  BY <1>1
<1>7. \A x \in V : After(g, x) - 1 \in x..After(g, x)-1
  BY <1>1
<1>8. Kept(g, k, V \ {d})
  BY <1>4, <1>5, <1>6 DEF Kept, Size
<1> QED
  BY <1>2, <1>3, <1>4, <1>5, <1>7, <1>8 DEF End, OnlyPayload

\* What holds of the heap but for the footer of a block that is not free.
LEMMA WrittenLists ==
  ASSUME NEW g \in Heap, NEW V, Tiling(g, V), Tagged(g, V), NEW d \in V, NEW n \in Int,
         n <= Size(g, d), NEW k, PayloadWritten(g, d, n, k),
         Footed(g, FreeIn(g, V) \ {d}), Untouched(g, FreeIn(g, V)),
         Lists(g, FreeIn(g, V), Kinds(g))
  PROVE  /\ k \in Heap /\ Tiling(k, V) /\ Tagged(k, V) /\ FreeIn(k, V) = FreeIn(g, V)
         /\ \A x \in V : Size(k, x) = Size(g, x)
         /\ Footed(k, FreeIn(g, V) \ {d}) /\ Untouched(k, FreeIn(g, V))
         /\ Lists(k, FreeIn(g, V), Kinds(k))
<1> DEFINE F == FreeIn(g, V)
<1>1. F \subseteq V
  BY DEF FreeIn
<1>2. /\ End(k) = End(g) /\ \A x \in V \cup {End(g)} : k.mem[x] = g.mem[x]
      /\ Kept(g, k, V \ {d})
      /\ \A x \in V : x # d => k.mem[After(g, x) - 1] = g.mem[After(g, x) - 1]
      /\ \A a \in Words : \/ k.mem[a] = g.mem[a]
                          \/ \E x \in V : a \in x+3..After(g, x)-1
  <2>1. OnlyPayload(g, V, d, k)
    BY WrittenHeaders
  <2> QED
    BY <2>1 DEF OnlyPayload
<1>3. k \in Heap
  BY DEF PayloadWritten
<1>4. /\ Tiling(k, V) /\ Tagged(k, V) /\ FreeIn(k, V) = F
      /\ \A x \in V \cup {End(g)} : Size(k, x) = Size(g, x) /\ After(k, x) = After(g, x)
  BY <1>2, SameHeaders
<1>5. Footed(g, F \ {d}) /\ Untouched(g, F) /\ Lists(g, F, Kinds(g))
  OBVIOUS
<1> HIDE DEF F
<1>6. Footed(k, F \ {d}) /\ Untouched(k, F)
  BY <1>1, <1>2, <1>4, <1>5 DEF Footed, Untouched
<1>7. Lists(k, F, Kinds(k))
  <2>1. Lists(k, F, Kinds(g))
    BY <1>1, <1>2, <1>3, <1>5, ListsElsewhere
  <2> QED
    BY <1>1, <1>4, <2>1, ListsKinds
<1> QED
  BY <1>3, <1>4, <1>6, <1>7 DEF F

\* A block that may be allocated still may be.
LEMMA WrittenGrantable ==
  ASSUME NEW g, NEW V, NEW d, Grantable(g, V, d), NEW n \in Int, n <= Size(g, d),
         NEW k, PayloadWritten(g, d, n, k)
  PROVE  /\ Grantable(k, V, d) /\ Allocated(k, V) = Allocated(g, V)
         /\ Kept(g, k, Allocated(g, V)) /\ Size(k, d) = Size(g, d)
<1>1. /\ g \in Heap /\ Tiling(g, V) /\ Tagged(g, V) /\ d \in FreeIn(g, V) /\ d \in V
      /\ Footed(g, FreeIn(g, V) \ {d}) /\ Untouched(g, FreeIn(g, V))
      /\ Lists(g, FreeIn(g, V), Kinds(g))
  BY DEF Grantable, FreeIn
<1>2. /\ k \in Heap /\ Tiling(k, V) /\ Tagged(k, V) /\ FreeIn(k, V) = FreeIn(g, V)
      /\ \A x \in V : Size(k, x) = Size(g, x)
      /\ Footed(k, FreeIn(g, V) \ {d}) /\ Untouched(k, FreeIn(g, V))
      /\ Lists(k, FreeIn(g, V), Kinds(k))
  BY <1>1, WrittenLists
<1>3. Kept(g, k, V \ {d})
  BY <1>1, WrittenHeaders DEF OnlyPayload
<1>4. Allocated(g, V) \subseteq V \ {d}
  BY <1>1 DEF Allocated
<1> QED
  BY <1>1, <1>2, <1>3, <1>4, KeptPart DEF Grantable, Allocated

\* A heap stays whole when the payload of an allocated block is written.
LEMMA WrittenWhole ==
  ASSUME NEW g, NEW V, Whole(g, V), NEW d \in Allocated(g, V), NEW n \in Int, n <= Size(g, d),
         NEW k, PayloadWritten(g, d, n, k)
  PROVE  /\ Whole(k, V) /\ Allocated(k, V) = Allocated(g, V)
         /\ Kept(g, k, Allocated(g, V) \ {d}) /\ \A x \in V : Size(k, x) = Size(g, x)
<1>1. /\ g \in Heap /\ Tiling(g, V) /\ Tagged(g, V) /\ d \notin FreeIn(g, V) /\ d \in V
      /\ Footed(g, FreeIn(g, V)) /\ Untouched(g, FreeIn(g, V))
      /\ Lists(g, FreeIn(g, V), Kinds(g)) /\ FreeIn(g, V) \ {d} = FreeIn(g, V)
  BY DEF Whole, Allocated
<1>2. /\ k \in Heap /\ Tiling(k, V) /\ Tagged(k, V) /\ FreeIn(k, V) = FreeIn(g, V)
      /\ \A x \in V : Size(k, x) = Size(g, x)
      /\ Footed(k, FreeIn(g, V)) /\ Untouched(k, FreeIn(g, V))
      /\ Lists(k, FreeIn(g, V), Kinds(k))
  BY <1>1, WrittenLists
<1>3. Kept(g, k, V \ {d})
  BY <1>1, WrittenHeaders DEF OnlyPayload
<1>4. Allocated(g, V) \ {d} \subseteq V \ {d}
  BY DEF Allocated
<1> QED
  BY <1>2, <1>3, <1>4, KeptPart DEF Whole, Allocated

\* The move of the old words into the new payload, the last one from before.
MovedTo(g, d, words, old, copy, ptr, last, k) ==
  /\ PayloadWritten(g, d, words, k)
  /\ \A j \in 0..copy-1 :
       k.mem[d + 3 + j] = IF words - 3 >= old /\ j = old - 1 THEN last ELSE g.mem[ptr + j]

\* memmove and the word put back give the new payload the old words.
LEMMA MoveFacts ==
  ASSUME NEW g \in Heap, NEW V, Tiling(g, V), NEW d \in V,
         NEW words \in Int, words <= Size(g, d), NEW old \in Int, NEW copy \in Int,
         0 < copy, copy <= old, copy <= words - 3, NEW ptr \in Int, NEW last \in Int,
         \A j \in 0..old-1 : ptr + j \in Words,
         NEW k, k = RestoreLast(memmove(g, d + 3, ptr, copy), d + 3, old, words, last)
  PROVE  MovedTo(g, d, words, old, copy, ptr, last, k)
<1> DEFINE m == memmove(g, d + 3, ptr, copy)
<1>1. d \in Words /\ d \in Int /\ d > 0 /\ \A a \in d+3..d+words-1 : a \in Words
  <2>1. /\ d \in Words /\ d \in Int /\ FirstBlock <= d
        /\ d..After(g, d)-1 \subseteq Words /\ Size(g, d) \in Int /\ After(g, d) = d + Size(g, d)
    BY TilingType DEF After
  <2>2. \A a \in d+3..d+words-1 : a \in d..After(g, d)-1
    BY <2>1
  <2> QED
    BY <2>1, <2>2, HeapShape
<1>2. /\ DOMAIN g.mem = Words /\ g.brk \in 0..MAX_HEAP
      /\ \A a \in Words : g.mem[a] \in Int
      /\ g = [brk |-> g.brk, mem |-> g.mem]
  BY DEF Heap
<1> DEFINE M == [a \in Words |-> IF a \in d+3..d+3+copy-1 THEN g.mem[ptr + a - (d + 3)]
                                 ELSE g.mem[a]]
<1>3. m = [brk |-> g.brk, mem |-> M]
  BY <1>2 DEF memmove
<1>4. m.brk = g.brk /\ m.mem = M
  BY <1>3
<1>5. ASSUME NEW a \in Words, a \in d+3..d+3+copy-1
      PROVE  g.mem[ptr + a - (d + 3)] \in Int
  <2> DEFINE j == a - (d + 3)
  <2>1. j \in 0..old-1 /\ ptr + a - (d + 3) = ptr + j
    BY <1>1, <1>5
  <2> HIDE DEF j
  <2> QED
    BY <1>2, <2>1
<1>6. M \in [Words -> Int]
  BY <1>2, <1>5
<1> HIDE DEF M
<1>7. m \in Heap
  BY <1>2, <1>3, <1>6 DEF Heap
<1>8. ASSUME NEW j \in 0..copy-1
      PROVE  m.mem[d + 3 + j] = g.mem[ptr + j] /\ d + 3 + j \in Words
  <2>1. d + 3 + j \in d+3..d+words-1 /\ d + 3 + j \in d+3..d+3+copy-1
        /\ ptr + (d + 3 + j) - (d + 3) = ptr + j
    BY <1>1
  <2>2. d + 3 + j \in Words
    BY <1>1, <2>1
  <2>3. M[d + 3 + j] = g.mem[ptr + (d + 3 + j) - (d + 3)]
    BY <2>1, <2>2 DEF M
  <2> QED
    BY <1>4, <2>1, <2>2, <2>3, Zenon
<1>9. \A a \in Words : a \in d+3..d+words-1 \/ m.mem[a] = g.mem[a]
  <2>1. \A a \in Words : a \in d+3..d+3+copy-1 => a \in d+3..d+words-1
    BY <1>1 DEF Words
  <2> QED
    BY <1>4, <2>1 DEF M
<1> HIDE DEF m
<1>10. CASE words - 3 >= old
  <2>1. k = Put(m, d + 3 + old - 1, last)
    BY <1>10 DEF RestoreLast, m
  <2> DEFINE z == d + 3 + old - 1
  <2>2. z \in Words /\ z \in d+3..d+words-1
    BY <1>1, <1>10
  <2>3. \A j \in 0..copy-1 : (d + 3 + j = z) <=> (j = old - 1)
    BY <1>1
  <2> HIDE DEF z
  <2>4. Wrote(m, z, last, k)
    BY <1>7, <2>1, <2>2, PutFacts DEF z
  <2> QED
    BY <1>4, <1>8, <1>9, <1>10, <2>2, <2>3, <2>4 DEF Wrote, PayloadWritten, MovedTo
<1>11. CASE ~(words - 3 >= old)
  <2>1. k = m
    BY <1>11 DEF RestoreLast, m
  <2> QED
    BY <1>4, <1>7, <1>8, <1>9, <1>11, <2>1 DEF PayloadWritten, MovedTo
<1> QED
  BY <1>10, <1>11

(* mm_realloc: it gives up the block, or moves its words to another. *)
GivenUp(h, T, size, b, k) ==
  /\ \E U : /\ Whole(k, U) /\ Allocated(k, U) = Allocated(h, T) \ {b}
            /\ Kept(h, k, Allocated(h, T) \ {b}) /\ IsFree(k, b)
            /\ \A x \in FreeIn(k, U) : Size(k, x) < BlockWords(size)
  /\ Fails(h, BlockWords(size))

Resized(h, T, size, ptr, b, k) ==
  /\ \E U : /\ Whole(k, U) /\ Allocated(k, U) = (Allocated(h, T) \ {ptr - 3}) \cup {b}
            /\ b \notin Allocated(h, T) \ {ptr - 3}
            /\ Size(k, b) >= BlockWords(size) /\ Kept(h, k, Allocated(h, T) \ {ptr - 3})
  /\ \A j \in 0..Min({Size(h, ptr - 3) - 3, size \div WSIZE})-1 : k.mem[b + 3 + j] = h.mem[ptr + j]

\* The least of two numbers.
LEMMA MinOfTwo ==
  ASSUME NEW x \in Nat, NEW y \in Nat
  PROVE  Min({x, y}) \in {x, y} /\ Min({x, y}) <= x /\ Min({x, y}) <= y
BY MinIsLeast

\* mm_realloc gives a block with the old words, or gives up the old one.
LEMMA ReallocFacts ==
  ASSUME NEW h, NEW T, Whole(h, T), NEW size \in Sizes, NEW ptr \in Int,
         ptr - 3 \in Allocated(h, T), NEW got, got = mm_realloc(h, ptr, size)
  PROVE  \/ got.ptr = Null /\ GivenUp(h, T, size, ptr - 3, got.heap)
         \/ /\ got.ptr # Null /\ got.ptr \in Int
            /\ Resized(h, T, size, ptr, got.ptr - 3, got.heap)
<1> DEFINE b == ptr - 3
           A == Allocated(h, T) \ {b}
           words == BlockWords(size)
           old == Size(h, b) - 3
           last == h.mem[ptr + old - 1]
           copy == Min({old, size \div WSIZE})
           f == mm_free(h, ptr)
           fit == find_fit(f, words)
           new == mm_extend_heap(f, words, 1)
           Moved(g, p) == RestoreLast(memmove(g, p, ptr, copy), p, old, words, last)
<1>w. /\ words \in Int /\ words >= 4 /\ words % 2 = 0 /\ size # 0
      /\ size \div WSIZE \in Int /\ size \div WSIZE > 0 /\ size \div WSIZE + 3 <= words
  BY WordsType
<1>b. b \in Allocated(h, T) /\ b = ptr - 3 /\ b \in T /\ h \in Heap /\ Tiling(h, T)
  BY DEF Whole, Allocated
<1>t. /\ b \in Int /\ b > 0 /\ ptr = b + 3 /\ Size(h, b) \in Int /\ Size(h, b) >= 4
      /\ After(h, b) = b + Size(h, b) /\ b..After(h, b)-1 \subseteq Words
  <2>1. /\ b \in Int /\ FirstBlock <= b /\ Size(h, b) \in Int
        /\ b..After(h, b)-1 \subseteq Words
    BY <1>b, TilingType
  <2>2. Size(h, b) >= 4
    BY <1>b DEF Tiling
  <2> QED
    BY <2>1, <2>2, HeapShape DEF After
<1>g. got = IF fit # Null
            THEN Ret(Payload(fit), allocate_block(Moved(f, Payload(fit)), fit, words))
            ELSE IF new.block = Null THEN Ret(Null, f)
            ELSE Ret(Payload(new.block), Moved(new.heap, Payload(new.block)))
  <2>1. got = Relocate(mm_free(h, ptr), ptr, old, last, size)
    BY <1>w, <1>t DEF mm_realloc, get_block, Null
  <2> QED
    BY <2>1 DEF Relocate
<1>f. FreeDone(h, T, b, f)
  BY <1>b, FreeFacts
<1>s. /\ old \in Nat /\ old > 0 /\ \A j \in 0..old-1 : ptr + j \in Words
      /\ ptr + old - 1 = After(h, b) - 1 /\ last \in Int
  <2>1. old \in Nat /\ old > 0 /\ ptr + old - 1 = After(h, b) - 1
    BY <1>t
  <2>2. ASSUME NEW j \in 0..old-1 PROVE ptr + j \in Words
    <3>1. ptr + j \in b..After(h, b)-1
      BY <1>t
    <3> QED
      BY <1>t, <3>1
  <2>3. ptr + (old - 1) \in Words /\ ptr + (old - 1) = ptr + old - 1
    BY <1>t, <2>1, <2>2
  <2>4. last \in Int
    BY <1>b, <2>3, HeapType
  <2> QED
    BY <2>1, <2>2, <2>4
<1> HIDE DEF words, old, last, f, b, A
<1>c. copy \in Int /\ 0 < copy /\ copy <= old /\ copy <= words - 3
      /\ (copy = old => words - 3 >= old)
  <2>1. copy \in {old, size \div WSIZE} /\ copy <= old /\ copy <= size \div WSIZE
    BY <1>s, <1>w, MinOfTwo
  <2> HIDE DEF copy
  <2> QED
    BY <1>s, <1>w, <2>1
<1> HIDE DEF copy
<1>1. PICK U : /\ Whole(f, U) /\ Allocated(f, U) = A /\ f.brk = h.brk
               /\ Kept(h, f, A) /\ IsFree(f, b)
               /\ \A a \in b+3..After(h, b)-2 : f.mem[a] = h.mem[a]
  BY <1>f DEF FreeDone, A
<1>2. ASSUME NEW j \in 0..copy-1
      PROVE  (IF words - 3 >= old /\ j = old - 1 THEN last ELSE f.mem[ptr + j]) = h.mem[ptr + j]
  <2>0. j \in Int /\ 0 <= j /\ j < old
    BY <1>c, <1>s
  <2>1. CASE j = old - 1
    <3>1. copy = old
      BY <1>c, <1>s, <2>0, <2>1
    <3>2. ptr + j = ptr + old - 1
      BY <1>t, <1>s, <2>1
    <3>3. last = h.mem[ptr + j]
      BY <3>2, Zenon DEF last
    <3> QED
      BY <1>c, <2>1, <3>1, <3>3
  <2>2. CASE j # old - 1
    <3>1. ptr + j \in b+3..After(h, b)-2
      BY <1>t, <1>s, <2>0, <2>2
    <3> QED
      BY <1>1, <2>2, <3>1
  <2> QED
    BY <2>1, <2>2
<1>3. \/ fit = Null /\ \A x \in FreeIn(f, U) : Size(f, x) < words
      \/ /\ fit # Null /\ fit \in FreeIn(f, U) /\ fit \in U
         /\ Size(f, fit) >= words /\ Grantable(f, U, fit)
  BY <1>1, <1>w, FitFacts
<1>4. f \in Heap /\ Tiling(f, U) /\ Tagged(f, U)
  BY <1>1 DEF Whole
<1> HIDE DEF fit, new
<1>5. CASE fit # Null
  <2> DEFINE g == Moved(f, fit + 3)
             k == allocate_block(g, fit, words)
  <2>1. got = [ptr |-> fit + 3, heap |-> k]
    BY <1>g, <1>5 DEF Ret, Payload
  <2>2. got.ptr = fit + 3 /\ got.heap = k
    BY <2>1
  <2>3. fit \in Int /\ fit > 0 /\ Size(f, fit) \in Int
    <3>1. FirstBlock <= fit /\ fit \in Int /\ Size(f, fit) \in Int
      BY <1>3, <1>4, <1>5, TilingType
    <3> QED
      BY <3>1, HeapShape
  <2>4. g = RestoreLast(memmove(f, fit + 3, ptr, copy), fit + 3, old, words, last)
    OBVIOUS
  <2> HIDE DEF g
  <2>5. /\ PayloadWritten(f, fit, words, g)
        /\ \A j \in 0..copy-1 :
             g.mem[fit + 3 + j] = IF words - 3 >= old /\ j = old - 1 THEN last ELSE f.mem[ptr + j]
    <3>1. words <= Size(f, fit) /\ fit \in U /\ old \in Int
      BY <1>w, <1>3, <1>5, <1>s, <2>3
    <3>2. MovedTo(f, fit, words, old, copy, ptr, last, g)
      BY <1>4, <1>w, <1>s, <1>c, <2>4, <3>1, MoveFacts
    <3> QED
      BY <3>2 DEF MovedTo
  <2>6. /\ Grantable(g, U, fit) /\ Allocated(g, U) = A
        /\ Kept(f, g, A) /\ Size(g, fit) = Size(f, fit)
    <3>1. words <= Size(f, fit)
      BY <1>w, <1>3, <1>5, <2>3
    <3> QED
      BY <1>w, <1>1, <1>3, <1>5, <2>5, <3>1, WrittenGrantable
  <2>7. Granted(g, U, fit, words, k)
    <3>1. Size(g, fit) >= words
      BY <1>3, <1>5, <2>6
    <3> QED
      BY <1>w, <2>6, <3>1, AllocateFacts
  <2> HIDE DEF k
  <2>8. PICK V : /\ Whole(k, V) /\ Allocated(k, V) = A \cup {fit} /\ k.brk = g.brk
                 /\ Size(k, fit) >= words /\ Kept(g, k, A)
                 /\ \A a \in fit+3..fit+words-1 : k.mem[a] = g.mem[a]
    BY <2>6, <2>7 DEF Granted
  <2>9. fit \notin A
    BY <1>1, <1>3, <1>5 DEF Allocated
  <2>10. Kept(h, k, A)
    <3>1. Kept(h, g, A)
      BY <1>1, <2>6, KeptOn
    <3> QED
      BY <2>8, <3>1, KeptOn
  <2>11. ASSUME NEW j \in 0..copy-1 PROVE k.mem[fit + 3 + j] = h.mem[ptr + j]
    <3>1. fit + 3 + j \in fit+3..fit+words-1
      BY <1>w, <1>c, <2>3
    <3>2. k.mem[fit + 3 + j] = g.mem[fit + 3 + j]
      BY <2>8, <3>1
    <3> QED
      BY <1>2, <2>5, <3>2
  <2>12. Resized(h, T, size, ptr, fit, k)
    BY <2>8, <2>9, <2>10, <2>11 DEF Resized, A, b, copy, old, words
  <2>13. got.ptr \in Int /\ got.ptr - 3 = fit /\ got.ptr # Null
    BY <2>2, <2>3 DEF Null
  <2> QED
    BY <2>2, <2>12, <2>13, Zenon
<1>6. CASE fit = Null /\ Fails(f, words)
  <2>1. new = [block |-> Null, heap |-> f]
    BY <1>6 DEF mm_extend_heap, new
  <2>2. got = [ptr |-> Null, heap |-> f]
    BY <1>g, <1>6, <2>1 DEF Ret
  <2>3. got.ptr = Null /\ got.heap = f
    BY <2>2
  <2>4. Fails(h, words)
    BY <1>1, <1>6 DEF Fails
  <2>5. GivenUp(h, T, size, b, f)
    BY <1>1, <1>3, <1>6, <2>4 DEF GivenUp, A, words
  <2> QED
    BY <1>b, <2>3, <2>5
<1>7. CASE fit = Null /\ ~Fails(f, words)
  <2> DEFINE E == End(f)
             g == new.heap
             V == U \cup {E}
             k == Moved(g, E + 3)
  <2>1. new.block = E /\ Grown(f, U, words, 1, g)
    BY <1>4, <1>w, <1>7, ExtendFacts DEF new, Bit
  <2> HIDE DEF g
  <2>2. /\ Whole(g, V) /\ Allocated(g, V) = A \cup {E}
        /\ Kept(f, g, U) /\ E \notin U
    <3>1. /\ Whole(g, U \cup {End(f)})
          /\ Allocated(g, U \cup {End(f)}) = Allocated(f, U) \cup {End(f)}
          /\ Kept(f, g, U) /\ End(f) \notin U
      BY <1>1, <1>w, <2>1, GrownWhole
    <3> QED
      BY <1>1, <3>1
  <2>3. /\ E \in Int /\ E > 0 /\ Size(g, E) = words /\ g \in Heap /\ Tiling(g, V)
        /\ \A x \in Words : x < E => g.mem[x] = f.mem[x]
    <3>1. E \in Int /\ FirstBlock <= E
      BY <1>4, TilingType DEF Tiling
    <3> QED
      BY <2>1, <3>1, HeapShape DEF Grown
  <2>4. got = [ptr |-> E + 3, heap |-> k]
    <3>1. E # Null
      BY <2>3 DEF Null
    <3> QED
      BY <1>g, <1>7, <2>1, <3>1 DEF Ret, Payload, g
  <2>5. got.ptr = E + 3 /\ got.heap = k
    BY <2>4
  <2>6. k = RestoreLast(memmove(g, E + 3, ptr, copy), E + 3, old, words, last)
    OBVIOUS
  <2> HIDE DEF k, E, V
  <2>7. E \in V
    BY DEF V
  <2>8. /\ PayloadWritten(g, E, words, k)
        /\ \A j \in 0..copy-1 :
             k.mem[E + 3 + j] = IF words - 3 >= old /\ j = old - 1 THEN last ELSE g.mem[ptr + j]
    <3>1. words <= Size(g, E) /\ old \in Int
      BY <1>w, <1>s, <2>3
    <3>2. MovedTo(g, E, words, old, copy, ptr, last, k)
      BY <1>w, <1>s, <1>c, <2>3, <2>6, <2>7, <3>1, MoveFacts
    <3> QED
      BY <3>2 DEF MovedTo
  <2>9. /\ Whole(k, V) /\ Allocated(k, V) = A \cup {E}
        /\ Kept(g, k, (A \cup {E}) \ {E}) /\ Size(k, E) = words
    <3>1. words <= Size(g, E) /\ E \in Allocated(g, V)
      BY <1>w, <2>2, <2>3
    <3>2. /\ Whole(k, V) /\ Allocated(k, V) = Allocated(g, V)
          /\ Kept(g, k, Allocated(g, V) \ {E}) /\ \A x \in V : Size(k, x) = Size(g, x)
      <4>1. words \in Int /\ words <= Size(g, E) /\ E \in Allocated(g, V)
            /\ Whole(g, V) /\ PayloadWritten(g, E, words, k)
        BY <1>w, <2>2, <2>8, <3>1
      <4> QED
        BY <4>1, WrittenWhole
    <3> QED
      BY <2>2, <2>3, <2>7, <3>2
  <2>10. E \notin A /\ A \subseteq U
    BY <1>1, <2>2 DEF Allocated
  <2>11. Kept(h, k, A)
    <3>1. Kept(h, g, A)
      BY <1>1, <2>2, <2>10, KeptOn
    <3>2. (A \cup {E}) \ {E} = A
      BY <2>10
    <3> QED
      BY <2>9, <3>1, <3>2, KeptOn
  <2>12. ASSUME NEW j \in 0..copy-1 PROVE k.mem[E + 3 + j] = h.mem[ptr + j]
    <3>1. ptr + j \in Words /\ ptr + j < E
      <4>1. ptr + j \in Words /\ ptr + j < After(h, b)
        BY <1>t, <1>s, <1>c
      <4>2. After(h, b) <= End(h) /\ End(h) = E
        BY <1>b, <1>1, TilingType DEF End, E
      <4> QED
        BY <1>t, <2>3, <4>1, <4>2
    <3>2. g.mem[ptr + j] = f.mem[ptr + j]
      BY <2>3, <3>1
    <3> QED
      BY <1>2, <2>8, <3>2
  <2>13. Size(k, E) >= words
    BY <1>w, <2>9
  <2>14. Resized(h, T, size, ptr, E, k)
    BY <2>9, <2>10, <2>11, <2>12, <2>13 DEF Resized, A, b, copy, old, words
  <2>15. got.ptr \in Int /\ got.ptr - 3 = E /\ got.ptr # Null
    BY <2>3, <2>5 DEF Null
  <2> QED
    BY <2>5, <2>14, <2>15, Zenon
<1> QED
  BY <1>5, <1>6, <1>7

-----------------------------------------------------------------------------
(* The driver.  Of the blocks B, those of the indices I are allocated,     *)
(* large enough, all different, and hold what the program wrote.           *)
Holds(h, T, B, I) ==
  /\ Whole(h, T)
  /\ \A i \in I : /\ B[i].ptr \in Int /\ B[i].size \in Sizes
                  /\ B[i].ptr - 3 \in Allocated(h, T)
                  /\ B[i].size \div WSIZE + 3 <= Size(h, B[i].ptr - 3)
                  /\ \A a \in Extent(B[i].ptr, B[i].size) : h.mem[a] = Tag(i)
  /\ \A i, j \in I : B[i].ptr = B[j].ptr => i = j

\* T are the blocks of the heap.  A leak is the only allocated block in no use.
Owned(T) ==
  /\ Holds(heap, T, blocks, InUse)
  /\ report # "mm_malloc failed" =>
       \A b \in Allocated(heap, T) : \E i \in InUse : b = blocks[i].ptr - 3

\* The inductive invariant.
IInv ==
  /\ TypeOK
  /\ report \in {"none", "mm_init failed", "mm_malloc failed", "mm_realloc failed"}
  /\ report = "mm_init failed" => Live = {}
  /\ report # "mm_realloc failed" => InUse = Live
  /\ Ready => \E T : Owned(T)

\* A payload lies in its block.
LEMMA ExtentIn ==
  ASSUME NEW h \in Heap, NEW T, Tiling(h, T), NEW b \in T, NEW size \in Sizes,
         size \div WSIZE + 3 <= Size(h, b), NEW ptr, ptr = b + 3
  PROVE  /\ ptr \in Int /\ ptr > 0
         /\ \A a \in Extent(ptr, size) : /\ a \in Int /\ a \in Words
                                         /\ a \in b+1..After(h, b)-1 /\ a \in b..After(h, b)-1
         /\ Extent(ptr, size) = b+3..b+(size \div WSIZE+3)-1
         /\ ptr \in Extent(ptr, size) /\ ptr + size \div WSIZE - 1 \in Extent(ptr, size)
<1>1. size \div WSIZE \in Int /\ size \div WSIZE > 0
  BY WordsType
<1> DEFINE n == size \div WSIZE
<1>2. n \in Int /\ n > 0 /\ n + 3 <= Size(h, b) /\ Extent(ptr, size) = ptr..ptr+n-1
  BY <1>1 DEF Extent
<1> HIDE DEF n
<1>3. /\ b \in Int /\ FirstBlock <= b /\ Size(h, b) \in Int /\ b..After(h, b)-1 \subseteq Words
      /\ After(h, b) = b + Size(h, b)
  BY TilingType DEF After
<1>4. /\ ptr \in Int /\ ptr > 0 /\ Extent(ptr, size) = b+3..b+(n+3)-1
      /\ ptr \in Extent(ptr, size) /\ ptr + n - 1 \in Extent(ptr, size)
      /\ \A a \in Extent(ptr, size) : /\ a \in Int /\ a \in b+1..After(h, b)-1
                                      /\ a \in b..After(h, b)-1
  BY <1>2, <1>3, HeapShape
<1> QED
  BY <1>3, <1>4 DEF n

\* Blocks that are kept hold what they held.
LEMMA HoldsOn ==
  ASSUME NEW h, NEW T, NEW B, NEW I, Holds(h, T, B, I), NEW J \in SUBSET I,
         NEW k, NEW U, Whole(k, U), NEW D, Kept(h, k, D), D \subseteq Allocated(k, U),
         \A i \in J : B[i].ptr - 3 \in D
  PROVE  Holds(k, U, B, J)
<1>1. /\ h \in Heap /\ Tiling(h, T)
      /\ \A i \in I : /\ B[i].ptr \in Int /\ B[i].size \in Sizes /\ B[i].ptr - 3 \in T
                      /\ B[i].size \div WSIZE + 3 <= Size(h, B[i].ptr - 3)
                      /\ \A a \in Extent(B[i].ptr, B[i].size) : h.mem[a] = Tag(i)
      /\ \A i, j \in I : B[i].ptr = B[j].ptr => i = j
  BY DEF Holds, Whole, Allocated
<1>2. ASSUME NEW i \in J
      PROVE  /\ B[i].ptr \in Int /\ B[i].size \in Sizes
             /\ B[i].ptr - 3 \in Allocated(k, U)
             /\ B[i].size \div WSIZE + 3 <= Size(k, B[i].ptr - 3)
             /\ \A a \in Extent(B[i].ptr, B[i].size) : k.mem[a] = Tag(i)
  <2> DEFINE b == B[i].ptr - 3
  <2>1. /\ b \in D /\ b \in T /\ B[i].ptr = b + 3 /\ B[i].size \in Sizes /\ B[i].ptr \in Int
        /\ B[i].size \div WSIZE + 3 <= Size(h, b)
    BY <1>1
  <2> HIDE DEF b
  <2>2. Size(k, b) = Size(h, b) /\ \A a \in b+1..After(h, b)-1 : k.mem[a] = h.mem[a]
    BY <2>1 DEF Kept
  <2>3. \A a \in Extent(B[i].ptr, B[i].size) : a \in b+1..After(h, b)-1
    BY <1>1, <2>1, ExtentIn
  <2>4. \A a \in Extent(B[i].ptr, B[i].size) : k.mem[a] = Tag(i)
    BY <1>1, <2>2, <2>3
  <2>5. b \in Allocated(k, U) /\ B[i].size \div WSIZE + 3 <= Size(k, b)
    BY <2>1, <2>2
  <2> QED
    BY <2>1, <2>4, <2>5 DEF b
<1> QED
  BY <1>1, <1>2 DEF Holds

\* The driver accepts a block that is in no use and large enough.
LEMMA RangeAccepted ==
  ASSUME NEW k, NEW U, NEW B, NEW J, Holds(k, U, B, J),
         NEW b \in Allocated(k, U), \A j \in J : B[j].ptr - 3 # b,
         NEW size \in Sizes, size \div WSIZE + 3 <= Size(k, b), NEW ptr, ptr = b + 3
  PROVE  add_range(k, {Extent(B[j].ptr, B[j].size) : j \in J}, ptr, size) = "none"
<1>1. /\ k \in Heap /\ Tiling(k, U) /\ b \in U
      /\ \A j \in J : /\ B[j].ptr \in Int /\ B[j].size \in Sizes /\ B[j].ptr - 3 \in U
                      /\ B[j].size \div WSIZE + 3 <= Size(k, B[j].ptr - 3)
  BY DEF Holds, Whole, Allocated
<1>2. /\ ptr \in Int /\ ptr > 0
      /\ \A a \in Extent(ptr, size) : a \in Int /\ a \in Words /\ a \in b..After(k, b)-1
      /\ ptr \in Extent(ptr, size) /\ ptr + size \div WSIZE - 1 \in Extent(ptr, size)
  BY <1>1, ExtentIn
<1> DEFINE hi == ptr + size \div WSIZE - 1
<1>3. hi \in Extent(ptr, size) /\ hi \in Int
  BY <1>2
<1> HIDE DEF hi
<1>4. hi < k.brk
  <2>1. /\ After(k, b) \in Int /\ After(k, b) <= End(k) /\ End(k) \in Int /\ hi \in b..After(k, b)-1
        /\ b \in Int
    BY <1>1, <1>2, <1>3, TilingType
  <2>2. End(k) = k.brk - 1 /\ k.brk \in Int
    BY <1>1, HeapType DEF End
  <2> QED
    BY <1>3, <2>1, <2>2
<1>5. (ptr * WSIZE) % ALIGNMENT = 0
  BY <1>2 DEF WSIZE, ALIGNMENT
<1>6. ASSUME NEW j \in J, NEW a \in Extent(ptr, size), a \in Extent(B[j].ptr, B[j].size)
      PROVE  FALSE
  <2> DEFINE d == B[j].ptr - 3
  <2>1. /\ d \in U /\ B[j].ptr = d + 3 /\ B[j].size \in Sizes
        /\ B[j].size \div WSIZE + 3 <= Size(k, d) /\ d # b
    BY <1>1
  <2> HIDE DEF d
  <2>2. a \in d..After(k, d)-1
    BY <1>1, <1>6, <2>1, ExtentIn
  <2>3. a \in b..After(k, b)-1
    BY <1>2
  <2> QED
    BY <1>1, <2>1, <2>2, <2>3, OwnWords
<1>7. \A r \in {Extent(B[j].ptr, B[j].size) : j \in J} : ~(ptr \in r \/ hi \in r)
  BY <1>2, <1>3, <1>6
<1> QED
  <2> DEFINE R == {Extent(B[j].ptr, B[j].size) : j \in J}
  <2>1. ~(ptr < 0 \/ hi >= k.brk)
    <3>1. k.brk \in Int
      BY <1>1, HeapType
    <3> QED
      BY <1>2, <1>3, <1>4, <3>1
  <2>2. ~\E r \in R : ptr \in r \/ hi \in r
    BY <1>7
  <2> HIDE DEF R
  <2>3. add_range(k, R, ptr, size) =
          CASE (ptr * WSIZE) % ALIGNMENT # 0 -> "not aligned"
            [] ptr < 0 \/ hi >= k.brk -> "outside heap"
            [] \E r \in R : ptr \in r \/ hi \in r -> "overlap"
            [] OTHER -> "none"
    BY DEF add_range, hi
  <2>4. add_range(k, R, ptr, size) = "none"
    BY <1>5, <2>1, <2>2, <2>3
  <2> QED
    BY <2>4 DEF R

\* The driver fills a block that it takes.
Filled(k, U, C, I, g) ==
  Holds(g, U, C, I) /\ Allocated(g, U) = Allocated(k, U) /\ g \in Heap

\* Fill keeps the heap whole and the payloads of the others.
LEMMA FillHolds ==
  ASSUME NEW k, NEW U, NEW B, NEW J, Holds(k, U, B, J), NEW i \in Ids, i \notin J,
         NEW b \in Allocated(k, U), \A j \in J : B[j].ptr - 3 # b,
         NEW size \in Sizes, size \div WSIZE + 3 <= Size(k, b), NEW ptr, ptr = b + 3,
         NEW C, C[i].ptr = ptr, C[i].size = size, \A j \in J : C[j] = B[j],
         NEW g, g = Fill(k, i, ptr, size)
  PROVE  Filled(k, U, C, J \cup {i}, g)
<1> DEFINE n == size \div WSIZE + 3
<1>1. /\ k \in Heap /\ Tiling(k, U) /\ b \in U /\ Whole(k, U)
      /\ \A j \in J : /\ B[j].ptr \in Int /\ B[j].size \in Sizes /\ B[j].ptr - 3 \in Allocated(k, U)
                      /\ B[j].size \div WSIZE + 3 <= Size(k, B[j].ptr - 3)
                      /\ \A a \in Extent(B[j].ptr, B[j].size) : k.mem[a] = Tag(j)
      /\ \A j, m \in J : B[j].ptr = B[m].ptr => j = m
  BY DEF Holds, Whole, Allocated
<1>2. /\ ptr \in Int /\ Extent(ptr, size) = b+3..b+n-1
      /\ \A a \in Extent(ptr, size) : a \in Words
  BY <1>1, ExtentIn
<1>3. Tag(i) \in Int
  BY DriverAssumption DEF Tag
<1>4. PayloadWritten(k, b, n, g) /\ \A a \in Extent(ptr, size) : g.mem[a] = Tag(i)
  <2> DEFINE M == [a \in Words |-> IF a \in Extent(ptr, size) THEN Tag(i) ELSE k.mem[a]]
  <2>1. g = [brk |-> k.brk, mem |-> M]
    BY <1>1 DEF Fill, Heap
  <2>2. g.brk = k.brk /\ g.mem = M
    BY <2>1
  <2>3. M \in [Words -> Int]
    BY <1>1, <1>3, HeapType
  <2>4. g \in Heap
    BY <1>1, <2>1, <2>3, HeapType DEF Heap
  <2> HIDE DEF n
  <2> QED
    BY <1>2, <2>2, <2>4 DEF PayloadWritten
<1>5. n \in Int /\ n <= Size(k, b)
  BY WordsType
<1> HIDE DEF n
<1>6. /\ Whole(g, U) /\ Allocated(g, U) = Allocated(k, U)
      /\ Kept(k, g, Allocated(k, U) \ {b}) /\ \A x \in U : Size(g, x) = Size(k, x)
  <2>1. PayloadWritten(k, b, n, g) /\ Whole(k, U) /\ b \in Allocated(k, U)
    BY <1>1, <1>4
  <2>2. \A m \in Int : \A f : m <= Size(k, b) /\ PayloadWritten(k, b, m, f) =>
          /\ Whole(f, U) /\ Allocated(f, U) = Allocated(k, U)
          /\ Kept(k, f, Allocated(k, U) \ {b}) /\ \A x \in U : Size(f, x) = Size(k, x)
    BY <2>1, WrittenWhole
  <2> QED
    BY <1>5, <2>1, <2>2
<1>7. Holds(g, U, B, J)
  BY <1>1, <1>6, HoldsOn
<1>8. \A j \in J : C[j].ptr # ptr
  <2>1. b \in Int /\ ptr = b + 3
    BY <1>1, TilingType
  <2>2. \A j \in J : C[j].ptr = B[j].ptr /\ B[j].ptr \in Int /\ B[j].ptr - 3 # b
    BY <1>1
  <2> QED
    BY <2>1, <2>2
<1>9. Holds(g, U, C, J \cup {i})
  <2>1. \A j \in J : /\ C[j].ptr \in Int /\ C[j].size \in Sizes
                     /\ C[j].ptr - 3 \in Allocated(g, U)
                     /\ C[j].size \div WSIZE + 3 <= Size(g, C[j].ptr - 3)
                     /\ \A a \in Extent(C[j].ptr, C[j].size) : g.mem[a] = Tag(j)
    BY <1>7 DEF Holds
  <2>2. \A j, m \in J : C[j].ptr = C[m].ptr => j = m
    BY <1>1
  <2>3. /\ C[i].ptr \in Int /\ C[i].size \in Sizes
        /\ C[i].ptr - 3 \in Allocated(g, U)
        /\ C[i].size \div WSIZE + 3 <= Size(g, C[i].ptr - 3)
        /\ \A a \in Extent(C[i].ptr, C[i].size) : g.mem[a] = Tag(i)
    <3>1. C[i].ptr - 3 = b /\ b \in U
      <4>1. b \in Int
        BY <1>1, TilingType
      <4> QED
        BY <1>1, <4>1
    <3> QED
      BY <1>2, <1>4, <1>6, <3>1
  <2> QED
    BY <1>6, <1>8, <2>1, <2>2, <2>3 DEF Holds
<1> QED
  BY <1>6, <1>9 DEF Whole, Filled

-----------------------------------------------------------------------------
(* The invariant is inductive. *)
LEMMA InitFacts ==
  ASSUME NEW word \in Int, NEW fresh, fresh = [brk |-> 0, mem |-> [a \in Words |-> word]],
         ~Init_fails
  PROVE  Whole(mm_init(fresh), {})
<1> DEFINE last == FirstBlock
           M == [a \in Words |-> IF a <= last /\ a # last - 1
                                 THEN IF a % 4 \in {0, 1} THEN PACK(0, 1, 1) ELSE Null
                                 ELSE word]
           h == mm_init(fresh)
<1>1. last \in Int /\ last >= 5 /\ last + 1 <= MAX_HEAP /\ MAX_HEAP \in Int /\ last = 1 + 4 * SEG_NUM
  BY HeapShape DEF Init_fails, FirstBlock, Root
<1>2. PACK(0, 1, 1) \in Int /\ get_blockSize(PACK(0, 1, 1)) = 0
      /\ check_prev_alloc(PACK(0, 1, 1)) = 1 /\ check_alloc(PACK(0, 1, 1)) = 1
  BY PackReads DEF Bit
<1>3. h = [brk |-> last + 1, mem |-> M]
  BY DEF mm_init
<1>4. M \in [Words -> Int]
  BY <1>2 DEF Null
<1> HIDE DEF last, M
<1>5. h \in Heap /\ h.brk = last + 1 /\ h.mem = M
  BY <1>1, <1>3, <1>4 DEF Heap
<1>6. End(h) = last /\ last \in Words
  BY <1>1, <1>5 DEF End, Words
<1>7. M[last] = PACK(0, 1, 1)
  BY <1>1, <1>6, HeapShape DEF M
<1> HIDE DEF h
<1>8. Tiling(h, {})
  BY <1>1, <1>6 DEF Tiling, last
<1>9. Tagged(h, {})
  BY <1>2, <1>5, <1>6, <1>7 DEF Tagged, last, Size, IsFree
<1>10. ASSUME NEW c \in Classes PROVE Succ(h, Root(c)) = Null
  <2>1. Root(c) + 2 \in Words /\ Root(c) + 2 <= last /\ Root(c) + 2 # last - 1
    BY <1>1, HeapShape DEF Words, Root, Classes, last
  <2>2. (Root(c) + 2) % 4 = 3
    BY HeapShape DEF Root, Classes
  <2>3. M[Root(c) + 2] = Null
    BY <2>1, <2>2 DEF M
  <2> QED
    BY <1>5, <2>3 DEF Succ
<1>11. FreeIn(h, {}) = {}
  BY DEF FreeIn
<1>12. Lists(h, {}, Kinds(h))
  BY <1>10, NoLists
<1> QED
  BY <1>5, <1>8, <1>9, <1>11, <1>12 DEF Whole, Footed, Untouched, h

\* mm_init establishes the invariant.
LEMMA InitInv == Init => IInv
<1> SUFFICES ASSUME Init PROVE IInv
  OBVIOUS
<1>1. blocks = << >> /\ Live = {} /\ InUse = {}
  <2>1. blocks = << >>
    BY DEF Init
  <2>2. DOMAIN << >> = {}
    OBVIOUS
  <2>3. Live = {}
    BY <2>1, <2>2, Zenon DEF Live
  <2> QED
    BY <2>1, <2>3 DEF InUse
<1>2. PICK word \in Stale :
        LET fresh == [brk |-> 0, mem |-> [a \in Words |-> word]]
        IN  IF Init_fails THEN heap = fresh /\ report = "mm_init failed"
            ELSE heap = mm_init(fresh) /\ report = "none"
  BY DEF Init, Words
<1> DEFINE fresh == [brk |-> 0, mem |-> [a \in Words |-> word]]
<1>3. word \in Int
  BY DriverAssumption
<1>4. CASE Init_fails
  <2>1. heap = fresh /\ report = "mm_init failed"
    BY <1>2, <1>4
  <2>2. heap.brk = 0 /\ heap.mem = [a \in Words |-> word]
    BY <2>1
  <2>3. TypeOK
    BY <1>1, <1>3, <2>2, HeapShape DEF TypeOK, Words
  <2> QED
    BY <1>1, <2>1, <2>3 DEF IInv, Ready
<1>5. CASE ~Init_fails
  <2>1. heap = mm_init(fresh) /\ report = "none"
    BY <1>2, <1>5
  <2>2. Whole(heap, {})
    BY <1>3, <1>5, <2>1, InitFacts
  <2>3. TypeOK
    BY <1>1, <2>2 DEF TypeOK, Words, Whole, Heap
  <2>4. Owned({})
    BY <1>1, <2>2 DEF Owned, Holds, Allocated
  <2> QED
    BY <1>1, <2>1, <2>3, <2>4 DEF IInv
<1> QED
  BY <1>4, <1>5

\* What makes the invariant hold after a step.
LEMMA Established ==
  ASSUME NEW U, NEW J \in SUBSET Live', Holds(heap', U, blocks', J), Live' \subseteq Ids,
         \A i \in Live' : blocks'[i].ptr \in Int /\ blocks'[i].size \in Sizes,
         \A i \in Live' : i \in J \/ IsFree(heap', blocks'[i].ptr - 3),
         report' \in {"none", "mm_malloc failed", "mm_realloc failed"},
         report' # "mm_realloc failed" => J = Live',
         report' # "mm_malloc failed" =>
           \A b \in Allocated(heap', U) : \E i \in J : b = blocks'[i].ptr - 3
  PROVE  IInv' /\ InUse' = J
<1>1. \A i \in J : ~IsFree(heap', blocks'[i].ptr - 3)
  BY DEF Holds, Allocated, FreeIn
<1>2. InUse' = J
  BY <1>1 DEF InUse, get_block
<1>3. TypeOK'
  BY DEF TypeOK, Holds, Whole, Heap, Words
<1>4. Owned(U)'
  BY <1>2 DEF Owned
<1> QED
  BY <1>2, <1>3, <1>4 DEF IInv

\* The driver is given a block: what it then has.
Taken(i, size) ==
  /\ report' = "none" /\ Live' = Live \cup {i} /\ blocks'[i].size = size
  /\ \A j \in Live \ {i} : blocks'[j] = blocks[j]

\* The block that the driver is given is as it should be.
Proper(got, i, size, U) ==
  /\ Holds(got.heap, U, blocks, Live \ {i})
  /\ got.ptr \in Int /\ got.ptr # Null /\ got.ptr - 3 \in Allocated(got.heap, U)
  /\ \A j \in Live \ {i} : blocks[j].ptr - 3 # got.ptr - 3
  /\ BlockWords(size) <= Size(got.heap, got.ptr - 3)
  /\ i \in Live => Preserved(got.heap, i, got.ptr, size)
  /\ \A b \in Allocated(got.heap, U) : \/ b = got.ptr - 3
                                       \/ \E j \in Live \ {i} : b = blocks[j].ptr - 3

\* A proper block is taken, and the invariant holds again.
LEMMA TakeFacts ==
  ASSUME NEW got, NEW i \in Ids, NEW size \in Sizes, NEW failure, Take(got, i, size, failure),
         NEW U, Proper(got, i, size, U), Live \subseteq Ids
  PROVE  Taken(i, size) /\ IInv'
<1> DEFINE b == got.ptr - 3
           J == Live \ {i}
           C == [j \in Live \cup {i} |-> IF j = i THEN [ptr |-> got.ptr, size |-> size]
                                         ELSE blocks[j]]
           k == got.heap
<1>0. /\ Holds(k, U, blocks, J) /\ got.ptr \in Int /\ got.ptr # Null /\ b \in Allocated(k, U)
      /\ \A j \in J : blocks[j].ptr - 3 # b
      /\ BlockWords(size) <= Size(k, b)
      /\ i \in Live => Preserved(k, i, got.ptr, size)
      /\ \A d \in Allocated(k, U) : d = b \/ \E j \in J : d = blocks[j].ptr - 3
  BY DEF Proper
<1>1. got.ptr = b + 3 /\ b \in Allocated(k, U)
  BY <1>0
<1>2. size \div WSIZE + 3 <= Size(k, b)
  <2>1. Size(k, b) \in Int
    <3>1. k \in Heap /\ Tiling(k, U) /\ b \in U
      BY <1>0 DEF Holds, Whole, Allocated
    <3> QED
      BY <3>1, TilingType
  <2>2. BlockWords(size) <= Size(k, b)
    BY <1>0
  <2> QED
    BY <2>1, <2>2, WordsType
<1>3. \A j \in J : blocks[j].ptr - 3 # b
  BY <1>0
<1>4. Holds(k, U, blocks, J)
  BY <1>0
<1> HIDE DEF b, k
<1>5. add_range(k, {Extent(blocks[j].ptr, blocks[j].size) : j \in J}, got.ptr, size) = "none"
  BY <1>1, <1>2, <1>3, <1>4, RangeAccepted
<1>6. Complaint(got, i, size, failure) = "none"
  BY <1>0, <1>5 DEF Complaint, Ranges, k, J
<1>7. report' = "none" /\ heap' = Fill(k, i, got.ptr, size) /\ blocks' = C
  BY <1>6 DEF Take, k
<1>8. /\ C[i].ptr = got.ptr /\ C[i].size = size /\ \A j \in J : C[j] = blocks[j]
      /\ DOMAIN C = Live \cup {i} /\ J \cup {i} = Live \cup {i}
  OBVIOUS
<1> HIDE DEF C, J
<1>9. i \notin J
  BY DEF J
<1>10. Holds(heap', U, C, J \cup {i}) /\ Allocated(heap', U) = Allocated(k, U)
  <2>1. /\ Holds(k, U, blocks, J) /\ i \in Ids /\ i \notin J /\ b \in Allocated(k, U)
        /\ \A j \in J : blocks[j].ptr - 3 # b
        /\ size \in Sizes /\ size \div WSIZE + 3 <= Size(k, b) /\ got.ptr = b + 3
        /\ C[i].ptr = got.ptr /\ C[i].size = size /\ \A j \in J : C[j] = blocks[j]
        /\ heap' = Fill(k, i, got.ptr, size)
    BY <1>1, <1>2, <1>3, <1>4, <1>7, <1>8, <1>9
  <2>2. Filled(k, U, C, J \cup {i}, heap')
    BY <2>1, FillHolds
  <2> QED
    BY <2>2 DEF Filled
<1>11. Live' = Live \cup {i}
  BY <1>7, <1>8 DEF Live
<1>12. Holds(heap', U, blocks', Live')
  BY <1>7, <1>8, <1>10, <1>11
<1>13. \A d \in Allocated(heap', U) : \E j \in Live' : d = blocks'[j].ptr - 3
  <2>1. \A d \in Allocated(k, U) : d = b \/ \E j \in J : d = blocks[j].ptr - 3
    BY <1>0
  <2>2. blocks'[i].ptr - 3 = b /\ i \in Live'
    BY <1>7, <1>8, <1>11 DEF b
  <2>3. \A j \in J : blocks'[j].ptr - 3 = blocks[j].ptr - 3 /\ j \in Live'
    BY <1>7, <1>8, <1>11
  <2> QED
    BY <1>10, <2>1, <2>2, <2>3
<1>14. \A j \in Live' : blocks'[j].ptr \in Int /\ blocks'[j].size \in Sizes
  BY <1>12 DEF Holds
<1>15. Live' \subseteq Ids
  BY <1>11
<1>16. IInv'
  BY <1>7, <1>12, <1>13, <1>14, <1>15, Established
<1> QED
  BY <1>7, <1>8, <1>11, <1>16 DEF Taken, J

\* While the trace runs, every index is in use.
LEMMA Running ==
  ASSUME IInv, report = "none"
  PROVE  /\ Live \subseteq Ids /\ InUse = Live
         /\ \E T : /\ Holds(heap, T, blocks, Live)
                   /\ \A b \in Allocated(heap, T) : \E i \in Live : b = blocks[i].ptr - 3
BY DEF IInv, TypeOK, Ready, Owned

\* The driver is given no block.
LEMMA NoneTaken ==
  ASSUME NEW got, NEW i, NEW size, NEW failure, failure # "none",
         Take(got, i, size, failure), got.ptr = Null
  PROVE  report' = failure /\ heap' = got.heap /\ blocks' = blocks /\ Live' = Live
<1>1. report' = failure
  BY DEF Take, Complaint
<1> QED
  BY <1>1 DEF Take, Live

\* It keeps the blocks J, and is given none.
Retained(J) == InUse' = J /\ \A j \in J : blocks'[j] = blocks[j]

\* Alloc keeps the invariant: the block is taken, or the heap is full.
LEMMA AllocFacts ==
  ASSUME IInv, NEW i \in Ids, NEW size \in Sizes, Alloc(i, size)
  PROVE  /\ IInv'
         /\ \/ Taken(i, size)
            \/ Retained(Live) /\ \E T : Whole(heap, T) /\ Refused(heap, T, size, heap')
<1> DEFINE got == mm_malloc(heap, size)
<1>1. report = "none" /\ i \notin Live /\ Take(got, i, size, "mm_malloc failed")
  BY DEF Alloc
<1>2. Live \subseteq Ids
  BY <1>1, Running
<1>3. PICK T : /\ Holds(heap, T, blocks, Live)
               /\ \A b \in Allocated(heap, T) : \E j \in Live : b = blocks[j].ptr - 3
  BY <1>1, Running
<1>4. /\ Whole(heap, T)
      /\ \A j \in Live : blocks[j].ptr - 3 \in Allocated(heap, T)
      /\ \A j \in Live : blocks[j].ptr \in Int /\ blocks[j].size \in Sizes
  BY <1>3 DEF Holds
<1>5. \/ got.ptr = Null /\ Refused(heap, T, size, got.heap)
      \/ /\ got.ptr # Null /\ got.ptr \in Int
         /\ Got(heap, T, size, got.ptr - 3, got.heap)
  BY <1>4, MallocFacts
<1> HIDE DEF got
<1> DEFINE D == Allocated(heap, T)
<1>6. CASE got.ptr = Null /\ Refused(heap, T, size, got.heap)
  <2>1. report' = "mm_malloc failed" /\ heap' = got.heap /\ blocks' = blocks /\ Live' = Live
    BY <1>1, <1>6, NoneTaken
  <2>2. PICK U : Whole(got.heap, U) /\ D \subseteq Allocated(got.heap, U)
                 /\ Kept(heap, got.heap, D)
    BY <1>6 DEF Refused
  <2>3. \A j \in Live : blocks[j].ptr - 3 \in D
    BY <1>4
  <2> HIDE DEF D
  <2>4. Holds(got.heap, U, blocks, Live)
    BY <1>3, <2>2, <2>3, HoldsOn
  <2>5. Holds(heap', U, blocks', Live') /\ Live' \subseteq Ids
        /\ \A j \in Live' : blocks'[j].ptr \in Int /\ blocks'[j].size \in Sizes
    BY <1>2, <1>4, <2>1, <2>4
  <2>6. IInv' /\ InUse' = Live'
    BY <2>1, <2>5, Established
  <2>7. Retained(Live)
    BY <2>1, <2>6 DEF Retained
  <2> QED
    BY <1>4, <1>6, <2>1, <2>6, <2>7
<1>7. CASE got.ptr # Null /\ got.ptr \in Int /\ Got(heap, T, size, got.ptr - 3, got.heap)
  <2> DEFINE b == got.ptr - 3
             J == Live \ {i}
  <2>1. PICK U : /\ Whole(got.heap, U) /\ Allocated(got.heap, U) = D \cup {b} /\ b \notin D
                 /\ Size(got.heap, b) >= BlockWords(size) /\ Kept(heap, got.heap, D)
    BY <1>7 DEF Got
  <2>2. J \in SUBSET Live /\ \A j \in J : blocks[j].ptr - 3 \in D
    BY <1>4
  <2>3. D \subseteq Allocated(got.heap, U)
    BY <2>1
  <2>4. \A j \in J : blocks[j].ptr - 3 # b
    BY <2>1, <2>2
  <2>5. \A d \in D : \E j \in J : d = blocks[j].ptr - 3
    BY <1>1, <1>3
  <2> HIDE DEF D, b
  <2>6. Holds(got.heap, U, blocks, J)
    BY <1>3, <2>1, <2>2, <2>3, HoldsOn
  <2>7. BlockWords(size) <= Size(got.heap, b)
    <3>1. b \in U /\ got.heap \in Heap /\ Tiling(got.heap, U)
      BY <2>1 DEF Allocated, Whole
    <3>2. Size(got.heap, b) \in Int /\ BlockWords(size) \in Int
      BY <3>1, TilingType, WordsType
    <3> QED
      BY <2>1, <3>2
  <2>8. \A d \in Allocated(got.heap, U) : d = b \/ \E j \in J : d = blocks[j].ptr - 3
    BY <2>1, <2>5
  <2>9. i \notin Live
    BY <1>1
  <2>10. b \in Allocated(got.heap, U)
    BY <2>1
  <2>11. Proper(got, i, size, U)
    BY <1>7, <2>4, <2>6, <2>7, <2>8, <2>9, <2>10 DEF Proper, b
  <2> QED
    BY <1>1, <1>2, <2>11, TakeFacts
<1> QED
  BY <1>5, <1>6, <1>7

\* A block that is freed: the indices left are in blocks that are left.
LEMMA OthersHeld ==
  ASSUME NEW h, NEW T, NEW I, Holds(h, T, blocks, I), NEW i \in I
  PROVE  /\ blocks[i].ptr \in Int /\ blocks[i].ptr - 3 \in Allocated(h, T)
         /\ \A j \in I \ {i} : blocks[j].ptr - 3 \in Allocated(h, T) \ {blocks[i].ptr - 3}
<1>1. /\ \A j \in I : blocks[j].ptr \in Int /\ blocks[j].ptr - 3 \in Allocated(h, T)
      /\ \A j, m \in I : blocks[j].ptr = blocks[m].ptr => j = m
  BY DEF Holds
<1>2. ASSUME NEW j \in I \ {i}
      PROVE  blocks[j].ptr - 3 # blocks[i].ptr - 3
  <2>1. blocks[j].ptr \in Int /\ blocks[i].ptr \in Int /\ blocks[j].ptr # blocks[i].ptr
    BY <1>1, <1>2
  <2> QED
    BY <2>1
<1> QED
  BY <1>1, <1>2

\* Free keeps the invariant.
LEMMA FreeStep ==
  ASSUME IInv, NEW i \in Live, Free(i)
  PROVE  IInv' /\ Retained(Live \ {i})
<1> DEFINE J == Live \ {i}
<1>1. /\ report = "none" /\ heap' = mm_free(heap, blocks[i].ptr)
      /\ blocks' = [j \in J |-> blocks[j]] /\ report' = report
  BY DEF Free
<1>2. Live \subseteq Ids
  BY <1>1, Running
<1>3. PICK T : /\ Holds(heap, T, blocks, Live)
               /\ \A b \in Allocated(heap, T) : \E j \in Live : b = blocks[j].ptr - 3
  BY <1>1, Running
<1> DEFINE D == Allocated(heap, T)
           b == blocks[i].ptr - 3
<1>4. Whole(heap, T) /\ \A j \in Live : blocks[j].ptr \in Int /\ blocks[j].size \in Sizes
  BY <1>3 DEF Holds
<1>5. /\ blocks[i].ptr \in Int /\ b \in D /\ \A j \in J : blocks[j].ptr - 3 \in D \ {b}
  BY <1>3, OthersHeld
<1>6. FreeDone(heap, T, b, heap')
  BY <1>1, <1>4, <1>5, FreeFacts
<1>7. PICK U : /\ Whole(heap', U) /\ Allocated(heap', U) = D \ {b}
               /\ Kept(heap, heap', D \ {b})
  BY <1>6 DEF FreeDone
<1>8. \A e \in D \ {b} : \E j \in J : e = blocks[j].ptr - 3
  BY <1>3
<1>9. Live' = J /\ \A j \in J : blocks'[j] = blocks[j]
  BY <1>1 DEF Live
<1> HIDE DEF D, b
<1>10. J \in SUBSET Live
  OBVIOUS
<1> HIDE DEF J
<1>11. Holds(heap', U, blocks, J)
  <2>1. D \ {b} \subseteq Allocated(heap', U)
    BY <1>7
  <2> QED
    BY <1>3, <1>5, <1>7, <1>10, <2>1, HoldsOn
<1>12. Holds(heap', U, blocks', Live')
  BY <1>9, <1>11 DEF Holds
<1>13. \A e \in Allocated(heap', U) : \E j \in Live' : e = blocks'[j].ptr - 3
  BY <1>7, <1>8, <1>9
<1>14. Live' \subseteq Ids /\ \A j \in Live' : blocks'[j].ptr \in Int /\ blocks'[j].size \in Sizes
  BY <1>2, <1>4, <1>9, <1>10
<1>15. IInv' /\ InUse' = Live'
  BY <1>1, <1>12, <1>13, <1>14, Established
<1> QED
  BY <1>9, <1>15 DEF Retained, J

\* A request for no words: nothing changes but what is reported.
LEMMA ReallocNothing ==
  ASSUME IInv, NEW i \in Live, Realloc(i, 0)
  PROVE  IInv' /\ Retained(Live)
<1> DEFINE got == mm_realloc(heap, blocks[i].ptr, 0)
<1>1. report = "none" /\ Take(got, i, 0, "mm_realloc failed")
  BY DEF Realloc
<1>2. Live \subseteq Ids
  BY <1>1, Running
<1>3. PICK T : /\ Holds(heap, T, blocks, Live)
               /\ \A b \in Allocated(heap, T) : \E j \in Live : b = blocks[j].ptr - 3
  BY <1>1, Running
<1>4. blocks[i].ptr # Null
  <2>1. /\ heap \in Heap /\ Tiling(heap, T) /\ blocks[i].ptr - 3 \in T /\ blocks[i].ptr \in Int
    BY <1>3 DEF Holds, Whole, Allocated
  <2>2. FirstBlock <= blocks[i].ptr - 3
    BY <2>1, TilingType
  <2> QED
    BY <2>1, <2>2, HeapShape DEF Null
<1>5. got.ptr = Null /\ got.heap = heap
  BY <1>4 DEF mm_realloc, Ret
<1> HIDE DEF got
<1>6. report' = "mm_realloc failed" /\ heap' = heap /\ blocks' = blocks /\ Live' = Live
  BY <1>1, <1>5, NoneTaken
<1>7. /\ Holds(heap', T, blocks', Live') /\ Live' \subseteq Ids
      /\ \A b \in Allocated(heap', T) : \E j \in Live' : b = blocks'[j].ptr - 3
  BY <1>2, <1>3, <1>6
<1>8. \A j \in Live' : blocks'[j].ptr \in Int /\ blocks'[j].size \in Sizes
  BY <1>7 DEF Holds
<1>9. IInv' /\ InUse' = Live'
  BY <1>6, <1>7, <1>8, Established
<1> QED
  BY <1>6, <1>9 DEF Retained

\* mm_realloc fails: the program's block is given up.
LEMMA ReallocFailed ==
  ASSUME IInv, NEW i \in Live, NEW size \in Sizes, Realloc(i, size), NEW T,
         Holds(heap, T, blocks, Live),
         \A b \in Allocated(heap, T) : \E j \in Live : b = blocks[j].ptr - 3,
         NEW got, got = mm_realloc(heap, blocks[i].ptr, size), got.ptr = Null,
         GivenUp(heap, T, size, blocks[i].ptr - 3, got.heap)
  PROVE  IInv' /\ Retained(Live \ {i}) /\ heap' = got.heap
<1> DEFINE J == Live \ {i}
           D == Allocated(heap, T)
           b == blocks[i].ptr - 3
<1>1. report = "none" /\ Take(got, i, size, "mm_realloc failed")
  BY DEF Realloc
<1>2. Live \subseteq Ids
  BY <1>1, Running
<1>3. report' = "mm_realloc failed" /\ heap' = got.heap /\ blocks' = blocks /\ Live' = Live
  BY <1>1, NoneTaken
<1>4. /\ \A j \in Live : blocks[j].ptr \in Int /\ blocks[j].size \in Sizes
      /\ \A j \in J : blocks[j].ptr - 3 \in D \ {b}
  BY OthersHeld DEF Holds
<1>5. PICK U : /\ Whole(got.heap, U) /\ Allocated(got.heap, U) = D \ {b}
               /\ Kept(heap, got.heap, D \ {b}) /\ IsFree(got.heap, b)
  BY DEF GivenUp
<1>6. \A e \in D \ {b} : \E j \in J : e = blocks[j].ptr - 3
  OBVIOUS
<1>7. J \in SUBSET Live /\ \A j \in Live : j \in J \/ j = i
  OBVIOUS
<1>8. IsFree(heap', blocks'[i].ptr - 3)
  BY <1>3, <1>5
<1> HIDE DEF D, b, J
<1>9. Holds(got.heap, U, blocks, J)
  <2>1. D \ {b} \subseteq Allocated(got.heap, U)
    BY <1>5
  <2> QED
    BY <1>4, <1>5, <1>7, <2>1, HoldsOn
<1>10. /\ Holds(heap', U, blocks', J) /\ J \in SUBSET Live' /\ Live' \subseteq Ids
       /\ \A j \in Live' : blocks'[j].ptr \in Int /\ blocks'[j].size \in Sizes
       /\ \A j \in Live' : j \in J \/ IsFree(heap', blocks'[j].ptr - 3)
       /\ \A e \in Allocated(heap', U) : \E j \in J : e = blocks'[j].ptr - 3
  BY <1>2, <1>3, <1>4, <1>5, <1>6, <1>7, <1>8, <1>9
<1>11. IInv' /\ InUse' = J
  BY <1>3, <1>10, Established
<1> QED
  BY <1>3, <1>7, <1>11 DEF Retained, J

\* mm_realloc moves the program's words.
LEMMA WordsMoved ==
  ASSUME NEW h, NEW T, Holds(h, T, blocks, Live), NEW i \in Live, NEW size \in Sizes,
         NEW k, NEW ptr \in Int,
         \A j \in 0..Min({Size(h, blocks[i].ptr - 3) - 3, size \div WSIZE})-1 :
           k.mem[ptr + j] = h.mem[blocks[i].ptr + j]
  PROVE  Preserved(k, i, ptr, size)
<1> DEFINE p == blocks[i].ptr
           b == p - 3
           old == Size(h, b) - 3
           n == size \div WSIZE
           m == Min({blocks[i].size, size})
           c == Min({old, n})
           was == blocks[i].size \div WSIZE
<1>1. /\ p \in Int /\ blocks[i].size \in Sizes /\ b \in T /\ h \in Heap /\ Tiling(h, T)
      /\ was + 3 <= Size(h, b)
      /\ \A a \in Extent(p, blocks[i].size) : h.mem[a] = Tag(i)
  BY DEF Holds, Whole, Allocated
<1>2. /\ n \in Int /\ n > 0 /\ was \in Int /\ was > 0
      /\ size \in Nat /\ blocks[i].size \in Nat /\ old \in Int /\ was <= old
  <2>1. Size(h, b) \in Int
    BY <1>1, TilingType
  <2>2. n \in Int /\ n > 0 /\ was \in Int /\ was > 0 /\ size \in Nat /\ blocks[i].size \in Nat
    BY <1>1, WordsType
  <2> HIDE DEF was
  <2> QED
    BY <1>1, <2>1, <2>2
<1>3. m \div WSIZE \in Int /\ m \div WSIZE <= n /\ m \div WSIZE <= was
  <2>1. m \in {blocks[i].size, size} /\ m <= blocks[i].size /\ m <= size
    BY <1>2, MinOfTwo
  <2> HIDE DEF m
  <2> QED
    BY <1>2, <2>1 DEF WSIZE
<1>4. c \in {old, n}
  BY <1>2, MinOfTwo
<1>5. \A j \in 0..c-1 : k.mem[ptr + j] = h.mem[p + j]
  OBVIOUS
<1>6. Extent(p, blocks[i].size) = p..p+was-1
  BY DEF Extent
<1>7. Extent(ptr, m) = ptr..ptr+m \div WSIZE-1
  BY DEF Extent
<1> HIDE DEF p, b, old, n, m, c, was
<1>8. ASSUME NEW a \in Extent(ptr, m)
      PROVE  k.mem[a] = Tag(i)
  <2> DEFINE j == a - ptr
             v == m \div WSIZE
  <2>1. a \in ptr..ptr+v-1 /\ v \in Int /\ v <= n /\ v <= was
    BY <1>3, <1>7
  <2> HIDE DEF v
  <2>2. j \in 0..v-1 /\ a = ptr + j /\ j \in Int
    BY <2>1
  <2> HIDE DEF j
  <2>3. j \in 0..c-1 /\ p + j \in p..p+was-1
    BY <1>1, <1>2, <1>4, <2>1, <2>2
  <2>4. k.mem[ptr + j] = h.mem[p + j] /\ h.mem[p + j] = Tag(i)
    BY <1>1, <1>5, <1>6, <2>3
  <2> QED
    BY <2>2, <2>4
<1> QED
  BY <1>8 DEF Preserved, m

\* mm_realloc succeeds: the block it gives is proper, and is taken.
LEMMA ReallocMoved ==
  ASSUME IInv, NEW i \in Live, NEW size \in Sizes, Realloc(i, size), NEW T,
         Holds(heap, T, blocks, Live),
         \A b \in Allocated(heap, T) : \E j \in Live : b = blocks[j].ptr - 3,
         NEW got, got = mm_realloc(heap, blocks[i].ptr, size), got.ptr # Null, got.ptr \in Int,
         Resized(heap, T, size, blocks[i].ptr, got.ptr - 3, got.heap)
  PROVE  IInv' /\ Taken(i, size)
<1> DEFINE J == Live \ {i}
           D == Allocated(heap, T) \ {blocks[i].ptr - 3}
           b == got.ptr - 3
<1>1. report = "none" /\ Take(got, i, size, "mm_realloc failed")
  BY DEF Realloc
<1>2. Live \subseteq Ids
  BY <1>1, Running
<1>3. PICK U : /\ Whole(got.heap, U) /\ Allocated(got.heap, U) = D \cup {b} /\ b \notin D
               /\ Size(got.heap, b) >= BlockWords(size) /\ Kept(heap, got.heap, D)
  BY DEF Resized
<1>4. \A j \in 0..Min({Size(heap, blocks[i].ptr - 3) - 3, size \div WSIZE})-1 :
        got.heap.mem[b + 3 + j] = heap.mem[blocks[i].ptr + j]
  BY DEF Resized
<1>5. b + 3 = got.ptr
  OBVIOUS
<1> HIDE DEF b
<1>6. Preserved(got.heap, i, got.ptr, size)
  <2>1. \A j \in 0..Min({Size(heap, blocks[i].ptr - 3) - 3, size \div WSIZE})-1 :
          got.heap.mem[got.ptr + j] = heap.mem[blocks[i].ptr + j]
    BY <1>4, <1>5
  <2> QED
    BY <2>1, WordsMoved
<1>7. \A j \in J : blocks[j].ptr - 3 \in D
  BY OthersHeld
<1>8. \A e \in D : \E j \in J : e = blocks[j].ptr - 3
  OBVIOUS
<1>9. J \in SUBSET Live
  OBVIOUS
<1> HIDE DEF D
<1>10. Holds(got.heap, U, blocks, J)
  <2>1. D \subseteq Allocated(got.heap, U)
    BY <1>3
  <2> HIDE DEF J
  <2> QED
    BY <1>3, <1>7, <1>9, <2>1, HoldsOn
<1>11. BlockWords(size) <= Size(got.heap, b)
  <2>1. b \in U /\ got.heap \in Heap /\ Tiling(got.heap, U)
    BY <1>3 DEF Allocated, Whole
  <2>2. Size(got.heap, b) \in Int /\ BlockWords(size) \in Int
    BY <2>1, TilingType, WordsType
  <2> QED
    BY <1>3, <2>2
<1>12. \A j \in J : blocks[j].ptr - 3 # b
  BY <1>3, <1>7
<1>13. \A e \in Allocated(got.heap, U) : e = b \/ \E j \in J : e = blocks[j].ptr - 3
  BY <1>3, <1>8
<1>14. b \in Allocated(got.heap, U)
  BY <1>3
<1>15. Proper(got, i, size, U)
  BY <1>6, <1>10, <1>11, <1>12, <1>13, <1>14 DEF Proper, b
<1> QED
  BY <1>1, <1>2, <1>15, TakeFacts

\* Realloc keeps the invariant.
LEMMA ReallocStep ==
  ASSUME IInv, NEW i \in Live, NEW size \in Sizes, Realloc(i, size)
  PROVE  /\ IInv'
         /\ \/ Taken(i, size)
            \/ /\ Retained(Live \ {i})
               /\ \E T : Whole(heap, T) /\ GivenUp(heap, T, size, blocks[i].ptr - 3, heap')
<1> DEFINE got == mm_realloc(heap, blocks[i].ptr, size)
<1>1. report = "none"
  BY DEF Realloc
<1>2. PICK T : /\ Holds(heap, T, blocks, Live)
               /\ \A b \in Allocated(heap, T) : \E j \in Live : b = blocks[j].ptr - 3
  BY <1>1, Running
<1>3. Whole(heap, T)
  BY <1>2 DEF Holds
<1>4. blocks[i].ptr \in Int /\ blocks[i].ptr - 3 \in Allocated(heap, T)
  BY <1>2, OthersHeld
<1>5. \/ got.ptr = Null /\ GivenUp(heap, T, size, blocks[i].ptr - 3, got.heap)
      \/ /\ got.ptr # Null /\ got.ptr \in Int
         /\ Resized(heap, T, size, blocks[i].ptr, got.ptr - 3, got.heap)
  BY <1>3, <1>4, ReallocFacts
<1>6. CASE got.ptr = Null /\ GivenUp(heap, T, size, blocks[i].ptr - 3, got.heap)
  <2>1. IInv' /\ Retained(Live \ {i}) /\ heap' = got.heap
    BY <1>2, <1>6, ReallocFailed
  <2> QED
    BY <1>3, <1>6, <2>1
<1>7. CASE /\ got.ptr # Null /\ got.ptr \in Int
           /\ Resized(heap, T, size, blocks[i].ptr, got.ptr - 3, got.heap)
  BY <1>2, <1>7, ReallocMoved
<1> QED
  BY <1>5, <1>6, <1>7

\* What a step of the trace does to the blocks in use.
LEMMA StepFacts ==
  ASSUME IInv, Next
  PROVE  /\ IInv' /\ report = "none"
         /\ \/ \E i \in Ids, size \in Sizes : Taken(i, size)
            \/ \E i \in Ids : i \in Live /\ Retained(Live \ {i})
            \/ Retained(Live)
<1>1. Live \subseteq Ids
  BY DEF IInv, TypeOK
<1>2. CASE \E size \in Sizes : Live # Ids /\ Alloc(Min(Ids \ Live), size)
  <2>1. PICK size \in Sizes : Live # Ids /\ Alloc(Min(Ids \ Live), size)
    BY <1>2
  <2>2. Ids \ Live # {} /\ Ids \ Live \in SUBSET Nat
    BY <1>1, <2>1, DriverAssumption
  <2>3. Min(Ids \ Live) \in Ids
    BY <2>2, MinIsLeast
  <2> QED
    BY <2>1, <2>3, AllocFacts DEF Alloc
<1>3. CASE \E i \in Live, size \in Sizes \cup {0} : Realloc(i, size)
  BY <1>1, <1>3, ReallocStep, ReallocNothing DEF Realloc
<1>4. CASE \E i \in Live : Free(i)
  BY <1>1, <1>4, FreeStep DEF Free
<1> QED
  BY <1>2, <1>3, <1>4 DEF Next

\* So does a step that changes nothing.
LEMMA StutterInv ==
  ASSUME IInv, UNCHANGED vars
  PROVE  IInv'
<1>1. heap' = heap /\ blocks' = blocks /\ report' = report
  BY DEF vars
<1>2. Live' = Live /\ InUse' = InUse /\ TypeOK'
  BY <1>1 DEF Live, InUse, IInv, TypeOK
<1> QED
  BY <1>1, <1>2 DEF IInv, Owned, Ready

\* The inductive invariant: the blocks are as mm.c means them to be.
THEOREM Invariant == Spec => []IInv
<1>1. IInv /\ [Next]_vars => IInv'
  BY StepFacts, StutterInv
<1> QED
  BY <1>1, InitInv, PTL DEF Spec

\* The driver's checks pass: a trace only ends because memory ran out or
\* because it asked mm_realloc for 0 bytes.
THEOREM Silence == Spec => []DriverSilent
<1>1. IInv => DriverSilent
  BY DEF IInv, DriverSilent
<1> QED
  BY <1>1, Invariant, PTL

\* The words the program wrote stay until it gives the block up.
THEOREM Payloads == Spec => []PayloadsIntact
<1>1. ASSUME IInv
      PROVE  PayloadsIntact
  <2>1. CASE Ready
    <3>1. PICK T : Holds(heap, T, blocks, InUse)
      BY <1>1, <2>1 DEF IInv, Owned
    <3> QED
      BY <1>1, <3>1 DEF Holds, IInv, PayloadsIntact
  <2>2. CASE ~Ready
    <3>1. report = "mm_init failed" /\ Live = {}
      BY <1>1, <2>2 DEF Ready, IInv
    <3> QED
      BY <1>1, <3>1 DEF PayloadsIntact, InUse, IInv
  <2> QED
    BY <2>1, <2>2
<1> QED
  BY <1>1, Invariant, PTL

-----------------------------------------------------------------------------
(* The walk over the heap that mm.c's checkers take. *)
TileWalk(h) ==
  LET walk[n \in 0 .. MaxBlocks] ==
        IF n = 0 THEN <<FirstBlock>>
        ELSE LET s == walk[n - 1]
                 b == s[Len(s)]
             IN  IF b >= h.brk \/ Size(h, b) = 0 THEN s ELSE Append(s, b + Size(h, b))
  IN  walk

\* s goes from the first block over m blocks of T.
Walked(h, T, m, s) ==
  /\ s \in Seq(T \cup {End(h)}) /\ Len(s) = m + 1 /\ s[1] = FirstBlock
  /\ \A k \in 1..m : s[k] \in T /\ s[k + 1] = After(h, s[k])

\* A turn of the walk.
LEMMA WalkOn ==
  ASSUME NEW h \in Heap, NEW T, Tiling(h, T), Tagged(h, T), NEW b \in T \cup {End(h)}
  PROVE  \/ b = End(h) /\ (b >= h.brk \/ Size(h, b) = 0)
         \/ /\ b \in T /\ b # End(h) /\ ~(b >= h.brk \/ Size(h, b) = 0)
            /\ b + Size(h, b) = After(h, b) /\ After(h, b) \in T \cup {End(h)}
<1>1. CASE b = End(h)
  BY <1>1 DEF Tagged
<1>2. CASE b # End(h)
  <2>1. b \in T /\ b \in Int /\ b < End(h) /\ Size(h, b) \in Int
    BY <1>2, TilingType
  <2>2. Size(h, b) >= 4 /\ After(h, b) \in T \cup {End(h)}
    BY <2>1 DEF Tiling
  <2>3. h.brk \in Int /\ End(h) = h.brk - 1
    BY HeapType DEF End
  <2> QED
    BY <1>2, <2>1, <2>2, <2>3 DEF After
<1> QED
  BY <1>1, <1>2

\* The recursive function of Tiles exists, and takes one step a turn.
LEMMA TileWalks ==
  ASSUME NEW h \in Heap, NEW T, Tiling(h, T), Tagged(h, T)
  PROVE  /\ TileWalk(h)[0] = <<FirstBlock>>
         /\ \A n \in 1..MaxBlocks :
              LET s == TileWalk(h)[n - 1]
                  b == s[Len(s)]
              IN  TileWalk(h)[n] = IF b >= h.brk \/ Size(h, b) = 0 THEN s
                                   ELSE Append(s, b + Size(h, b))
<1> DEFINE N == MaxBlocks
           V == T \cup {End(h)}
           D == {s \in Seq(V) : s # <<>>}
           On(s) == IF s[Len(s)] >= h.brk \/ Size(h, s[Len(s)]) = 0 THEN s
                    ELSE Append(s, s[Len(s)] + Size(h, s[Len(s)]))
           G == [p \in D \X Nat |-> On(p[1])]
           Rec(f) == f = [n \in 0..MaxBlocks |->
                            IF n = 0 THEN <<FirstBlock>>
                            ELSE LET s == f[n - 1]
                                     b == s[Len(s)]
                                 IN  IF b >= h.brk \/ Size(h, b) = 0 THEN s
                                     ELSE Append(s, b + Size(h, b))]
<1>1. N \in Nat
  BY MaxBlocksType
<1>2. ASSUME NEW s \in D PROVE On(s) \in D
  <2>1. s \in Seq(V) /\ s # <<>> /\ s[Len(s)] \in V
    OBVIOUS
  <2>2. s[Len(s)] >= h.brk \/ Size(h, s[Len(s)]) = 0 \/ s[Len(s)] + Size(h, s[Len(s)]) \in V
    BY <2>1, WalkOn
  <2> HIDE DEF V
  <2>3. ASSUME NEW v \in V
        PROVE  Append(s, v) \in Seq(V) /\ Append(s, v) # <<>>
    BY <2>1
  <2> QED
    BY <2>1, <2>2, <2>3
<1>3. /\ G \in [D \X Nat -> D]
      /\ \A s \in D, n \in Nat : G[<<s, n>>] = On(s)
  <2> HIDE DEF On, D
  <2>1. \A p \in D \X Nat : p[1] \in D
    OBVIOUS
  <2> QED
    BY <1>2, <2>1
<1>4. <<FirstBlock>> \in D
  BY DEF Tiling
<1>5. PICK f : Iteration(f, D, <<FirstBlock>>, G, N)
  <2> HIDE DEF D, N, G
  <2> QED
    BY <1>1, <1>3, <1>4, Iterates, Zenon
<1>6. /\ f \in [0..N -> D] /\ f[0] = <<FirstBlock>>
      /\ \A i \in 1..N : f[i] = G[<<f[i-1], i>>]
  BY <1>5 DEF Iteration
<1> HIDE DEF G, D
<1>7. ASSUME NEW n \in 1..N PROVE f[n] = On(f[n-1])
  <2> HIDE DEF On, N
  <2>1. n - 1 \in 0..N /\ n \in Nat
    BY <1>1
  <2>2. f[n-1] \in D /\ f[n] = G[<<f[n-1], n>>]
    BY <1>6, <2>1
  <2> QED
    BY <1>3, <2>1, <2>2
<1>8. Rec(f)
  <2>1. ASSUME NEW n \in 0..N
        PROVE  f[n] = IF n = 0 THEN <<FirstBlock>>
                      ELSE LET s == f[n - 1]
                               b == s[Len(s)]
                           IN  IF b >= h.brk \/ Size(h, b) = 0 THEN s
                               ELSE Append(s, b + Size(h, b))
    <3>1. CASE n = 0
      BY <1>6, <3>1
    <3>2. CASE n # 0
      <4>1. n \in 1..N
        BY <1>1, <3>2
      <4> QED
        BY <1>7, <3>2, <4>1
    <3> QED
      BY <3>1, <3>2
  <2> QED
    BY <1>6, <2>1
<1>9. Rec(CHOOSE g : Rec(g))
  BY <1>8
<1>10. TileWalk(h) = CHOOSE g : Rec(g)
  BY DEF TileWalk
<1> DEFINE g == TileWalk(h)
<1>11. Rec(g)
  BY <1>9, <1>10
<1> HIDE DEF g
<1>12. g[0] = <<FirstBlock>>
  BY <1>1, <1>11
<1>13. ASSUME NEW n \in 1..N
       PROVE  g[n] = On(g[n-1])
  <2>1. n \in 0..N /\ n # 0
    BY <1>1
  <2> QED
    BY <1>11, <2>1
<1> QED
  BY <1>12, <1>13 DEF g

\* The blocks of a walk are at least four words apart.
LEMMA WalkGrows ==
  ASSUME NEW h \in Heap, NEW T, Tiling(h, T), NEW m \in Nat, NEW s, Walked(h, T, m, s)
  PROVE  \A k \in 0..m : s[k + 1] \in Int /\ s[k + 1] >= FirstBlock + 4 * k
<1> DEFINE P == {k \in Nat : k <= m => s[k + 1] \in Int /\ s[k + 1] >= FirstBlock + 4 * k}
<1>1. 0 \in P
  BY HeapShape DEF Walked
<1>2. ASSUME NEW k \in Nat, k \in P PROVE k + 1 \in P
  <2> SUFFICES ASSUME k + 1 <= m
               PROVE  s[(k + 1) + 1] \in Int /\ s[(k + 1) + 1] >= FirstBlock + 4 * (k + 1)
    OBVIOUS
  <2>1. s[k + 1] \in Int /\ s[k + 1] >= FirstBlock + 4 * k
    BY <1>2
  <2>2. k + 1 \in 1..m
    OBVIOUS
  <2>3. s[k + 1] \in T /\ s[(k + 1) + 1] = After(h, s[k + 1])
    BY <2>2 DEF Walked
  <2>4. After(h, s[k + 1]) \in Int /\ s[k + 1] + 4 <= After(h, s[k + 1])
    BY <2>3, TilingType
  <2> DEFINE x == s[k + 1]
             y == s[(k + 1) + 1]
  <2>5. x \in Int /\ x >= FirstBlock + 4 * k /\ y \in Int /\ x + 4 <= y
    BY <2>1, <2>3, <2>4
  <2> HIDE DEF x, y
  <2>6. y >= FirstBlock + 4 * (k + 1)
    BY <2>5, HeapShape
  <2> QED
    BY <2>5, <2>6 DEF y
<1> HIDE DEF P
<1>3. \A k \in Nat : k \in P
  BY <1>1, <1>2, AllNumbers
<1> QED
  BY <1>3 DEF P

\* A walk that gets to the epilogue goes over every block.
LEMMA WalkAll ==
  ASSUME NEW h \in Heap, NEW T, Tiling(h, T), NEW m \in Nat, NEW s, Walked(h, T, m, s),
         s[m + 1] = End(h)
  PROVE  T = {s[k] : k \in 1..m}
<1>1. \A k \in 1..m : s[k] \in T
  BY DEF Walked
<1>2. ASSUME NEW t \in T, \A k \in 1..m : s[k] # t
      PROVE  FALSE
  <2> DEFINE P == {k \in Nat : k <= m => s[k + 1] <= t}
  <2>1. t \in Int /\ t < End(h) /\ FirstBlock <= t /\ End(h) \in Int
    BY TilingType
  <2>2. 0 \in P
    BY <2>1 DEF Walked
  <2>3. ASSUME NEW k \in Nat, k \in P PROVE k + 1 \in P
    <3> SUFFICES ASSUME k + 1 <= m
                 PROVE  s[(k + 1) + 1] <= t
      OBVIOUS
    <3>1. k + 1 \in 1..m
      OBVIOUS
    <3>2. s[k + 1] <= t /\ s[k + 1] # t
      BY <1>2, <2>3, <3>1
    <3>3. s[k + 1] \in T /\ s[(k + 1) + 1] = After(h, s[k + 1])
      BY <3>1 DEF Walked
    <3>4. t <= s[k + 1] \/ After(h, s[k + 1]) <= t
      BY <3>3 DEF Tiling
    <3>5. s[k + 1] \in Int
      BY <3>3, TilingType
    <3> QED
      BY <2>1, <3>2, <3>3, <3>4, <3>5
  <2> HIDE DEF P
  <2>4. m \in P
    BY <2>2, <2>3, AllNumbers
  <2>5. End(h) <= t
    BY <2>4 DEF P
  <2> QED
    BY <2>1, <2>5
<1> QED
  BY <1>1, <1>2

\* The walk is over the blocks that tile the heap, up to the epilogue.
LEMMA TileFacts ==
  ASSUME NEW h \in Heap, NEW T, Tiling(h, T), Tagged(h, T)
  PROVE  \E m \in Nat : /\ Walked(h, T, m, Tiles(h)) /\ Tiles(h)[m + 1] = End(h)
                        /\ T = {Tiles(h)[k] : k \in 1..m}
<1> DEFINE w == TileWalk(h)
           N == MaxBlocks
           P == {n \in Nat : n \in 0..N =>
                   \E m \in 0..n : Walked(h, T, m, w[n]) /\ (m = n \/ w[n][m + 1] = End(h))}
<1>1. N \in Nat /\ 4 * N > MAX_HEAP
  BY MaxBlocksType
<1>2. /\ w[0] = <<FirstBlock>>
      /\ \A n \in 1..N :
           LET s == w[n - 1]
               b == s[Len(s)]
           IN  w[n] = IF b >= h.brk \/ Size(h, b) = 0 THEN s ELSE Append(s, b + Size(h, b))
  BY TileWalks
<1>3. Tiles(h) = w[N]
  BY DEF Tiles, TileWalk
<1> HIDE DEF w, N
<1>4. 0 \in P
  <2>1. Walked(h, T, 0, <<FirstBlock>>)
    BY DEF Walked, Tiling
  <2> QED
    BY <1>2, <2>1
<1>5. ASSUME NEW n \in Nat, n \in P PROVE n + 1 \in P
  <2> SUFFICES ASSUME n + 1 \in 0..N
               PROVE  \E m \in 0..n+1 : /\ Walked(h, T, m, w[n+1])
                                        /\ m = n + 1 \/ w[n+1][m + 1] = End(h)
    OBVIOUS
  <2> DEFINE s == w[n]
             b == s[Len(s)]
  <2>1. PICK m \in 0..n : Walked(h, T, m, s) /\ (m = n \/ s[m + 1] = End(h))
    BY <1>5, <1>1
  <2>2. w[n+1] = IF b >= h.brk \/ Size(h, b) = 0 THEN s ELSE Append(s, b + Size(h, b))
    <3>1. n + 1 \in 1..N /\ (n + 1) - 1 = n
      BY <1>1
    <3> QED
      BY <1>2, <3>1
  <2> HIDE DEF s
  <2>3. s \in Seq(T \cup {End(h)}) /\ Len(s) = m + 1 /\ b = s[m + 1] /\ b \in T \cup {End(h)}
    BY <2>1 DEF Walked
  <2> HIDE DEF b
  <2>4. CASE b = End(h) /\ (b >= h.brk \/ Size(h, b) = 0)
    <3>1. w[n+1] = s
      BY <2>2, <2>4
    <3>2. s[m + 1] = End(h) /\ m \in 0..n+1
      BY <2>3, <2>4
    <3> QED
      BY <2>1, <3>1, <3>2
  <2>5. CASE /\ b \in T /\ b # End(h) /\ ~(b >= h.brk \/ Size(h, b) = 0)
             /\ b + Size(h, b) = After(h, b) /\ After(h, b) \in T \cup {End(h)}
    <3>1. m = n
      BY <2>1, <2>3, <2>5
    <3> DEFINE a == After(h, b)
               u == Append(s, a)
    <3>2. w[n+1] = u
      BY <2>2, <2>5
    <3> HIDE DEF a
    <3>3. a \in T \cup {End(h)}
      BY <2>5 DEF a
    <3>4. /\ u \in Seq(T \cup {End(h)}) /\ Len(u) = (n + 1) + 1 /\ u[(n + 1) + 1] = a
          /\ \A k \in 1..n+1 : u[k] = s[k]
      BY <2>3, <3>1, <3>3
    <3> HIDE DEF u
    <3>5. ASSUME NEW k \in 1..n+1
          PROVE  u[k] \in T /\ u[k + 1] = After(h, u[k])
      <4>1. CASE k = n + 1
        BY <2>3, <2>5, <3>1, <3>4, <4>1 DEF a
      <4>2. CASE k # n + 1
        <5>1. k \in 1..n /\ k + 1 \in 1..n+1
          BY <4>2
        <5>2. s[k] \in T /\ s[k + 1] = After(h, s[k])
          BY <2>1, <3>1, <5>1 DEF Walked
        <5> QED
          BY <3>4, <5>1, <5>2
      <4> QED
        BY <4>1, <4>2
    <3>6. u[1] = FirstBlock
      BY <2>1, <3>4 DEF Walked
    <3>7. Walked(h, T, n + 1, u)
      BY <3>4, <3>5, <3>6 DEF Walked
    <3> QED
      BY <3>2, <3>7
  <2> QED
    BY <2>3, <2>4, <2>5, WalkOn
<1> HIDE DEF P
<1>6. \A n \in Nat : n \in P
  BY <1>4, <1>5, AllNumbers
<1>7. PICK m \in 0..N : Walked(h, T, m, w[N]) /\ (m = N \/ w[N][m + 1] = End(h))
  BY <1>1, <1>6 DEF P
<1>8. m # N
  <2> SUFFICES ASSUME m = N PROVE FALSE
    OBVIOUS
  <2>1. N \in 0..m /\ m \in Nat
    BY <1>1
  <2>2. w[N][N + 1] \in Int /\ w[N][N + 1] >= FirstBlock + 4 * N
    BY <1>7, <2>1, WalkGrows
  <2>3. w[N][N + 1] \in T \cup {End(h)}
    BY <1>1, <1>7 DEF Walked
  <2>4. w[N][N + 1] <= End(h) /\ End(h) \in Int /\ End(h) < MAX_HEAP
    BY <2>3, HeapShape, TilingType DEF Words
  <2> QED
    BY <1>1, <2>2, <2>4, HeapShape
<1>9. m \in Nat /\ w[N][m + 1] = End(h)
  BY <1>1, <1>7, <1>8
<1>10. T = {w[N][k] : k \in 1..m}
  BY <1>7, <1>9, WalkAll
<1> QED
  BY <1>3, <1>7, <1>9, <1>10

-----------------------------------------------------------------------------
(* What mm.c's checkers see. *)
LEMMA HeapSeen ==
  ASSUME NEW h, NEW T, Whole(h, T)
  PROVE  /\ \E m \in Nat : Walked(h, T, m, Tiles(h)) /\ Tiles(h)[m + 1] = End(h)
         /\ TileSet(h) = T /\ FreeBlocks(h) = FreeIn(h, T)
<1>1. PICK m \in Nat : /\ Walked(h, T, m, Tiles(h)) /\ Tiles(h)[m + 1] = End(h)
                       /\ T = {Tiles(h)[k] : k \in 1..m}
  BY TileFacts DEF Whole
<1>2. Len(Tiles(h)) - 1 = m
  BY <1>1 DEF Walked
<1>3. TileSet(h) = T
  BY <1>1, <1>2, Zenon DEF TileSet
<1> QED
  BY <1>1, <1>3 DEF FreeBlocks, FreeIn

\* The free blocks of a class, by address.
Class(h, T, c) == InClass(FreeIn(h, T), Kinds(h), c)

\* FreeList enumerates the free blocks of its class.
LEMMA ListSeen ==
  ASSUME NEW h, NEW T, Whole(h, T), NEW c \in Classes
  PROVE  /\ Separate(Class(h, T, c)) /\ Ordered(h, Root(c), Class(h, T, c))
         /\ \E n \in Nat : Listing(Class(h, T, c), Root(c), n, FreeList(h, c))
         /\ Enumerates(FreeList(h, c), Class(h, T, c))
<1>1. h \in Heap /\ Separate(FreeIn(h, T)) /\ Ordered(h, Root(c), Class(h, T, c))
  BY DEF Whole, Lists, Class
<1>2. Separate(Class(h, T, c))
  BY <1>1, SeparatePart DEF Class, InClass
<1> QED
  BY <1>1, <1>2, ChainFacts DEF FreeList

\* A block is preceded by one node.
LEMMA PrecedesOnce ==
  ASSUME NEW S, Separate(S), NEW c \in Classes, NEW b \in S, NEW p, NEW q,
         Precedes(S, Root(c), p, b), Precedes(S, Root(c), q, b)
  PROVE  p = q
<1>1. /\ p \in S \cup {Root(c)} /\ p < b /\ \A z \in S : z <= p \/ b <= z
      /\ q \in S \cup {Root(c)} /\ q < b /\ \A z \in S : z <= q \/ b <= z
  BY DEF Precedes
<1>2. \A z \in S : Root(c) < z /\ z \in Int
  BY NodeWords
<1>3. Root(c) \in Int /\ p \in Int /\ q \in Int /\ b \in Int
  BY <1>1, <1>2, HeapShape
<1> QED
  BY <1>1, <1>2, <1>3

\* Sets with a function that is one to one and onto have as many elements.
LEMMA SameNumber ==
  ASSUME NEW F, IsFiniteSet(F), NEW L, NEW f,
         \A e \in L : f[e] \in F, \A b \in F : \E e \in L : f[e] = b,
         \A d, e \in L : f[d] = f[e] => d = e
  PROVE  Cardinality(L) = Cardinality(F)
<1> DEFINE g == [b \in F |-> CHOOSE e \in L : f[e] = b]
<1>1. \A b \in F : g[b] \in L /\ f[g[b]] = b
  OBVIOUS
<1>2. g \in [F -> L]
  BY <1>1
<1> HIDE DEF g
<1>3. IsInjective(g)
  BY <1>1, <1>2 DEF IsInjective
<1>4. \A e \in L : \E b \in F : g[b] = e
  BY <1>1
<1>5. ExistsBijection(F, L)
  BY <1>2, <1>3, <1>4 DEF ExistsBijection, Bijection, Injection, Surjection
<1> QED
  BY <1>5, FS_Bijection

\* The lists hold free blocks, as many as there are.
LEMMA ListedIsFree ==
  ASSUME NEW h, NEW T, Whole(h, T)
  PROVE  checker_free_block_in_free_list(h)
<1> DEFINE L == UNION {{<<c, k>> : k \in DOMAIN FreeList(h, c)} : c \in 0 .. SEG_NUM - 1}
           F == FreeIn(h, T)
           f == [e \in L |-> FreeList(h, e[1])[e[2]]]
<1>1. \A e : e \in L <=> \E c \in Classes : \E k \in DOMAIN FreeList(h, c) : e = <<c, k>>
  BY DEF Classes
<1>2. \A c \in Classes : \A k \in DOMAIN FreeList(h, c) :
        <<c, k>> \in L /\ f[<<c, k>>] = FreeList(h, c)[k]
  BY <1>1
<1> HIDE DEF L
<1>3. ASSUME NEW c \in Classes
      PROVE  /\ \A k \in DOMAIN FreeList(h, c) :
                  FreeList(h, c)[k] \in F /\ Kinds(h)[FreeList(h, c)[k]] = c
             /\ \A b \in F : Kinds(h)[b] = c => \E k \in DOMAIN FreeList(h, c) : FreeList(h, c)[k] = b
             /\ \A j, k \in DOMAIN FreeList(h, c) : FreeList(h, c)[j] = FreeList(h, c)[k] => j = k
  <2> DEFINE s == FreeList(h, c)
             S == Class(h, T, c)
  <2>1. s \in Seq(S) /\ S = {s[k] : k \in DOMAIN s} /\ Separate(S)
        /\ \A j, k \in DOMAIN s : j < k => s[j] < s[k]
    BY <1>3, ListSeen DEF Enumerates
  <2>2. \A b : b \in S <=> b \in F /\ Kinds(h)[b] = c
    BY DEF Class, InClass
  <2> HIDE DEF s, S
  <2>3. \A j, k \in DOMAIN s : s[j] = s[k] => j = k
    <3>1. \A k \in DOMAIN s : k \in Int /\ s[k] \in Int
      BY <2>1, SeparateType
    <3> QED
      BY <2>1, <3>1
  <2> QED
    BY <2>1, <2>2, <2>3 DEF s
<1>4. \A b \in F : Kinds(h)[b] \in Classes
  BY DEF Whole, Lists
<1> HIDE DEF f
<1>5. \A e \in L : f[e] \in F
  BY <1>1, <1>2, <1>3
<1>6. ASSUME NEW b \in F PROVE \E e \in L : f[e] = b
  <2>1. PICK c \in Classes : Kinds(h)[b] = c
    BY <1>4
  <2>2. PICK k \in DOMAIN FreeList(h, c) : FreeList(h, c)[k] = b
    BY <1>3, <2>1
  <2>3. <<c, k>> \in L /\ f[<<c, k>>] = b
    BY <1>2, <2>2
  <2> QED
    BY <2>3
<1>7. ASSUME NEW d \in L, NEW e \in L, f[d] = f[e] PROVE d = e
  <2>1. PICK c \in Classes : \E k \in DOMAIN FreeList(h, c) : d = <<c, k>>
    BY <1>1
  <2>2. PICK k \in DOMAIN FreeList(h, c) : d = <<c, k>>
    BY <2>1
  <2>3. PICK a \in Classes : \E j \in DOMAIN FreeList(h, a) : e = <<a, j>>
    BY <1>1
  <2>4. PICK j \in DOMAIN FreeList(h, a) : e = <<a, j>>
    BY <2>3
  <2>5. FreeList(h, c)[k] = FreeList(h, a)[j]
    BY <1>2, <1>7, <2>2, <2>4
  <2>6. c = a
    BY <1>3, <2>5
  <2> QED
    BY <1>3, <2>2, <2>4, <2>5, <2>6
<1>8. IsFiniteSet(F)
  <2>1. F \in SUBSET Words
    BY DEF Whole, Lists, Separate
  <2>2. IsFiniteSet(Words)
    BY FS_Interval, HeapShape DEF Words
  <2> QED
    BY <2>1, <2>2, FS_Subset
<1>9. Cardinality(L) = Cardinality(F)
  BY <1>5, <1>6, <1>7, <1>8, SameNumber
<1>10. FreeBlocks(h) = F
  BY HeapSeen
<1>11. \A e \in L : IsFree(h, FreeList(h, e[1])[e[2]])
  <2>1. \A e \in L : f[e] = FreeList(h, e[1])[e[2]]
    BY DEF f
  <2> QED
    BY <1>5, <2>1 DEF FreeIn
<1> QED
  BY <1>9, <1>10, <1>11 DEF checker_free_block_in_free_list, L

\* No two free blocks touch.
LEMMA FreeApart ==
  ASSUME NEW h, NEW T, Whole(h, T)
  PROVE  checker_contiguous(h)
<1>1. PICK m \in Nat : Walked(h, T, m, Tiles(h))
  BY HeapSeen
<1> DEFINE t == Tiles(h)
<1>2. Len(t) - 2 = m - 1 /\ \A k \in 1..m : t[k] \in T /\ t[k + 1] = After(h, t[k])
  BY <1>1 DEF Walked
<1> HIDE DEF t
<1>3. ASSUME NEW k \in 1..m-1, IsFree(h, t[k]), IsFree(h, t[k + 1])
      PROVE  FALSE
  <2>1. k \in 1..m /\ k + 1 \in 1..m
    OBVIOUS
  <2>2. t[k] \in FreeIn(h, T) /\ After(h, t[k]) \in FreeIn(h, T)
    BY <1>2, <1>3, <2>1 DEF FreeIn
  <2> QED
    BY <2>2 DEF Whole, Untouched
<1> QED
  BY <1>2, <1>3 DEF checker_contiguous, t

\* No block overlaps another.
LEMMA NoneOverlaps ==
  ASSUME NEW h, NEW T, Whole(h, T), NEW b \in T
  PROVE  checker_overlap(h, b)
<1>1. /\ End(h) \in Int
      /\ \A p \in T : /\ p \in Int /\ p < End(h) /\ After(h, p) \in Int /\ p + 4 <= After(h, p)
                      /\ After(h, p) <= End(h)
  BY TilingType DEF Whole
<1>2. \A p \in T : /\ After(h, p) \in T \cup {End(h)}
                   /\ \A t \in T \cup {End(h)} : t <= p \/ After(h, p) <= t
  BY DEF Whole, Tiling
<1>3. TileSet(h) = T
  BY HeapSeen
<1>4. ASSUME NEW p \in T
      PROVE  /\ ~(b < p /\ p < After(h, b))
             /\ (b = p <=> After(h, b) = After(h, p))
             /\ ~(b < After(h, p) /\ After(h, p) < After(h, b))
  <2>1. /\ p <= b \/ After(h, b) <= p
        /\ b <= p \/ After(h, p) <= b
        /\ After(h, p) <= b \/ After(h, b) <= After(h, p)
    BY <1>2
  <2>2. /\ b \in Int /\ p \in Int /\ After(h, b) \in Int /\ After(h, p) \in Int
        /\ b + 4 <= After(h, b) /\ p + 4 <= After(h, p)
    BY <1>1
  <2> DEFINE x == After(h, b)
             y == After(h, p)
  <2>3. b = p => x = y
    OBVIOUS
  <2>4. /\ p <= b \/ x <= p
        /\ b <= p \/ y <= b
        /\ y <= b \/ x <= y
        /\ x \in Int /\ y \in Int /\ b + 4 <= x /\ p + 4 <= y
    BY <2>1, <2>2
  <2> HIDE DEF x, y
  <2> QED
    BY <2>2, <2>3, <2>4 DEF x, y
<1> QED
  BY <1>3, <1>4 DEF checker_overlap, After

\* No legal trace makes mm.c's checkers complain.
THEOREM Checkers == Spec => []CheckersSilent
<1>1. ASSUME IInv
      PROVE  CheckersSilent
  <2> SUFFICES ASSUME Ready
               PROVE  /\ checker_free_block_in_free_list(heap)
                      /\ checker_contiguous(heap)
                      /\ \A i \in InUse : checker_overlap(heap, get_block(blocks[i].ptr))
    BY DEF CheckersSilent
  <2>1. PICK T : Holds(heap, T, blocks, InUse)
    BY <1>1 DEF IInv, Owned
  <2>2. Whole(heap, T) /\ \A i \in InUse : get_block(blocks[i].ptr) \in T
    BY <2>1 DEF Holds, Allocated, get_block
  <2> QED
    BY <2>2, ListedIsFree, FreeApart, NoneOverlaps
<1> QED
  BY <1>1, Invariant, PTL

\* The blocks tile the heap, and their tags agree.
THEOREM Tags == Spec => []BoundaryTags
<1>1. ASSUME IInv
      PROVE  BoundaryTags
  <2>1. TypeOK
    BY <1>1 DEF IInv
  <2>2. ASSUME Ready
        PROVE  LET t == Tiles(heap)
                   word(k) == heap.mem[t[k]]
               IN  /\ t[Len(t)] = heap.brk - 1
                   /\ check_prev_alloc(word(1)) = 1
                   /\ \A k \in 1 .. Len(t) - 1 :
                        /\ Size(heap, t[k]) >= 4 /\ Size(heap, t[k]) % 2 = 0
                        /\ check_prev_alloc(word(k + 1)) = check_alloc(word(k))
                        /\ IsFree(heap, t[k]) =>
                             get_blockSize(heap.mem[t[k + 1] - 1]) = Size(heap, t[k])
    <3>1. PICK T : Holds(heap, T, blocks, InUse)
      BY <1>1, <2>2 DEF IInv, Owned
    <3>2. Whole(heap, T)
      BY <3>1 DEF Holds
    <3>3. PICK m \in Nat : Walked(heap, T, m, Tiles(heap)) /\ Tiles(heap)[m + 1] = End(heap)
      BY <3>2, HeapSeen
    <3> DEFINE t == Tiles(heap)
    <3>4. /\ Len(t) = m + 1 /\ t[m + 1] = heap.brk - 1 /\ t[1] = FirstBlock
          /\ \A k \in 1..m : t[k] \in T /\ t[k + 1] = After(heap, t[k])
      BY <3>3 DEF Walked, End
    <3> HIDE DEF t
    <3>5. check_prev_alloc(heap.mem[t[1]]) = 1
      BY <3>2, <3>4 DEF Whole, Tagged
    <3>6. ASSUME NEW k \in 1..m
          PROVE  /\ Size(heap, t[k]) >= 4 /\ Size(heap, t[k]) % 2 = 0
                 /\ check_prev_alloc(heap.mem[t[k + 1]]) = check_alloc(heap.mem[t[k]])
                 /\ IsFree(heap, t[k]) =>
                      get_blockSize(heap.mem[t[k + 1] - 1]) = Size(heap, t[k])
      <4>1. t[k] \in T /\ t[k + 1] = After(heap, t[k])
        BY <3>4
      <4>2. Size(heap, t[k]) >= 4 /\ Size(heap, t[k]) % 2 = 0
        BY <3>2, <4>1 DEF Whole, Tiling
      <4>3. check_prev_alloc(heap.mem[t[k + 1]]) = check_alloc(heap.mem[t[k]])
        BY <3>2, <4>1 DEF Whole, Tagged
      <4>4. IsFree(heap, t[k]) => get_blockSize(heap.mem[t[k + 1] - 1]) = Size(heap, t[k])
        BY <3>2, <4>1 DEF Whole, Footed, FreeIn
      <4> QED
        BY <4>2, <4>3, <4>4
    <3>7. 1 .. Len(t) - 1 = 1..m /\ t[Len(t)] = heap.brk - 1
      BY <3>4
    <3> QED
      BY <3>5, <3>6, <3>7 DEF t
  <2> QED
    BY <2>1, <2>2 DEF BoundaryTags
<1> QED
  BY <1>1, Invariant, PTL

\* Each list holds exactly the free blocks of its class, by address.
THEOREM FreeListsKept == Spec => []FreeLists
<1>1. ASSUME IInv
      PROVE  FreeLists
  <2> SUFFICES ASSUME Ready, NEW c \in 0 .. SEG_NUM - 1
               PROVE  LET list == FreeList(heap, c)
                      IN  /\ {list[k] : k \in DOMAIN list} =
                               {b \in FreeBlocks(heap) : choose_list(Size(heap, b)) = c}
                          /\ \A k \in DOMAIN list :
                               LET before == IF k = 1 THEN Root(c) ELSE list[k - 1]
                               IN  before < list[k] /\ Pred(heap, list[k]) = before
    BY DEF FreeLists
  <2>1. PICK T : Holds(heap, T, blocks, InUse)
    BY <1>1 DEF IInv, Owned
  <2>2. Whole(heap, T) /\ c \in Classes
    BY <2>1 DEF Holds, Classes
  <2> DEFINE list == FreeList(heap, c)
             S == Class(heap, T, c)
  <2>3. /\ Separate(S) /\ Ordered(heap, Root(c), S) /\ Enumerates(list, S)
    BY <2>2, ListSeen
  <2>4. PICK n \in Nat : Listing(S, Root(c), n, list)
    BY <2>2, ListSeen
  <2>5. S = {b \in FreeBlocks(heap) : choose_list(Size(heap, b)) = c}
    <3>1. FreeBlocks(heap) = FreeIn(heap, T) /\ FreeIn(heap, T) \subseteq Words
      BY <2>2, HeapSeen DEF Whole, Lists, Separate
    <3> QED
      BY <3>1 DEF Class, InClass, Kinds
  <2> HIDE DEF list, S
  <2>6. ASSUME NEW k \in DOMAIN list
        PROVE  LET before == IF k = 1 THEN Root(c) ELSE list[k - 1]
               IN  before < list[k] /\ Pred(heap, list[k]) = before
    <3> DEFINE before == IF k = 1 THEN Root(c) ELSE list[k - 1]
    <3>1. k \in 1..n /\ list[k] \in S
      BY <2>4 DEF Listing
    <3>2. Precedes(S, Root(c), before, list[k])
      BY <2>4, <3>1 DEF Listing
    <3>3. Precedes(S, Root(c), Pred(heap, list[k]), list[k])
      BY <2>3, <3>1 DEF Ordered
    <3> HIDE DEF before
    <3>4. Pred(heap, list[k]) = before
      BY <2>2, <2>3, <3>1, <3>2, <3>3, PrecedesOnce
    <3>5. before < list[k]
      BY <3>2 DEF Precedes
    <3> QED
      BY <3>4, <3>5 DEF before
  <2>7. {list[k] : k \in DOMAIN list} = S
    BY <2>3 DEF Enumerates
  <2> QED
    BY <2>5, <2>6, <2>7 DEF list
<1> QED
  BY <1>1, Invariant, PTL

\* The heap holds no allocated block but those in use, until mm_malloc fails.
THEOREM NoLeak == Spec => []NothingLeaked
<1>1. ASSUME IInv
      PROVE  NothingLeaked
  <2> SUFFICES ASSUME report \notin {"mm_malloc failed", "mm_init failed"}
               PROVE  TileSet(heap) \ FreeBlocks(heap) = {get_block(blocks[i].ptr) : i \in InUse}
    BY DEF NothingLeaked
  <2>1. PICK T : Owned(T)
    BY <1>1 DEF IInv, Ready
  <2>2. /\ Whole(heap, T) /\ \A i \in InUse : blocks[i].ptr - 3 \in Allocated(heap, T)
        /\ \A b \in Allocated(heap, T) : \E i \in InUse : b = blocks[i].ptr - 3
    BY <2>1 DEF Owned, Holds
  <2>3. TileSet(heap) \ FreeBlocks(heap) = Allocated(heap, T)
    <3>1. TileSet(heap) = T /\ FreeBlocks(heap) = FreeIn(heap, T)
      BY <2>2, HeapSeen
    <3> QED
      BY <3>1 DEF Allocated
  <2>4. Allocated(heap, T) = {blocks[i].ptr - 3 : i \in InUse}
    BY <2>2
  <2> QED
    BY <2>3, <2>4 DEF get_block
<1> QED
  BY <1>1, Invariant, PTL

-----------------------------------------------------------------------------
(* Steps. *)
FullStep ==
  /\ report' = "mm_malloc failed" =>
       \A i \in Ids \ Live, size \in Sizes :
         Alloc(i, size) =>
           /\ \A b \in FreeBlocks(heap) : Size(heap, b) < BlockWords(size)
           /\ heap.brk + 2 * BlockWords(size) > MAX_HEAP
  /\ report' = "mm_realloc failed" =>
       \A i \in Live, size \in Sizes :
         Realloc(i, size) =>
           /\ \A b \in FreeBlocks(heap') : Size(heap', b) < BlockWords(size)
           /\ Fails(heap, BlockWords(size))

\* A step that fails found no block large enough and no room.
LEMMA StepFails ==
  ASSUME IInv
  PROVE  FullStep
<1>1. ASSUME report' = "mm_malloc failed", NEW i \in Ids \ Live, NEW size \in Sizes,
             Alloc(i, size)
      PROVE  /\ \A b \in FreeBlocks(heap) : Size(heap, b) < BlockWords(size)
             /\ heap.brk + 2 * BlockWords(size) > MAX_HEAP
  <2>1. ~Taken(i, size)
    BY <1>1 DEF Taken
  <2>2. PICK T : Whole(heap, T) /\ Refused(heap, T, size, heap')
    BY <1>1, <2>1, AllocFacts
  <2>3. FreeBlocks(heap) = FreeIn(heap, T)
    BY <2>2, HeapSeen
  <2> QED
    BY <2>2, <2>3 DEF Refused
<1>2. ASSUME report' = "mm_realloc failed", NEW i \in Live, NEW size \in Sizes,
             Realloc(i, size)
      PROVE  /\ \A b \in FreeBlocks(heap') : Size(heap', b) < BlockWords(size)
             /\ Fails(heap, BlockWords(size))
  <2>1. ~Taken(i, size)
    BY <1>2 DEF Taken
  <2>2. PICK T : Whole(heap, T) /\ GivenUp(heap, T, size, blocks[i].ptr - 3, heap')
    BY <1>2, <2>1, ReallocStep
  <2>3. PICK U : /\ Whole(heap', U)
                 /\ \A x \in FreeIn(heap', U) : Size(heap', x) < BlockWords(size)
    BY <2>2 DEF GivenUp
  <2>4. FreeBlocks(heap') = FreeIn(heap', U)
    BY <2>3, HeapSeen
  <2>5. Fails(heap, BlockWords(size))
    BY <2>2 DEF GivenUp
  <2> QED
    BY <2>3, <2>4, <2>5
<1> QED
  BY <1>1, <1>2 DEF FullStep

\* A call fails only if no free block is large enough and the heap is full.
THEOREM FullFailures == Spec => FailsOnlyWhenFull
<1>1. IInv /\ [Next]_vars => [FullStep]_vars
  BY StepFails
<1>2. Spec => [][FullStep]_vars
  BY <1>1, Invariant, PTL DEF Spec
<1> QED
  BY <1>2 DEF FailsOnlyWhenFull, FullStep

\* The blocks of a heap: their words, and that they are apart.
LEMMA RegionsHeld ==
  ASSUME NEW h, NEW T, NEW B, NEW I, Holds(h, T, B, I), NEW i \in I
  PROVE  /\ [k \in 1 .. B[i].size \div WSIZE |-> h.mem[B[i].ptr + k - 1]] =
              [k \in 1 .. B[i].size \div WSIZE |-> Tag(i)]
         /\ Cardinality(Extent(B[i].ptr, B[i].size)) = B[i].size \div WSIZE
         /\ \A j \in I \ {i} : Extent(B[i].ptr, B[i].size) \cap Extent(B[j].ptr, B[j].size) = {}
<1>1. /\ h \in Heap /\ Tiling(h, T)
      /\ \A j \in I : /\ B[j].ptr \in Int /\ B[j].size \in Sizes /\ B[j].ptr - 3 \in T
                      /\ B[j].size \div WSIZE + 3 <= Size(h, B[j].ptr - 3)
                      /\ \A a \in Extent(B[j].ptr, B[j].size) : h.mem[a] = Tag(j)
      /\ \A j, m \in I : B[j].ptr = B[m].ptr => j = m
  BY DEF Holds, Whole, Allocated
<1> DEFINE n == B[i].size \div WSIZE
           p == B[i].ptr
<1>2. /\ n \in Int /\ n > 0 /\ p \in Int /\ Extent(p, B[i].size) = p..p+n-1
      /\ \A a \in p..p+n-1 : h.mem[a] = Tag(i)
  BY <1>1, WordsType DEF Extent
<1>3. ASSUME NEW j \in I \ {i}
      PROVE  Extent(p, B[i].size) \cap Extent(B[j].ptr, B[j].size) = {}
  <2> DEFINE b == p - 3
             d == B[j].ptr - 3
  <2>1. /\ b \in T /\ p = b + 3 /\ B[i].size \in Sizes /\ n + 3 <= Size(h, b)
        /\ d \in T /\ B[j].ptr = d + 3 /\ B[j].size \in Sizes
        /\ B[j].size \div WSIZE + 3 <= Size(h, d) /\ d # b
    BY <1>1, <1>3
  <2> HIDE DEF b, d
  <2>2. \A a \in Extent(p, B[i].size) : a \in b..After(h, b)-1
    BY <1>1, <2>1, ExtentIn
  <2> HIDE DEF p
  <2>3. \A a \in Extent(B[j].ptr, B[j].size) : a \in d..After(h, d)-1
    BY <1>1, <2>1, ExtentIn
  <2>4. \A a \in b..After(h, b)-1 : a \notin d..After(h, d)-1
    BY <1>1, <2>1, OwnWords
  <2> QED
    BY <2>2, <2>3, <2>4
<1> HIDE DEF n, p
<1>4. \A k \in 1..n : p + k - 1 \in p..p+n-1
  BY <1>2
<1>5. [k \in 1..n |-> h.mem[p + k - 1]] = [k \in 1..n |-> Tag(i)]
  BY <1>2, <1>4
<1>6. Cardinality(p..p+n-1) = n
  <2>1. p + n - 1 \in Int /\ (p + n - 1) - p + 1 = n /\ ~(p > p + n - 1)
    BY <1>2
  <2> QED
    BY <1>2, <2>1, FS_Interval
<1> QED
  BY <1>2, <1>3, <1>5, <1>6 DEF n, p

\* The regions in use, as IInv tells them.
HeldInUse ==
  \A i \in InUse :
    /\ blocks[i].size \in Sizes
    /\ [k \in 1 .. blocks[i].size \div WSIZE |-> heap.mem[blocks[i].ptr + k - 1]] =
         [k \in 1 .. blocks[i].size \div WSIZE |-> Tag(i)]
    /\ Cardinality(Extent(blocks[i].ptr, blocks[i].size)) = blocks[i].size \div WSIZE
    /\ \A j \in InUse \ {i} :
         Extent(blocks[i].ptr, blocks[i].size) \cap Extent(blocks[j].ptr, blocks[j].size) = {}

\* The invariant says what the regions in use are.
LEMMA UseHeld == IInv => HeldInUse
<1> SUFFICES ASSUME IInv PROVE HeldInUse
  OBVIOUS
<1>1. CASE Ready
  <2>1. PICK T : Holds(heap, T, blocks, InUse)
    BY <1>1 DEF IInv, Owned
  <2>2. \A i \in InUse : blocks[i].size \in Sizes
    BY <2>1 DEF Holds
  <2> QED
    BY <2>1, <2>2, RegionsHeld DEF HeldInUse
<1>2. CASE ~Ready
  <2>1. InUse = {}
    BY <1>2 DEF IInv, Ready, InUse
  <2> QED
    BY <2>1 DEF HeldInUse
<1> QED
  BY <1>1, <1>2

\* What the refinement maps to.
Regions == [i \in InUse |-> Extent(blocks[i].ptr, blocks[i].size)]
Data == [i \in InUse |-> [k \in 1 .. blocks[i].size \div WSIZE |->
           heap.mem[blocks[i].ptr + k - 1]]]

\* The regions and the data before a step.
LEMMA RegionsAre ==
  ASSUME HeldInUse
  PROVE  /\ DOMAIN Regions = InUse
         /\ \A i \in InUse : Regions[i] = Extent(blocks[i].ptr, blocks[i].size)
         /\ Data = [i \in InUse |-> [k \in 1 .. blocks[i].size \div WSIZE |-> Tag(i)]]
BY DEF HeldInUse, Regions, Data

\* The regions and the data after it.
LEMMA NextRegionsAre ==
  ASSUME HeldInUse'
  PROVE  /\ DOMAIN Regions' = InUse'
         /\ \A i \in InUse' : Regions'[i] = Extent(blocks'[i].ptr, blocks'[i].size)
         /\ Data' = [i \in InUse' |-> [k \in 1 .. blocks'[i].size \div WSIZE |-> Tag(i)]]
BY DEF HeldInUse, Regions, Data

\* The abstract specification counts with the same operator.
LEMMA SameCount ==
  ASSUME NEW S
  PROVE  Abstract!Cardinality(S) = Cardinality(S)
BY DEF Abstract!Cardinality, Cardinality

\* A block that is taken is a region granted.
LEMMA TakenGrants ==
  ASSUME IInv, IInv', HeldInUse, HeldInUse', report = "none",
         NEW i \in Ids, NEW size \in Sizes, Taken(i, size)
  PROVE  Abstract!Grant(i)
<1>1. /\ report' = "none" /\ Live' = Live \cup {i} /\ blocks'[i].size = size
      /\ \A j \in Live \ {i} : blocks'[j] = blocks[j]
  BY DEF Taken
<1>2. InUse = Live /\ InUse' = Live'
  BY <1>1 DEF IInv
<1>3. i \in InUse' /\ \A j \in InUse \ {i} : j \in InUse' /\ j # i /\ blocks'[j] = blocks[j]
  BY <1>1, <1>2
<1> DEFINE n == Cardinality(Regions'[i])
<1>4. n = size \div WSIZE
  BY <1>1, <1>3, NextRegionsAre DEF HeldInUse
<1>5. DOMAIN Regions = InUse /\ DOMAIN Regions' = InUse \cup {i} /\ DOMAIN Data' = InUse \cup {i}
  BY <1>1, <1>2, RegionsAre, NextRegionsAre
<1>6. n \in {s \div WSIZE : s \in Sizes}
  BY <1>4
<1>7. Data'[i] = [k \in 1..n |-> Tag(i)]
  BY <1>1, <1>3, <1>4, NextRegionsAre
<1>8. ASSUME NEW j \in InUse \ {i}
      PROVE  /\ Regions'[j] = Regions[j] /\ Data'[j] = Data[j]
             /\ Regions'[i] \cap Regions[j] = {}
  <2>1. Regions'[j] = Regions[j] /\ Regions'[j] = Extent(blocks'[j].ptr, blocks'[j].size)
    BY <1>3, RegionsAre, NextRegionsAre
  <2>2. Data'[j] = [k \in 1 .. blocks'[j].size \div WSIZE |-> Tag(j)]
    BY <1>3, NextRegionsAre
  <2>3. Data[j] = [k \in 1 .. blocks[j].size \div WSIZE |-> Tag(j)]
    BY RegionsAre
  <2>4. Regions'[i] = Extent(blocks'[i].ptr, blocks'[i].size)
    BY <1>3, NextRegionsAre
  <2>5. Extent(blocks'[i].ptr, blocks'[i].size) \cap Extent(blocks'[j].ptr, blocks'[j].size) = {}
    BY <1>3 DEF HeldInUse
  <2> QED
    BY <1>3, <2>1, <2>2, <2>3, <2>4, <2>5
<1>9. Abstract!Cardinality(Regions'[i]) = n
  BY SameCount
<1> HIDE DEF n
<1>10. DOMAIN Regions' = DOMAIN Regions \cup {i} /\ DOMAIN Data' = DOMAIN Regions \cup {i}
  BY <1>5
<1>11. \A j \in DOMAIN Regions \ {i} : /\ Regions'[j] = Regions[j] /\ Data'[j] = Data[j]
                                       /\ Regions'[i] \cap Regions[j] = {}
  BY <1>5, <1>8
<1> QED
  BY <1>6, <1>7, <1>9, <1>10, <1>11 DEF Abstract!Grant, Abstract!Live, Regions, Data

\* Blocks that are kept are a region released, or none.
LEMMA RetainedReleases ==
  ASSUME IInv, HeldInUse, HeldInUse', report = "none", NEW J \in SUBSET Live, Retained(J)
  PROVE  /\ Regions' = [j \in J |-> Regions[j]] /\ Data' = [j \in J |-> Data[j]]
         /\ Live = InUse
<1>1. InUse' = J /\ \A j \in J : blocks'[j] = blocks[j]
  BY DEF Retained
<1>2. InUse = Live
  BY DEF IInv
<1>3. Regions' = [j \in J |-> Regions[j]]
  BY <1>1, <1>2 DEF Regions
<1>4. Data' = [j \in J |-> [k \in 1 .. blocks'[j].size \div WSIZE |-> Tag(j)]]
  BY <1>1, NextRegionsAre
<1>5. \A j \in J : Data[j] = [k \in 1 .. blocks[j].size \div WSIZE |-> Tag(j)]
  BY <1>2, RegionsAre
<1> QED
  BY <1>1, <1>2, <1>3, <1>4, <1>5

\* Every step grants or releases one region and leaves the others' words.
THEOREM Refinement == Spec => ImplementsAllocator
<1>1. Init => Abstract!Init
  <2> SUFFICES ASSUME Init PROVE Abstract!Init
    OBVIOUS
  <2>1. blocks = << >>
    BY DEF Init
  <2>2. DOMAIN << >> = {}
    OBVIOUS
  <2>3. InUse = {}
    BY <2>1, <2>2 DEF InUse, Live
  <2>4. Regions = << >> /\ Data = << >>
    BY <2>3 DEF Regions, Data
  <2> QED
    BY <2>4 DEF Abstract!Init, Regions, Data
<1>2. ASSUME IInv, IInv', HeldInUse, HeldInUse', [Next]_vars
      PROVE  [Abstract!Next]_<<Regions, Data>>
  <2>1. CASE UNCHANGED vars
    BY <2>1 DEF vars, Regions, Data, InUse, Live
  <2>2. CASE Next
    <3>1. report = "none"
      BY <1>2, <2>2, StepFacts
    <3>2. CASE \E i \in Ids, size \in Sizes : Taken(i, size)
      BY <1>2, <3>1, <3>2, TakenGrants DEF Abstract!Next
    <3>3. ASSUME NEW i \in Ids, i \in Live, Retained(Live \ {i})
          PROVE  Abstract!Next
      <4> DEFINE J == Live \ {i}
      <4>1. Regions' = [j \in J |-> Regions[j]] /\ Data' = [j \in J |-> Data[j]] /\ Live = InUse
        BY <1>2, <3>1, <3>3, RetainedReleases
      <4>2. DOMAIN Regions = Live
        BY <4>1 DEF Regions
      <4>3. Abstract!Release(i)
        BY <3>3, <4>1, <4>2 DEF Abstract!Release, Abstract!Live, Regions, Data
      <4> QED
        BY <4>3 DEF Abstract!Next
    <3>4. CASE Retained(Live)
      <4>1. Regions' = [j \in Live |-> Regions[j]] /\ Data' = [j \in Live |-> Data[j]]
            /\ Live = InUse
        BY <1>2, <3>1, <3>4, RetainedReleases
      <4>2. Regions = [j \in Live |-> Regions[j]] /\ Data = [j \in Live |-> Data[j]]
        BY <4>1 DEF Regions, Data
      <4> QED
        BY <4>1, <4>2
    <3> QED
      BY <1>2, <2>2, <3>2, <3>3, <3>4, StepFacts
  <2> QED
    BY <1>2, <2>1, <2>2
<1>3. IInv /\ IInv' /\ HeldInUse /\ HeldInUse' /\ [Next]_vars => [Abstract!Next]_<<Regions, Data>>
  BY <1>2
<1> QED
  BY <1>1, <1>3, Invariant, UseHeld, PTL
     DEF Spec, ImplementsAllocator, Abstract!Spec, Regions, Data
=============================================================================
