-------------------------- MODULE PartitionTheorems --------------------------
(***************************************************************************)
(* Facts about the split of a file (module Partition), for every file,     *)
(* core count and chunk size.                                              *)
(***************************************************************************)
EXTENDS Partition, SequenceTheorems, WellFoundedInduction, TLAPS

\* A non-empty set of naturals with an upper bound has a greatest element.
LEMMA GreatestBelow ==
    ASSUME NEW bound \in Nat, NEW T \in SUBSET (0..bound), T # {}
    PROVE  \E m \in T : \A k \in T : k <= m
<1> DEFINE D == {bound - k : k \in T}
<1>1. D \in SUBSET Nat /\ D # {}
  <2>1. \A k \in T : bound - k \in Nat
    OBVIOUS
  <2>2. PICK k \in T : TRUE
    OBVIOUS
  <2> QED
    BY <2>1, <2>2
<1>2. PICK d \in D : \A e \in D : ~(<<e, d>> \in OpToRel(<, Nat))
  BY <1>1, WFMin, NatLessThanWellFounded
<1>3. PICK m \in T : d = bound - m
  OBVIOUS
<1>4. ASSUME NEW k \in T PROVE k <= m
  <2>1. bound - k \in D /\ bound - k \in Nat /\ d \in Nat
    BY <1>1
  <2>2. ~(bound - k < d)
    BY <1>2, <2>1 DEF OpToRel
  <2> QED
    BY <1>3, <2>1, <2>2
<1> QED
  BY <1>4

\* Division of naturals, as std::size_t divides.
LEMMA NatDivision ==
    ASSUME NEW a \in Nat, NEW b \in Nat \ {0}
    PROVE  /\ a \div b \in Nat
           /\ a % b \in 0..(b - 1)
           /\ a = (b * (a \div b)) + (a % b)
  OBVIOUS

\* A product of naturals is one.
LEMMA NatTimes ==
    ASSUME NEW a \in Nat, NEW b \in Nat
    PROVE  a * b \in Nat
  OBVIOUS

\* The shrinking loop has a count to stop at: between one block and one per
\* core, and no larger count would do.
THEOREM FittingCountExists ==
    ASSUME NEW f \in Nat, NEW n \in Nat \ {0}, NEW c \in Nat \ {0}
    PROVE  LET m == FittingCount(f, n, c)
           IN  /\ m \in 1..n
               /\ m = 1 \/ f \div m >= c
               /\ \A k \in (m + 1)..n : f \div k < c
<1> DEFINE Fits(m) == m = 1 \/ f \div m >= c
           T == {m \in 1..n : Fits(m)}
<1>1. T \in SUBSET (0..n) /\ T # {}
  <2>1. 1 \in T
    OBVIOUS
  <2> QED
    BY <2>1
<1>2. PICK m \in T : \A k \in T : k <= m
  <2> HIDE DEF T
  <2> QED
    BY <1>1, GreatestBelow
<1>3. ASSUME NEW k \in (m + 1)..n PROVE f \div k < c
  <2>1. k \in 1..n /\ k \in Nat \ {0} /\ ~(k <= m)
    OBVIOUS
  <2>2. ~Fits(k)
    BY <1>2, <2>1
  <2>3. f \div k \in Nat
    BY <2>1, NatDivision
  <2> QED
    BY <2>2, <2>3
<1>4. \E j \in 1..n :
          /\ j = 1 \/ f \div j >= c
          /\ \A k \in (j + 1)..n : f \div k < c
  BY <1>2, <1>3
<1> QED
  BY <1>4 DEF FittingCount

\* The split is a non-empty sequence of at most `n' blocks, whose starts and
\* sizes are naturals even if the last size wraps.
THEOREM SplitIsTyped ==
    ASSUME NEW f \in Nat, NEW n \in Nat \ {0}, NEW c \in Nat \ {0}, NEW w \in Nat \ {0}
    PROVE  /\ Split(f, n, c, w) \in
                  Seq([block_id : Nat, offset : Nat, size : Nat, chunk_size : {c}])
           /\ Len(Split(f, n, c, w)) \in 1..n
<1> DEFINE m == FittingCount(f, n, c)
           whole == WholeBlockSize(f, m, c)
           start(i) == (i - 1) * (whole + 1)
           element(i) == IF i < m
                         THEN Block(i - 1, start(i), whole, c)
                         ELSE Block(i - 1, start(m), WrapSub(f, start(m), w), c)
           B == [block_id : Nat, offset : Nat, size : Nat, chunk_size : {c}]
<1>1. m \in 1..n
  BY FittingCountExists
<1> HIDE DEF m
<1>2. whole \in Nat
  <2>1. f \div m \in Nat
    BY <1>1, NatDivision
  <2>2. (f \div m) \div c \in Nat
    BY <2>1, NatDivision
  <2>3. 1 + ((f \div m) \div c) \in Nat
    BY <2>2
  <2> QED
    BY <2>3, NatTimes DEF WholeBlockSize
<1> HIDE DEF whole
<1>3. ASSUME NEW i \in 1..n PROVE start(i) \in Nat
  <2>1. i - 1 \in Nat /\ whole + 1 \in Nat
    BY <1>2
  <2> QED
    BY <2>1, NatTimes
<1>4. WrapSub(f, start(m), w) \in Nat
  <2>1. start(m) \in Nat
    BY <1>1, <1>3
  <2> HIDE DEF start
  <2> QED
    BY <2>1 DEF WrapSub
<1>5. ASSUME NEW i \in 1..m PROVE element(i) \in B
  <2>1. i - 1 \in Nat /\ start(i) \in Nat /\ start(m) \in Nat
    BY <1>1, <1>3
  <2> HIDE DEF start
  <2> QED
    BY <1>2, <1>4, <2>1 DEF Block
<1>6. Split(f, n, c, w) = [i \in 1..m |-> element(i)]
  BY DEF Split, m, whole
<1> HIDE DEF element, B
<1>7. [i \in 1..m |-> element(i)] \in Seq(B) /\ Len([i \in 1..m |-> element(i)]) = m
  <2>1. m \in Nat
    BY <1>1
  <2> QED
    BY <1>5, <2>1
<1> QED
  BY <1>1, <1>6, <1>7 DEF B

\* The start of the last block exceeds the file by less than a chunk and a byte
\* per block.
LEMMA LastStart ==
    ASSUME NEW f \in Nat, NEW m \in Nat \ {0}, NEW n \in Nat, m <= n, NEW c \in Nat \ {0}
    PROVE  /\ WholeBlockSize(f, m, c) \in Nat
           /\ (m - 1) * (WholeBlockSize(f, m, c) + 1) \in Nat
           /\ (m - 1) * (WholeBlockSize(f, m, c) + 1) <= f + n * (c + 1)
<1> DEFINE a == f \div m
           q == a \div c
           whole == WholeBlockSize(f, m, c)
           k == m - 1
<1>1. a \in Nat /\ m * a <= f
  <2>1. a \in Nat /\ f = (m * a) + (f % m) /\ f % m \in 0..(m - 1)
    BY NatDivision
  <2>2. m * a \in Nat
    BY <2>1, NatTimes
  <2> HIDE DEF a
  <2> QED
    BY <2>1, <2>2
<1> HIDE DEF a
<1>2. q \in Nat /\ c * q <= a
  <2>1. q \in Nat /\ a = (c * q) + (a % c) /\ a % c \in 0..(c - 1)
    BY <1>1, NatDivision
  <2>2. c * q \in Nat
    BY <2>1, NatTimes
  <2> HIDE DEF q
  <2> QED
    BY <1>1, <2>1, <2>2
<1> HIDE DEF q
<1>3. whole = (1 + q) * c
  BY DEF WholeBlockSize, q, a
<1> HIDE DEF whole
<1>4. whole \in Nat /\ whole + 1 <= a + (c + 1)
  <2>1. (1 + q) * c = c + c * q /\ c * q \in Nat
    BY <1>2, NatTimes
  <2> QED
    BY <1>1, <1>2, <1>3, <2>1
<1>5. k \in Nat /\ m = k + 1
  OBVIOUS
<1> HIDE DEF k
<1>6. k * (whole + 1) \in Nat
  BY <1>4, <1>5, NatTimes
<1>7. k * (whole + 1) <= k * (a + (c + 1))
  BY <1>1, <1>4, <1>5
<1>8. k * (a + (c + 1)) = k * a + k * (c + 1)
  BY <1>1, <1>5
<1>9. k * a <= m * a /\ k * a \in Nat
  BY <1>1, <1>5, NatTimes
<1>10. k * (c + 1) <= n * (c + 1) /\ k * (c + 1) \in Nat /\ n * (c + 1) \in Nat
  BY <1>5, NatTimes
<1> QED
  BY <1>1, <1>4, <1>6, <1>7, <1>8, <1>9, <1>10 DEF k, whole

\* Either every block lies in the file, or the size of the last has wrapped and
\* it ends 2^64 bytes beyond the end of the file.
THEOREM SplitFitsOrWraps ==
    ASSUME NEW f \in Nat, NEW n \in Nat \ {0}, NEW c \in Nat \ {0}, NEW w \in Nat,
           f + n * (c + 1) < w
    PROVE  LET blocks == Split(f, n, c, w)
               last == blocks[Len(blocks)]
           IN  \/ \A i \in DOMAIN blocks : blocks[i].offset + blocks[i].size <= f
               \/ /\ last.offset + last.size = f + w
                  /\ last.size + f + n * (c + 1) >= w
<1> DEFINE m == FittingCount(f, n, c)
           whole == WholeBlockSize(f, m, c)
           start(i) == (i - 1) * (whole + 1)
           far == start(m)
           tail == WrapSub(f, far, w)
           element(i) == IF i < m THEN Block(i - 1, start(i), whole, c)
                                  ELSE Block(i - 1, far, tail, c)
           blocks == Split(f, n, c, w)
<1>1. m \in 1..n
  BY FittingCountExists
<1> HIDE DEF m
<1>2. whole \in Nat /\ far \in Nat /\ far <= f + n * (c + 1)
  <2>1. m \in Nat \ {0} /\ n \in Nat /\ m <= n
    BY <1>1
  <2> QED
    BY <2>1, LastStart
<1>3. blocks = [i \in 1..m |-> element(i)]
  BY DEF Split, m
<1>4. DOMAIN blocks = 1..m /\ Len(blocks) = m /\ \A i \in 1..m : blocks[i] = element(i)
  <2> HIDE DEF element, blocks
  <2>1. m \in Nat
    BY <1>1
  <2> QED
    BY <1>3, <2>1
<1>5. blocks[m].offset = far /\ blocks[m].size = tail
  <2>1. m \in 1..m /\ ~(m < m)
    BY <1>1
  <2> HIDE DEF far, tail, start, whole, blocks
  <2> QED
    BY <1>4, <2>1 DEF Block
<1>6. n * (c + 1) \in Nat
  BY NatTimes
<1>7. CASE far <= f
  <2>1. tail = f - far
    <3>1. f - far \in 0..(w - 1)
      BY <1>2, <1>6, <1>7
    <3> HIDE DEF far
    <3> QED
      BY <3>1 DEF WrapSub
  <2>2. ASSUME NEW i \in 1..m PROVE blocks[i].offset + blocks[i].size <= f
    <3>1. CASE i = m
      <4> HIDE DEF far, tail, blocks
      <4> QED
        BY <1>2, <1>5, <2>1, <3>1
    <3>2. CASE i < m
      <4>1. blocks[i].offset = start(i) /\ blocks[i].size = whole
        <5> HIDE DEF far, tail, start, whole, blocks
        <5> QED
          BY <1>4, <3>2 DEF Block
      <4>2. start(i) + whole <= far
        <5>1. i - 1 \in Nat /\ m - 1 \in Nat /\ (i - 1) + 1 <= m - 1 /\ whole + 1 \in Nat
          BY <1>1, <1>2, <3>2
        <5>2. ((i - 1) + 1) * (whole + 1) <= far
          <6> HIDE DEF whole
          <6> QED
            BY <5>1
        <5>3. ((i - 1) + 1) * (whole + 1) = start(i) + (whole + 1) /\ start(i) \in Nat
          <6> HIDE DEF whole
          <6> QED
            BY <5>1, NatTimes
        <5> HIDE DEF far, start, whole
        <5> QED
          BY <1>2, <5>2, <5>3
      <4>3. start(i) \in Nat
        <5>1. i - 1 \in Nat /\ whole + 1 \in Nat
          BY <1>2
        <5> QED
          BY <5>1, NatTimes
      <4> HIDE DEF far, start, whole, blocks
      <4> QED
        BY <1>2, <1>7, <4>1, <4>2, <4>3
    <3> QED
      BY <1>1, <3>1, <3>2
  <2> QED
    BY <1>4, <2>2
<1>8. CASE far > f
  <2>1. tail = f - far + w
    <3>1. f - far + w \in 0..(w - 1)
      BY <1>2, <1>6, <1>8
    <3> HIDE DEF far
    <3>2. \A d \in Int : d < 0 /\ d + w \in 0..(w - 1) => d % w = d + w
      OBVIOUS
    <3> QED
      BY <1>2, <1>8, <3>1, <3>2 DEF WrapSub
  <2>2. /\ blocks[m].offset + blocks[m].size = f + w
        /\ blocks[m].size + f + n * (c + 1) >= w
    <3> HIDE DEF far, tail, blocks
    <3> QED
      BY <1>2, <1>5, <1>6, <2>1
  <2> QED
    BY <1>4, <2>2
<1> QED
  BY <1>2, <1>7, <1>8

\* Only one count qualifies.
LEMMA FittingCountUnique ==
    ASSUME NEW f \in Nat, NEW n \in Nat \ {0}, NEW c \in Nat \ {0}, NEW m \in 1..n,
           m = 1 \/ f \div m >= c,
           \A k \in (m + 1)..n : f \div k < c
    PROVE  m = FittingCount(f, n, c)
<1> DEFINE p == FittingCount(f, n, c)
<1>1. p \in 1..n /\ (p = 1 \/ f \div p >= c) /\ \A k \in (p + 1)..n : f \div k < c
  BY FittingCountExists
<1> HIDE DEF p
<1>2. f \div m \in Nat /\ f \div p \in Nat
  <2>1. m \in Nat \ {0} /\ p \in Nat \ {0}
    BY <1>1
  <2> QED
    BY <2>1, NatDivision
<1>3. ~(m < p)
  BY <1>1, <1>2
<1>4. ~(p < m)
  BY <1>1, <1>2
<1>5. m = p
  BY <1>1, <1>3, <1>4
<1> QED
  BY <1>5 DEF p

\* The elements of the split.
LEMMA SplitElements ==
    ASSUME NEW f \in Nat, NEW n \in Nat \ {0}, NEW c \in Nat \ {0}, NEW w \in Nat \ {0}
    PROVE  LET m == FittingCount(f, n, c)
               whole == WholeBlockSize(f, m, c)
               far == (m - 1) * (whole + 1)
           IN  /\ Len(Split(f, n, c, w)) = m
               /\ \A i \in 1..(m - 1) :
                      Split(f, n, c, w)[i] = Block(i - 1, (i - 1) * (whole + 1), whole, c)
               /\ Split(f, n, c, w)[m] = Block(m - 1, far, WrapSub(f, far, w), c)
<1> DEFINE m == FittingCount(f, n, c)
           whole == WholeBlockSize(f, m, c)
           start(i) == (i - 1) * (whole + 1)
           far == start(m)
           element(i) == IF i < m THEN Block(i - 1, start(i), whole, c)
                                  ELSE Block(i - 1, far, WrapSub(f, far, w), c)
<1>1. m \in 1..n
  BY FittingCountExists
<1>2. Split(f, n, c, w) = [i \in 1..m |-> element(i)]
  BY DEF Split
<1> HIDE DEF m, whole, far
<1>3. \A i \in 1..(m - 1) : i \in 1..m /\ element(i) = Block(i - 1, start(i), whole, c)
  BY <1>1
<1>4. m \in 1..m /\ element(m) = Block(m - 1, far, WrapSub(f, far, w), c)
  BY <1>1
<1> HIDE DEF element, start
<1>5. Len([i \in 1..m |-> element(i)]) = m /\ \A i \in 1..m : [j \in 1..m |-> element(j)][i] = element(i)
  BY <1>1
<1>6. /\ Len(Split(f, n, c, w)) = m
      /\ \A i \in 1..(m - 1) : Split(f, n, c, w)[i] = Block(i - 1, start(i), whole, c)
      /\ Split(f, n, c, w)[m] = Block(m - 1, far, WrapSub(f, far, w), c)
  BY <1>2, <1>3, <1>4, <1>5
<1> QED
  BY <1>6 DEF m, whole, far, start

\* Numbered in order, and all but the last made of whole chunks, at least one.
InWholeChunks(blocks) ==
    /\ \A i \in 1..Len(blocks) : blocks[i].block_id = i - 1
    /\ \A i \in 1..(Len(blocks) - 1) :
           ChunksCount(blocks[i]) > 0 /\ TailSize(blocks[i]) = 0

\* The blocks of a split are numbered in order, and all but the last are made of
\* whole chunks, at least one; what modules BlockReader and Pipeline work on is so.
THEOREM BlocksAreWhole ==
    ASSUME NEW f \in Nat, NEW n \in Nat \ {0}, NEW c \in Nat \ {0}, NEW w \in Nat \ {0}
    PROVE  Len(Split(f, n, c, w)) \in 1..n /\ InWholeChunks(Split(f, n, c, w))
<1> DEFINE blocks == Split(f, n, c, w)
           m == FittingCount(f, n, c)
           q == (f \div m) \div c
           whole == WholeBlockSize(f, m, c)
<1>1. m \in 1..n
    BY FittingCountExists
<1>2. /\ Len(blocks) = m
      /\ \A i \in 1..(m - 1) : blocks[i] = Block(i - 1, (i - 1) * (whole + 1), whole, c)
      /\ blocks[m] = Block(m - 1, (m - 1) * (whole + 1),
                           WrapSub(f, (m - 1) * (whole + 1), w), c)
    BY SplitElements
<1> HIDE DEF m
<1>3. m \in Nat \ {0} /\ f \div m \in Nat
    <2>1. m \in Nat \ {0}
        BY <1>1
    <2> QED
        BY <2>1, NatDivision
<1>4. q \in Nat /\ whole = (1 + q) * c
    <2>1. whole = (1 + q) * c
        BY DEF WholeBlockSize
    <2>2. q \in Nat
        BY <1>3, NatDivision
    <2> QED
        BY <2>1, <2>2
<1> HIDE DEF q, whole, blocks
<1>5. whole \div c = 1 + q /\ whole % c = 0
    <2>1. ASSUME NEW k \in Nat PROVE (k * c) \div c = k /\ (k * c) % c = 0
        OBVIOUS
    <2>2. 1 + q \in Nat
        BY <1>4
    <2> QED
        BY <1>4, <2>1, <2>2
<1>6. \A i, o, s : LET b == Block(i, o, s, c)
                   IN  b.block_id = i /\ b.size = s /\ b.chunk_size = c
    BY DEF Block
<1>7. \A i \in 1..m : blocks[i].block_id = i - 1
    <2>1. \A i \in 1..m : i \in 1..(m - 1) \/ i = m
        BY <1>3
    <2> QED
        BY <1>2, <1>6, <2>1
<1>8. \A i \in 1..(m - 1) : ChunksCount(blocks[i]) > 0 /\ TailSize(blocks[i]) = 0
    <2>1. \A i \in 1..(m - 1) : ChunksCount(blocks[i]) = 1 + q /\ TailSize(blocks[i]) = 0
        BY <1>2, <1>5, <1>6 DEF ChunksCount, TailSize
    <2> QED
        BY <1>4, <2>1
<1> QED
    BY <1>1, <1>2, <1>7, <1>8 DEF blocks, InWholeChunks

\* Cells of k + 1 positions: where a position is, and that cells do not overlap.
LEMMA CellOfPosition ==
    ASSUME NEW k \in Nat, NEW p \in Nat
    PROVE  LET i == p \div (k + 1)
           IN  i \in Nat /\ i * (k + 1) \in Nat /\ i * (k + 1) <= p /\ p <= i * (k + 1) + k
<1> DEFINE d == k + 1
           i == p \div d
<1>1. i \in Nat /\ p % d \in 0..(d - 1) /\ p = (d * i) + (p % d)
    <2>1. d \in Nat \ {0}
        OBVIOUS
    <2> HIDE DEF d
    <2> QED
        BY <2>1, NatDivision
<1>2. d * i = i * d /\ i * d \in Nat
    BY <1>1, NatTimes
<1> HIDE DEF i
<1> QED
    BY <1>1, <1>2 DEF i

LEMMA CellsInOrder ==
    ASSUME NEW k \in Nat, NEW i \in Nat, NEW j \in Nat, i < j
    PROVE  i * (k + 1) \in Nat /\ j * (k + 1) \in Nat /\ i * (k + 1) + (k + 1) <= j * (k + 1)
<1>1. i + 1 <= j
    OBVIOUS
<1>2. (i + 1) * (k + 1) <= j * (k + 1)
    BY <1>1
<1>3. (i + 1) * (k + 1) = i * (k + 1) + (k + 1)
    OBVIOUS
<1> QED
    BY <1>2, <1>3, NatTimes

\* Pieces in order and apart, the last reaching to f, that leave out the position
\* after each piece but the last: what cells of k positions and one more do.
Tiled(f, m, first, size) ==
    /\ \A i, j \in 1..m : i < j => first[i] + size[i] < first[j]
    /\ first[m] + size[m] = f
    /\ (0..(f - 1)) \ UNION {first[i] .. (first[i] + size[i] - 1) : i \in 1..m}
           = {first[i] + size[i] : i \in 1..(m - 1)}

LEMMA CellsLeaveGaps ==
    ASSUME NEW f \in Nat, NEW m \in Nat \ {0}, NEW k \in Nat,
           NEW first \in [1..m -> Nat], NEW size \in [1..m -> Nat],
           first[m] <= f, size[m] = f - first[m],
           \A i \in 1..(m - 1) : size[i] = k,
           \A i, j \in 1..m : i < j => first[i] + (k + 1) <= first[j],
           \A p \in Nat : p < first[m] => \E i \in 1..(m - 1) : first[i] <= p /\ p <= first[i] + k
    PROVE  Tiled(f, m, first, size)
<1> DEFINE Has(i) == first[i] .. (first[i] + size[i] - 1)
           Covered == UNION {Has(i) : i \in 1..m}
           Gaps == {first[i] + size[i] : i \in 1..(m - 1)}
<1>1. \A i \in 1..(m - 1) : i \in 1..m /\ i < m
    OBVIOUS
<1>2. m \in 1..m /\ first[m] \in Nat
    OBVIOUS
<1>3. ASSUME NEW i \in 1..m, NEW j \in 1..m, i < j
      PROVE  i \in 1..(m - 1) /\ first[i] \in Nat /\ first[j] \in Nat
             /\ size[i] = k /\ first[i] + (k + 1) <= first[j]
    <2>1. i \in 1..(m - 1)
        BY <1>3
    <2> QED
        BY <1>3, <2>1
<1>4. ASSUME NEW i \in 1..m, NEW j \in 1..m, i < j
      PROVE  first[i] + size[i] < first[j]
    BY <1>3, <1>4
<1>5. first[m] + size[m] = f
    BY <1>2
<1>6. ASSUME NEW p \in 0..(f - 1), p \notin Covered
      PROVE  p \in Gaps
    <2>1. \A i \in 1..m : p \notin Has(i)
        BY <1>6
    <2>2. p \in Nat
        OBVIOUS
    <2>3. p < first[m]
        <3>1. p \notin Has(m)
            BY <1>2, <2>1
        <3> QED
            BY <1>2, <1>5, <2>2, <3>1
    <2>4. PICK i \in 1..(m - 1) : first[i] <= p /\ p <= first[i] + k
        BY <2>2, <2>3
    <2>5. size[i] = k /\ first[i] \in Nat /\ p \notin first[i] .. (first[i] + k - 1)
        BY <1>1, <2>1
    <2> HIDE DEF Has
    <2>6. \A x \in Nat : x <= p /\ p <= x + k /\ p \notin x .. (x + k - 1) => p = x + k
        BY <2>2
    <2>7. p = first[i] + k
        BY <2>4, <2>5, <2>6
    <2>8. p = first[i] + size[i]
        BY <2>5, <2>7
    <2> QED
        BY <2>8
<1>7. ASSUME NEW p \in Gaps
      PROVE  p \in 0..(f - 1) /\ p \notin Covered
    <2>1. PICK i \in 1..(m - 1) : p = first[i] + size[i]
        OBVIOUS
    <2>2. i \in 1..m /\ first[i] \in Nat /\ size[i] = k
        BY <1>1
    <2>3. first[i] + (k + 1) <= first[m]
        BY <1>1, <1>2
    <2>4. p \in 0..(f - 1)
        <3>1. \A x, y \in Nat : x + (k + 1) <= y /\ y <= f => x + k \in 0..(f - 1)
            OBVIOUS
        <3>2. p = first[i] + k
            BY <2>1, <2>2
        <3> QED
            BY <1>2, <2>2, <2>3, <3>1, <3>2
    <2>5. ASSUME NEW j \in 1..m PROVE p \notin Has(j)
        <3>1. CASE j = i
            BY <2>1, <2>2, <3>1
        <3>2. CASE j < i
            <4>1. first[j] \in Nat /\ size[j] = k /\ first[j] + (k + 1) <= first[i]
                BY <1>3, <2>2, <3>2
            <4> QED
                BY <2>1, <2>2, <4>1
        <3>3. CASE i < j
            <4>1. first[j] \in Nat /\ first[i] + (k + 1) <= first[j]
                BY <1>3, <2>2, <3>3
            <4> QED
                BY <2>1, <2>2, <4>1
        <3>4. j \in Int /\ i \in Int
            OBVIOUS
        <3> QED
            BY <3>1, <3>2, <3>3, <3>4
    <2> QED
        BY <2>4, <2>5
<1> HIDE DEF Has
<1>8. (0..(f - 1)) \ Covered = Gaps
    BY <1>6, <1>7
<1> QED
    BY <1>4, <1>5, <1>8 DEF Tiled, Has

\* Blocks in order and apart, the last ending where the file does, that leave out
\* the byte after each block but the last.
TilesFile(f, blocks) ==
    /\ \A i, j \in 1..Len(blocks) : i < j =>
           blocks[i].offset + blocks[i].size < blocks[j].offset
    /\ blocks[Len(blocks)].offset + blocks[Len(blocks)].size = f
    /\ (0..(f - 1)) \ UNION {blocks[i].offset .. (blocks[i].offset + blocks[i].size - 1)
                               : i \in 1..Len(blocks)}
           = {blocks[i].offset + blocks[i].size : i \in 1..(Len(blocks) - 1)}

\* Unless the last size has wrapped, the blocks of a split lie in order and apart,
\* the last ends where the file does, and what no block has is the byte after each
\* block but the last.
THEOREM SplitTiles ==
    ASSUME NEW f \in Nat, NEW n \in Nat \ {0}, NEW c \in Nat \ {0}, NEW w \in Nat,
           f + n * (c + 1) < w,
           Split(f, n, c, w)[Len(Split(f, n, c, w))].size <= f
    PROVE  TilesFile(f, Split(f, n, c, w))
<1> DEFINE blocks == Split(f, n, c, w)
           m == FittingCount(f, n, c)
           k == WholeBlockSize(f, m, c)
           far == (m - 1) * (k + 1)
           first == [i \in 1..m |-> blocks[i].offset]
           size == [i \in 1..m |-> blocks[i].size]
<1>1. w \in Nat \ {0} /\ n * (c + 1) \in Nat
    BY NatTimes
<1>2. m \in 1..n
    BY FittingCountExists
<1>3. /\ Len(blocks) = m
      /\ \A i \in 1..(m - 1) : blocks[i] = Block(i - 1, (i - 1) * (k + 1), k, c)
      /\ blocks[m] = Block(m - 1, far, WrapSub(f, far, w), c)
    BY <1>1, SplitElements
<1> HIDE DEF m, blocks
<1>4. k \in Nat /\ far \in Nat /\ far <= f + n * (c + 1)
    <2>1. m \in Nat \ {0} /\ n \in Nat /\ m <= n
        BY <1>2
    <2> QED
        BY <2>1, LastStart
<1> HIDE DEF k, far
<1>5. \A i, o, s : LET b == Block(i, o, s, c) IN b.offset = o /\ b.size = s
    BY DEF Block
<1>6. blocks[m].offset = far /\ blocks[m].size = WrapSub(f, far, w)
    BY <1>3, <1>5
<1>7. far <= f
    <2>1. SUFFICES ASSUME far > f PROVE FALSE
        BY <1>4
    <2>2. f - far + w \in 0..(w - 1) /\ f - far < 0 /\ f - far \in Int
        BY <1>1, <1>4, <2>1
    <2>3. \A d \in Int : d < 0 /\ d + w \in 0..(w - 1) => d % w = d + w
        BY <1>1
    <2>4. blocks[m].size = f - far + w
        BY <1>6, <2>2, <2>3 DEF WrapSub
    <2>5. blocks[m].size <= f
        BY <1>3 DEF blocks
    <2> QED
        BY <1>1, <1>4, <2>4, <2>5
<1>8. blocks[m].size = f - far
    <2>1. f - far \in 0..(w - 1)
        BY <1>1, <1>4, <1>7
    <2>2. \A d \in 0..(w - 1) : d % w = d
        BY <1>1
    <2> QED
        BY <1>6, <2>1, <2>2 DEF WrapSub
<1>9. /\ m \in Nat \ {0} /\ k \in Nat
      /\ far \in Nat /\ far <= f
      /\ \A i \in 1..(m - 1) : blocks[i].offset = (i - 1) * (k + 1) /\ blocks[i].size = k
      /\ blocks[m].offset = far /\ blocks[m].size = f - far
    <2>1. \A i \in 1..(m - 1) : blocks[i].offset = (i - 1) * (k + 1) /\ blocks[i].size = k
        BY <1>3, <1>5
    <2>2. m \in Nat \ {0}
        BY <1>2
    <2> QED
        BY <1>4, <1>6, <1>7, <1>8, <2>1, <2>2
<1>10. ASSUME NEW i \in Nat, NEW j \in Nat, i < j
      PROVE  i * (k + 1) + (k + 1) <= j * (k + 1)
    BY <1>9, <1>10, CellsInOrder
<1>11. \A i \in 1..m : blocks[i].offset = (i - 1) * (k + 1) /\ (i - 1) * (k + 1) \in Nat
    <2>1. ASSUME NEW i \in 1..m
          PROVE  blocks[i].offset = (i - 1) * (k + 1) /\ (i - 1) * (k + 1) \in Nat
        <3>1. i - 1 \in Nat /\ k + 1 \in Nat
            BY <1>9
        <3>2. (i - 1) * (k + 1) \in Nat
            BY <3>1, NatTimes
        <3>3. CASE i = m
            BY <1>9, <3>2, <3>3 DEF far
        <3>4. CASE i \in 1..(m - 1)
            BY <1>9, <3>2, <3>4
        <3> QED
            BY <1>9, <3>3, <3>4
    <2> QED
        BY <2>1
<1>12. first \in [1..m -> Nat]
    BY <1>11
<1>13. size \in [1..m -> Nat]
    <2>1. f - far \in Nat
        BY <1>9
    <2>2. \A i \in 1..m : i = m \/ i \in 1..(m - 1)
        BY <1>9
    <2>3. \A i \in 1..m : blocks[i].size \in Nat
        BY <1>9, <2>1, <2>2
    <2> QED
        BY <2>3
<1>14. first[m] = far /\ size[m] = f - far /\ (\A i \in 1..(m - 1) : size[i] = k)
    BY <1>9
<1>15. \A i, j \in 1..m : i < j => first[i] + (k + 1) <= first[j]
    <2>1. ASSUME NEW i \in 1..m, NEW j \in 1..m, i < j
          PROVE  first[i] + (k + 1) <= first[j]
        <3>1. i - 1 \in Nat /\ j - 1 \in Nat /\ i - 1 < j - 1
            BY <1>9, <2>1
        <3>2. (i - 1) * (k + 1) + (k + 1) <= (j - 1) * (k + 1)
            BY <1>10, <3>1
        <3>3. first[i] = (i - 1) * (k + 1) /\ first[j] = (j - 1) * (k + 1)
            BY <1>11
        <3> QED
            BY <3>2, <3>3
    <2> QED
        BY <2>1
<1>16. ASSUME NEW p \in Nat, p < first[m]
      PROVE  \E i \in 1..(m - 1) : first[i] <= p /\ p <= first[i] + k
    <2> DEFINE i == p \div (k + 1)
    <2>1. i \in Nat /\ i * (k + 1) \in Nat /\ i * (k + 1) <= p /\ p <= i * (k + 1) + k
        BY <1>9, CellOfPosition, Zenon
    <2> HIDE DEF i
    <2>2. i < m - 1
        <3>1. SUFFICES ASSUME m - 1 <= i PROVE FALSE
            BY <1>9, <2>1
        <3>2. far <= i * (k + 1)
            <4>1. CASE m - 1 = i
                BY <1>9, <2>1, <4>1 DEF far
            <4>2. CASE m - 1 < i
                <5>1. m - 1 \in Nat /\ k + 1 \in Nat
                    BY <1>9
                <5>2. far + (k + 1) <= i * (k + 1)
                    BY <1>10, <2>1, <4>2, <5>1 DEF far
                <5> QED
                    BY <1>9, <2>1, <5>1, <5>2
            <4> QED
                BY <1>9, <2>1, <3>1, <4>1, <4>2
        <3> QED
            BY <1>9, <1>14, <1>16, <2>1, <3>2
    <2>3. i + 1 \in 1..(m - 1) /\ i + 1 \in 1..m /\ (i + 1) - 1 = i
        BY <1>9, <2>1, <2>2
    <2>4. first[i + 1] = i * (k + 1)
        BY <1>11, <2>3
    <2> QED
        BY <2>1, <2>3, <2>4
<1> HIDE DEF first, size
<1>17. /\ \A i, j \in 1..m : i < j => first[i] + size[i] < first[j]
      /\ first[m] + size[m] = f
      /\ (0..(f - 1)) \ UNION {first[i] .. (first[i] + size[i] - 1) : i \in 1..m}
             = {first[i] + size[i] : i \in 1..(m - 1)}
    <2>1. first[m] <= f /\ size[m] = f - first[m] /\ \A i \in 1..(m - 1) : size[i] = k
        BY <1>9, <1>14
    <2>2. \A p \in Nat : p < first[m]
              => \E i \in 1..(m - 1) : first[i] <= p /\ p <= first[i] + k
        BY <1>16
    <2>3. m \in Nat \ {0} /\ k \in Nat
        BY <1>9
    <2>4. Tiled(f, m, first, size)
        BY <1>12, <1>13, <1>15, <2>1, <2>2, <2>3, CellsLeaveGaps, Zenon
    <2> QED
        BY <2>4, Zenon DEF Tiled
<1>18. \A i \in 1..m : first[i] = blocks[i].offset /\ size[i] = blocks[i].size
    BY DEF first, size
<1>19. m \in 1..m /\ \A i \in 1..(m - 1) : i \in 1..m
    BY <1>9
<1>20. {first[i] + size[i] : i \in 1..(m - 1)}
           = {blocks[i].offset + blocks[i].size : i \in 1..(m - 1)}
    BY <1>18, <1>19
<1>21. {first[i] .. (first[i] + size[i] - 1) : i \in 1..m}
           = {blocks[i].offset .. (blocks[i].offset + blocks[i].size - 1) : i \in 1..m}
    BY <1>18
<1>22. /\ \A i, j \in 1..m : i < j => blocks[i].offset + blocks[i].size < blocks[j].offset
       /\ blocks[m].offset + blocks[m].size = f
    BY <1>17, <1>18, <1>19
<1>23. TilesFile(f, blocks)
    <2>1. (0..(f - 1)) \ UNION {blocks[i].offset .. (blocks[i].offset + blocks[i].size - 1)
                                  : i \in 1..m}
              = {blocks[i].offset + blocks[i].size : i \in 1..(m - 1)}
        BY <1>17, <1>20, <1>21, Zenon
    <2>2. Len(blocks) = m
        BY <1>3
    <2> QED
        BY <1>22, <2>1, <2>2, Zenon DEF TilesFile
<1> QED
    BY <1>23 DEF blocks

\* A split whose last size has not wrapped is what modules BlockReader and Pipeline
\* assume of the blocks they work on.
THEOREM SplitSuitsReaders ==
    ASSUME NEW f \in Nat, NEW n \in Nat \ {0}, NEW c \in Nat \ {0}, NEW w \in Nat,
           f + n * (c + 1) < w,
           Split(f, n, c, w)[Len(Split(f, n, c, w))].size <= f
    PROVE  /\ Split(f, n, c, w) \in
                  Seq([block_id : Nat, offset : Nat, size : 0..f, chunk_size : Nat \ {0}])
           /\ Split(f, n, c, w) # <<>>
           /\ InWholeChunks(Split(f, n, c, w))
<1> DEFINE blocks == Split(f, n, c, w)
           B == [block_id : Nat, offset : Nat, size : Nat, chunk_size : {c}]
           R == [block_id : Nat, offset : Nat, size : 0..f, chunk_size : Nat \ {0}]
<1>1. w \in Nat \ {0} /\ n * (c + 1) \in Nat
    BY NatTimes
<1>2. blocks \in Seq(B) /\ Len(blocks) \in 1..n /\ InWholeChunks(blocks)
    BY <1>1, SplitIsTyped, BlocksAreWhole
<1>3. TilesFile(f, blocks)
    BY SplitTiles
<1> HIDE DEF blocks
<1>4. \A i \in 1..Len(blocks) : blocks[i] \in B
    <2> HIDE DEF B
    <2> QED
        BY <1>2
<1>5. ASSUME NEW i \in 1..Len(blocks) PROVE blocks[i] \in R
    <2> DEFINE last == blocks[Len(blocks)]
    <2>1. blocks[i] \in B /\ last \in B
        <3>1. Len(blocks) \in 1..Len(blocks)
            BY <1>2
        <3> QED
            BY <1>4, <3>1
    <2>2. blocks[i].offset + blocks[i].size <= f
        <3>1. last.offset + last.size = f
            BY <1>3 DEF TilesFile
        <3>2. CASE i = Len(blocks)
            BY <2>1, <3>1, <3>2
        <3>3. CASE i # Len(blocks)
            <4>1. i < Len(blocks) /\ Len(blocks) \in 1..Len(blocks)
                BY <1>2, <3>3
            <4>2. blocks[i].offset + blocks[i].size < last.offset
                BY <1>3, <4>1 DEF TilesFile
            <4> QED
                BY <2>1, <3>1, <4>2
        <3> QED
            BY <3>2, <3>3
    <2>3. blocks[i].size \in 0..f
        BY <2>1, <2>2
    <2> QED
        BY <2>1, <2>3
<1> HIDE DEF R, B
<1>6. blocks \in Seq(R)
    <2>1. Len(blocks) \in Nat /\ blocks \in [1..Len(blocks) -> B]
        BY <1>2, LenProperties
    <2>2. \A i \in 1..Len(blocks) : blocks[i] \in R
        BY <1>5
    <2>3. blocks \in [1..Len(blocks) -> R]
        BY <2>1, <2>2
    <2> QED
        BY <2>1, <2>3, SeqDef, Zenon
<1>7. blocks # <<>>
    BY <1>2
<1> QED
    BY <1>2, <1>6, <1>7 DEF R, blocks

=============================================================================
