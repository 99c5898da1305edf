---------------------------- MODULE BlockFileProofs ----------------------------
(***************************************************************************)
(* Proofs about BlockFile for every file size, core count and chunk size.  *)
(***************************************************************************)
EXTENDS BlockFile, PartitionTheorems, SequenceTheorems

-----------------------------------------------------------------------------
(* Arithmetic *)

\* Integer division of a natural number by a positive one.
LEMMA Division ==
    ASSUME NEW a \in Nat, NEW b \in Nat \ {0}
    PROVE  /\ a \div b \in Nat
           /\ b * (a \div b) <= a
           /\ a % b \in 0..(b - 1)
  OBVIOUS

\* A product of naturals is one.
LEMMA NatProduct ==
    ASSUME NEW a \in Nat, NEW b \in Nat
    PROVE  a * b \in Nat
  OBVIOUS

\* Below the modulus a remainder is the number itself.
LEMMA SmallRemainder ==
    ASSUME NEW a \in Nat, NEW w \in Nat, a < w
    PROVE  a % w = a
  OBVIOUS

\* Cancelling a positive factor.
LEMMA Cancel ==
    ASSUME NEW m \in Nat \ {0}, NEW x \in Int, NEW y \in Int, m * x <= m * y
    PROVE  x <= y
  OBVIOUS

\* A file of at least m (m - 1) (c + 1) bytes has room for m - 1 blocks of the
\* share of a block, rounded up by a chunk, and a byte after each.
LEMMA RoomForBlocks ==
    ASSUME NEW f \in Nat, NEW m \in Nat \ {0}, NEW c \in Nat \ {0},
           NEW a \in Nat, m * a <= f,
           NEW q \in Nat, c * q <= a,
           f >= m * (m - 1) * (c + 1)
    PROVE  (m - 1) * ((1 + q) * c + 1) <= f
<1> DEFINE k == m - 1
<1>1. k \in Nat /\ m = k + 1
  OBVIOUS
<1>2. (1 + q) * c + 1 <= a + (c + 1)
  <2>1. (1 + q) * c = c + c * q
    OBVIOUS
  <2> QED
    BY <2>1
<1>3. k * ((1 + q) * c + 1) <= k * (a + (c + 1))
  <2>1. (1 + q) * c + 1 \in Nat /\ a + (c + 1) \in Nat
    BY NatProduct
  <2> QED
    BY <1>1, <1>2, <2>1
<1>4. m * (k * (a + (c + 1))) <= m * f
  <2>1. m * (k * (a + (c + 1))) = k * (m * a) + m * k * (c + 1)
    BY <1>1
  <2>2. k * (m * a) <= k * f
    BY <1>1, NatProduct
  <2>3. m * f = k * f + f
    BY <1>1
  <2> QED
    BY <1>1, <2>1, <2>2, <2>3, NatProduct
<1>5. k * (a + (c + 1)) <= f
  BY <1>1, <1>4, Cancel, NatProduct
<1> QED
  BY <1>1, <1>3, <1>5, NatProduct

-----------------------------------------------------------------------------
(* The inductive invariant *)

BlockSize == (1 + (approximate_block_size \div chunk_size)) * chunk_size

\* Where the layout loop stands after the blocks it has emplaced.
Laid == IF pc = "built" THEN Len(storage) - 1 ELSE Len(storage)

\* The estimate is the share of a block; nothing is laid out before it is final.
EstimateIsShare ==
    /\ pc \in {"shrink", "layout", "built"} =>
           block_count > 0 /\ approximate_block_size = file_size \div block_count
    /\ pc \in {"size", "shrink"} => storage = <<>> /\ current_block_start = 0

\* The next block starts behind the ones laid out, and a byte for each.
StartIsBehindBlocks ==
    /\ pc = "layout" => Len(storage) <= block_count - 1
    /\ pc = "built" => Len(storage) = block_count
    /\ pc \in {"layout", "built"} => current_block_start = Laid * (BlockSize + 1)

IInv == TypeOK /\ EstimateIsShare /\ StartIsBehindBlocks /\ LargeFilesFit

\* The inputs have the types their assumptions give them.
LEMMA InputTypes ==
    ASSUME TypeOK
    PROVE  /\ file_size \in Nat /\ cores \in Nat /\ chunk_size \in Nat \ {0}
           /\ file_size < Word /\ Word \in Nat
           /\ block_count \in Nat /\ approximate_block_size \in Nat
           /\ current_block_start \in Nat
           /\ storage \in Seq(BlockType) /\ Len(storage) \in Nat
<1>1. file_size \in Nat /\ cores \in Nat /\ chunk_size \in Nat \ {0}
  BY InputsAreNaturals DEF TypeOK
<1>2. file_size + cores * (chunk_size + 1) < Word /\ Word \in Nat
  BY WordIsLarge DEF TypeOK
<1>3. cores * (chunk_size + 1) \in Nat
  BY <1>1, NatProduct
<1>4. block_count \in Nat
  BY <1>1 DEF TypeOK
<1>5. Len(storage) \in Nat
  BY LenProperties DEF TypeOK
<1> QED
  BY <1>1, <1>2, <1>3, <1>4, <1>5 DEF TypeOK

\* A whole block's size is a natural number.
LEMMA BlockSizeType ==
    ASSUME TypeOK
    PROVE  BlockSize \in Nat
<1> DEFINE chunks == approximate_block_size \div chunk_size
<1>1. chunks \in Nat /\ chunk_size \in Nat
  BY InputTypes, Division
<1>2. 1 + chunks \in Nat
  BY <1>1
<1>3. (1 + chunks) * chunk_size \in Nat
  <2> HIDE DEF chunks
  <2> QED
    BY <1>1, <1>2, NatProduct
<1> QED
  BY <1>3 DEF BlockSize

\* The invariant holds at the start.
LEMMA InitIInv == Init => IInv
<1> SUFFICES ASSUME Init PROVE IInv
  OBVIOUS
<1> USE DEF Init
<1>1. <<>> \in Seq(BlockType) /\ Len(<<>>) = 0
  BY EmptySeq
<1>2. TypeOK
  BY <1>1, InputsAreNaturals DEF TypeOK, Ended
<1>3. EstimateIsShare /\ StartIsBehindBlocks /\ LargeFilesFit
  BY DEF EstimateIsShare, StartIsBehindBlocks, LargeFilesFit
<1> QED
  BY <1>2, <1>3 DEF IInv

\* The steps that lay no block out keep the invariant.
LEMMA ShrinkIInv ==
    ASSUME IInv, SizeFails \/ DivisionTraps \/ Estimate \/ Shrink \/ StartLayout
    PROVE  IInv'
<1> USE DEF IInv
<1>1. /\ file_size \in Nat /\ cores \in Nat /\ chunk_size \in Nat \ {0}
      /\ block_count \in Nat /\ approximate_block_size \in Nat
  BY InputTypes
<1>2. CASE SizeFails \/ DivisionTraps
  BY <1>2 DEF SizeFails, DivisionTraps, TypeOK, Ended, EstimateIsShare,
              StartIsBehindBlocks, LargeFilesFit
<1>3. CASE Estimate
  <2>1. approximate_block_size' \in Nat
    BY <1>1, <1>3, Division DEF Estimate
  <2>2. TypeOK'
    BY <1>3, <2>1 DEF Estimate, TypeOK
  <2>3. EstimateIsShare' /\ StartIsBehindBlocks' /\ LargeFilesFit'
    BY <1>3 DEF Estimate, EstimateIsShare, StartIsBehindBlocks, LargeFilesFit
  <2> QED
    BY <2>2, <2>3
<1>4. CASE Shrink
  <2>1. block_count' = block_count - 1 /\ block_count' \in Nat \ {0} /\ block_count' \in 0..cores
    BY <1>1, <1>4 DEF Shrink, TooManyBlocks, TypeOK
  <2>2. approximate_block_size' = file_size \div block_count' /\ approximate_block_size' \in Nat
    BY <1>1, <1>4, <2>1, Division DEF Shrink
  <2>3. TypeOK'
    BY <1>4, <2>1, <2>2 DEF Shrink, TypeOK
  <2>4. pc = "shrink" /\ pc' = "shrink" /\ UNCHANGED <<file_size, storage, current_block_start>>
    BY <1>4 DEF Shrink
  <2>5. EstimateIsShare'
    <3>1. block_count' > 0
      BY <1>1, <2>1
    <3>2. approximate_block_size' = file_size' \div block_count'
      BY <2>2, <2>4
    <3>3. storage' = <<>> /\ current_block_start' = 0
      BY <2>4 DEF EstimateIsShare
    <3> QED
      BY <3>1, <3>2, <3>3 DEF EstimateIsShare
  <2>6. StartIsBehindBlocks' /\ LargeFilesFit'
    BY <2>4 DEF StartIsBehindBlocks, LargeFilesFit
  <2> QED
    BY <2>3, <2>5, <2>6
<1>5. CASE StartLayout
  <2>1. TypeOK'
    BY <1>5 DEF StartLayout, TypeOK
  <2>2. EstimateIsShare' /\ LargeFilesFit'
    BY <1>5 DEF StartLayout, EstimateIsShare, LargeFilesFit
  <2>3. Len(storage) = 0 /\ current_block_start = 0 /\ block_count > 0
    BY <1>5, EmptySeq DEF StartLayout, EstimateIsShare
  <2>4. BlockSize \in Nat
    BY BlockSizeType
  <2>5. 0 = 0 * (BlockSize + 1)
    BY <2>4
  <2>6. StartIsBehindBlocks'
    BY <1>1, <1>5, <2>3, <2>5 DEF StartLayout, StartIsBehindBlocks, Laid, BlockSize
  <2> QED
    BY <2>1, <2>2, <2>6
<1> QED
  BY <1>2, <1>3, <1>4, <1>5

\* A block of whole chunks is appended.
LEMMA EmplaceBlockIInv ==
    ASSUME IInv, EmplaceBlock
    PROVE  IInv'
<1> USE DEF IInv
<1>1. /\ file_size \in Nat /\ cores \in Nat /\ chunk_size \in Nat \ {0}
      /\ block_count \in Nat /\ approximate_block_size \in Nat
      /\ current_block_start \in Nat
      /\ storage \in Seq(BlockType) /\ Len(storage) \in Nat
  BY InputTypes
<1> DEFINE block == Block(Len(storage), current_block_start, BlockSize, chunk_size)
<1>2. BlockSize \in Nat
  BY BlockSizeType
<1>3. /\ pc = "layout" /\ pc' = pc
      /\ Len(storage) < block_count - 1
      /\ storage' = Append(storage, block)
      /\ current_block_start' = current_block_start + (BlockSize + 1)
      /\ UNCHANGED <<pc, file_size, cores, chunk_size, block_count, approximate_block_size>>
  BY DEF EmplaceBlock, BlockSize
<1>4. block \in BlockType
  BY <1>1, <1>2 DEF Block, BlockType
<1> HIDE DEF block
<1>5. storage' \in Seq(BlockType) /\ Len(storage') = Len(storage) + 1
  BY <1>1, <1>3, <1>4, AppendProperties
<1>6. TypeOK'
  BY <1>1, <1>2, <1>3, <1>5 DEF TypeOK
<1>7. StartIsBehindBlocks'
  <2>1. BlockSize' = BlockSize
    BY <1>3 DEF BlockSize
  <2>2. current_block_start = Len(storage) * (BlockSize + 1)
    BY <1>3 DEF StartIsBehindBlocks, Laid
  <2>3. current_block_start' = (Len(storage) + 1) * (BlockSize + 1)
    BY <1>1, <1>2, <1>3, <2>2
  <2>4. Len(storage') <= block_count' - 1
    BY <1>1, <1>3, <1>5
  <2> QED
    BY <1>3, <1>5, <2>1, <2>3, <2>4 DEF StartIsBehindBlocks, Laid
<1>8. EstimateIsShare' /\ LargeFilesFit'
  BY <1>3 DEF EstimateIsShare, LargeFilesFit
<1> QED
  BY <1>6, <1>7, <1>8

\* The rest of the file is appended.
LEMMA EmplaceTailIInv ==
    ASSUME IInv, EmplaceTail
    PROVE  IInv'
<1> USE DEF IInv
<1>1. /\ file_size \in Nat /\ cores \in Nat /\ chunk_size \in Nat \ {0}
      /\ file_size < Word /\ Word \in Nat
      /\ block_count \in Nat /\ approximate_block_size \in Nat
      /\ current_block_start \in Nat
      /\ storage \in Seq(BlockType) /\ Len(storage) \in Nat
  BY InputTypes
<1> DEFINE rest == WrapSub(file_size, current_block_start, Word)
           block == Block(block_count - 1, current_block_start, rest, chunk_size)
<1>2. /\ pc = "layout" /\ pc' = "built"
      /\ Len(storage) = block_count - 1
      /\ storage' = Append(storage, block)
      /\ UNCHANGED <<file_size, cores, chunk_size, block_count, approximate_block_size,
                     current_block_start>>
  BY DEF EmplaceTail
<1>3. rest \in Nat
  <2>1. \A i \in Int, w \in Nat \ {0} : i % w \in Nat
    OBVIOUS
  <2>2. file_size - current_block_start \in Int /\ Word \in Nat \ {0}
    BY <1>1
  <2> QED
    BY <2>1, <2>2 DEF WrapSub
<1>4. block \in BlockType
  BY <1>1, <1>2, <1>3 DEF Block, BlockType
<1>5. /\ storage' \in Seq(BlockType) /\ Len(storage') = Len(storage) + 1
      /\ storage'[Len(storage) + 1] = block
  <2> HIDE DEF block
  <2> QED
    BY <1>1, <1>2, <1>4, AppendProperties
<1>6. TypeOK'
  BY <1>1, <1>2, <1>5 DEF TypeOK, Ended
<1>7. StartIsBehindBlocks'
  <2>1. BlockSize' = BlockSize
    BY <1>2 DEF BlockSize
  <2>2. current_block_start = Len(storage) * (BlockSize + 1)
    BY <1>2 DEF StartIsBehindBlocks, Laid
  <2>3. Len(storage') = block_count' /\ Len(storage') - 1 = Len(storage)
    BY <1>1, <1>2, <1>5
  <2> QED
    BY <1>2, <2>1, <2>2, <2>3 DEF StartIsBehindBlocks, Laid
<1>8. EstimateIsShare'
  BY <1>2 DEF EstimateIsShare
<1>9. LargeFilesFit'
  <2>1. SUFFICES ASSUME file_size >= block_count * (block_count - 1) * (chunk_size + 1)
                 PROVE  rest <= file_size
    BY <1>1, <1>2, <1>5 DEF LargeFilesFit, TailFits, Last, Block
  <2> DEFINE share == approximate_block_size
             chunks == approximate_block_size \div chunk_size
  <2>2. block_count \in Nat \ {0} /\ share = file_size \div block_count
    BY <1>1, <1>2 DEF EstimateIsShare
  <2>3. share \in Nat /\ block_count * share <= file_size
    BY <1>1, <2>2, Division
  <2>4. chunks \in Nat /\ chunk_size * chunks <= share
    BY <1>1, Division
  <2>5. current_block_start = (block_count - 1) * (BlockSize + 1)
    BY <1>2 DEF StartIsBehindBlocks, Laid
  <2>6. (block_count - 1) * ((1 + chunks) * chunk_size + 1) <= file_size
    <3> HIDE DEF share, chunks
    <3> QED
      BY <1>1, <2>1, <2>2, <2>3, <2>4, RoomForBlocks
  <2>7. current_block_start <= file_size
    BY <2>5, <2>6 DEF BlockSize
  <2>8. file_size - current_block_start \in Nat /\ file_size - current_block_start < Word
    BY <1>1, <2>7
  <2>9. rest = file_size - current_block_start
    BY <1>1, <2>8, SmallRemainder DEF WrapSub
  <2> QED
    BY <1>1, <2>9
<1> QED
  BY <1>6, <1>7, <1>8, <1>9

\* The invariant is inductive.
LEMMA NextIInv == IInv /\ [Next]_vars => IInv'
<1> SUFFICES ASSUME IInv, [Next]_vars PROVE IInv'
  OBVIOUS
<1>1. CASE SizeFails \/ DivisionTraps \/ Estimate \/ Shrink \/ StartLayout
  BY <1>1, ShrinkIInv
<1>2. CASE EmplaceBlock
  BY <1>2, EmplaceBlockIInv
<1>3. CASE EmplaceTail
  BY <1>3, EmplaceTailIInv
<1>4. CASE UNCHANGED vars
  BY <1>4 DEF vars, IInv, TypeOK, EstimateIsShare, StartIsBehindBlocks, Laid, BlockSize,
              LargeFilesFit, TailFits, Last
<1> QED
  BY <1>1, <1>2, <1>3, <1>4 DEF Next, Return

-----------------------------------------------------------------------------
(* Theorems *)

\* The strengthened invariant always holds.
LEMMA SpecIInv == Spec => []IInv
  BY InitIInv, NextIInv, PTL DEF Spec

\* Type correctness of the constructor.
THEOREM TypeCorrect == Spec => []TypeOK
<1>1. IInv => TypeOK
  BY DEF IInv
<1> QED
  BY <1>1, SpecIInv, PTL

\* Large files are split without wrapping: the last block's size does not exceed
\* the file's when the file has block_count (block_count - 1) (chunk_size + 1)
\* bytes.
THEOREM LargeFilesAreSafe == Spec => []LargeFilesFit
<1>1. IInv => LargeFilesFit
  BY DEF IInv
<1> QED
  BY <1>1, SpecIInv, PTL

-----------------------------------------------------------------------------
(* The loops and the closed form *)

TheSplit == Split(file_size, cores, chunk_size, Word)

\* Counts the shrinking loop has passed over leave a block too small.
PassedOver ==
    /\ pc \in {"shrink", "layout", "built"} => cores > 0
    /\ pc = "size" => block_count = cores
    /\ pc = "shrink" => \A k \in (block_count + 1)..cores : file_size \div k < chunk_size
    /\ pc \in {"layout", "built"} => block_count = FittingCount(file_size, cores, chunk_size)

\* What is laid out is what the closed form begins with.
LaidAsSplit ==
    pc \in {"layout", "built"} => \A i \in 1..Len(storage) : storage[i] = TheSplit[i]

Follows == PassedOver /\ LaidAsSplit

\* What the closed form says at any position, in terms of the loop's variables.
LEMMA SplitHere ==
    ASSUME IInv, Follows, pc = "layout"
    PROVE  LET far == (block_count - 1) * (BlockSize + 1)
           IN  /\ \A i \in 1..(block_count - 1) :
                      TheSplit[i] = Block(i - 1, (i - 1) * (BlockSize + 1), BlockSize, chunk_size)
               /\ TheSplit[block_count] =
                      Block(block_count - 1, far, WrapSub(file_size, far, Word), chunk_size)
<1> DEFINE m == FittingCount(file_size, cores, chunk_size)
           whole == WholeBlockSize(file_size, m, chunk_size)
           far == (m - 1) * (whole + 1)
<1>1. /\ file_size \in Nat /\ cores \in Nat \ {0} /\ chunk_size \in Nat \ {0}
      /\ Word \in Nat \ {0}
  BY InputTypes DEF IInv, Follows, PassedOver
<1>2. /\ \A i \in 1..(m - 1) :
             TheSplit[i] = Block(i - 1, (i - 1) * (whole + 1), whole, chunk_size)
      /\ TheSplit[m] = Block(m - 1, far, WrapSub(file_size, far, Word), chunk_size)
  BY <1>1, SplitElements, ZenonT(30) DEF TheSplit
<1>3. m = block_count
  BY DEF Follows, PassedOver
<1>4. whole = BlockSize
  BY <1>3 DEF IInv, EstimateIsShare, BlockSize, WholeBlockSize
<1> HIDE DEF m, whole
<1> QED
  BY <1>2, <1>3, <1>4

LEMMA InitFollows == Init => Follows
  BY DEF Init, Follows, PassedOver, LaidAsSplit

LEMMA ShrinkFollows ==
    ASSUME IInv, Follows, SizeFails \/ DivisionTraps \/ Estimate \/ Shrink \/ StartLayout
    PROVE  Follows'
<1>1. /\ file_size \in Nat /\ cores \in Nat /\ chunk_size \in Nat \ {0}
      /\ block_count \in 0..cores /\ approximate_block_size \in Nat
  BY InputTypes DEF IInv, TypeOK
<1>2. CASE SizeFails \/ DivisionTraps
  BY <1>2 DEF SizeFails, DivisionTraps, Follows, PassedOver, LaidAsSplit
<1>3. CASE Estimate
  <2>1. block_count = cores
    BY <1>3 DEF Estimate, Follows, PassedOver
  <2> QED
    BY <1>1, <1>3, <2>1 DEF Estimate, Follows, PassedOver, LaidAsSplit
<1>4. CASE Shrink
  <2>1. /\ pc = "shrink" /\ pc' = "shrink" /\ block_count' = block_count - 1
        /\ UNCHANGED <<file_size, cores, chunk_size>>
        /\ file_size \div block_count < chunk_size
    BY <1>4 DEF Shrink, TooManyBlocks, IInv, EstimateIsShare
  <2>2. \A k \in block_count..cores : file_size \div k < chunk_size
    <3>1. TAKE k \in block_count..cores
    <3>2. k = block_count \/ k \in (block_count + 1)..cores
      BY <1>1
    <3> QED
      BY <2>1, <3>2 DEF Follows, PassedOver
  <2>3. (block_count - 1) + 1 = block_count
    BY <1>1
  <2> QED
    BY <2>1, <2>2, <2>3 DEF Follows, PassedOver, LaidAsSplit
<1>5. CASE StartLayout
  <2>1. /\ pc = "shrink" /\ pc' = "layout" /\ storage' = <<>>
        /\ UNCHANGED <<file_size, cores, chunk_size, block_count>>
    BY <1>5 DEF StartLayout, IInv, EstimateIsShare
  <2>2. block_count \in 1..cores /\ cores \in Nat \ {0}
    BY <1>1, <2>1 DEF IInv, EstimateIsShare
  <2>3. block_count = 1 \/ file_size \div block_count >= chunk_size
    BY <1>1, <1>5, <2>1, <2>2 DEF StartLayout, TooManyBlocks, IInv, EstimateIsShare
  <2>4. block_count = FittingCount(file_size, cores, chunk_size)
    BY <1>1, <2>1, <2>2, <2>3, FittingCountUnique DEF Follows, PassedOver
  <2>5. Len(storage') = 0
    BY <2>1
  <2> QED
    BY <2>1, <2>2, <2>4, <2>5 DEF Follows, PassedOver, LaidAsSplit
<1> QED
  BY <1>2, <1>3, <1>4, <1>5

LEMMA LayoutFollows ==
    ASSUME IInv, Follows, EmplaceBlock \/ EmplaceTail
    PROVE  Follows'
<1> DEFINE n == Len(storage)
           new == IF EmplaceBlock
                  THEN Block(n, current_block_start, BlockSize, chunk_size)
                  ELSE Block(block_count - 1, current_block_start,
                             WrapSub(file_size, current_block_start, Word), chunk_size)
<1>1. /\ storage \in Seq(BlockType) /\ n \in Nat /\ block_count \in Nat
  BY InputTypes DEF IInv
<1>2. /\ pc = "layout" /\ pc' \in {"layout", "built"} /\ n < block_count
      /\ storage' = Append(storage, new)
      /\ UNCHANGED <<file_size, cores, chunk_size, block_count>>
  BY <1>1 DEF EmplaceBlock, EmplaceTail, BlockSize
<1>3. new = TheSplit[n + 1]
  <2>1. current_block_start = n * (BlockSize + 1)
    BY <1>2 DEF IInv, StartIsBehindBlocks, Laid
  <2>2. n + 1 \in 1..block_count /\ (n + 1) - 1 = n
    BY <1>1, <1>2
  <2>3. CASE EmplaceBlock
    <3>1. n + 1 \in 1..(block_count - 1)
      BY <1>1, <2>3 DEF EmplaceBlock
    <3>2. new = Block(n, n * (BlockSize + 1), BlockSize, chunk_size)
      BY <2>1, <2>3
    <3> HIDE DEF new, n
    <3> QED
      BY <1>2, <2>2, <3>1, <3>2, SplitHere
  <2>4. CASE ~EmplaceBlock
    <3>1. n = block_count - 1 /\ n + 1 = block_count
      BY <1>1, <2>4 DEF EmplaceTail
    <3>2. new = Block(n, n * (BlockSize + 1),
                      WrapSub(file_size, n * (BlockSize + 1), Word), chunk_size)
      BY <2>1, <2>4, <3>1
    <3> HIDE DEF new, n
    <3> QED
      BY <1>2, <2>2, <3>1, <3>2, SplitHere
  <2> QED
    BY <2>3, <2>4
<1> HIDE DEF new
<1>4. TheSplit' = TheSplit
  BY <1>2 DEF TheSplit
<1>5. /\ Len(storage') = n + 1 /\ storage'[n + 1] = new
      /\ \A i \in 1..n : storage'[i] = storage[i]
  <2>1. Len(Append(storage, new)) = n + 1
    BY <1>1
  <2>2. Append(storage, new)[n + 1] = new
    BY <1>1
  <2>3. \A i \in 1..n : Append(storage, new)[i] = storage[i]
    BY <1>1
  <2> QED
    BY <1>2, <2>1, <2>2, <2>3
<1>6. \A i \in 1..Len(storage') : storage'[i] = TheSplit'[i]
  <2>1. TAKE i \in 1..Len(storage')
  <2>2. i \in 1..n \/ i = n + 1
    BY <1>1, <1>5
  <2> QED
    BY <1>2, <1>3, <1>4, <1>5, <2>2 DEF Follows, LaidAsSplit
<1> QED
  BY <1>2, <1>6 DEF Follows, PassedOver, LaidAsSplit

LEMMA NextFollows == IInv /\ Follows /\ [Next]_vars => Follows'
<1> SUFFICES ASSUME IInv, Follows, [Next]_vars PROVE Follows'
  OBVIOUS
<1>1. CASE SizeFails \/ DivisionTraps \/ Estimate \/ Shrink \/ StartLayout
  BY <1>1, ShrinkFollows
<1>2. CASE EmplaceBlock \/ EmplaceTail
  BY <1>2, LayoutFollows
<1>3. CASE UNCHANGED vars
  BY <1>3 DEF vars, Follows, PassedOver, LaidAsSplit, TheSplit
<1> QED
  BY <1>1, <1>2, <1>3 DEF Next, Return

\* The loops of the constructor compute the closed form: as many blocks as the
\* cores allow, each of the same whole chunks, and the rest.
THEOREM LoopsComputeSplit == Spec => []SplitsAsSpecified
<1>1. IInv /\ Follows => SplitsAsSpecified
  <2>1. SUFFICES ASSUME IInv, Follows, pc = "built" PROVE storage = TheSplit
    BY DEF SplitsAsSpecified, TheSplit
  <2>2. /\ storage \in Seq(BlockType) /\ Len(storage) = block_count
        /\ file_size \in Nat /\ cores \in Nat \ {0} /\ chunk_size \in Nat \ {0}
        /\ Word \in Nat \ {0}
    BY <2>1, InputTypes DEF IInv, StartIsBehindBlocks, Follows, PassedOver
  <2>3. TheSplit \in Seq(BlockType)
    <3> DEFINE B == [block_id : Nat, offset : Nat, size : Nat, chunk_size : {chunk_size}]
    <3>1. TheSplit \in Seq(B)
      BY <2>2, SplitIsTyped DEF TheSplit
    <3>2. B \subseteq BlockType
      BY <2>2 DEF BlockType
    <3> HIDE DEF B
    <3>3. Seq(B) \subseteq Seq(BlockType)
      BY <3>2
    <3> QED
      BY <3>1, <3>3
  <2>4. Len(TheSplit) = block_count
    BY <2>1, <2>2, SplitElements DEF TheSplit, Follows, PassedOver
  <2> QED
    BY <2>1, <2>2, <2>3, <2>4, SeqEqual DEF Follows, LaidAsSplit
<1>2. Spec => []Follows
  BY InitFollows, NextFollows, SpecIInv, PTL DEF Spec
<1> QED
  BY <1>1, <1>2, SpecIInv, PTL

\* Unless the last size wraps, the blocks the constructor has stored tile the file
\* but for one byte after each block but the last; for every file, core count and
\* chunk size.
THEOREM BlocksAreTiles == Spec => []BlocksTile
<1>1. ASSUME IInv, SplitsAsSpecified, Follows, pc = "built", TailFits
      PROVE  /\ \A i, j \in 1..Len(storage) : i < j =>
                    storage[i].offset + storage[i].size < storage[j].offset
             /\ Last.offset + Last.size = file_size
             /\ \A i \in 1..(Len(storage) - 1) :
                    ChunksCount(storage[i]) > 0 /\ TailSize(storage[i]) = 0
             /\ (0..(file_size - 1)) \ UNION {Bytes(storage[i]) : i \in 1..Len(storage)}
                  = {storage[i].offset + storage[i].size : i \in 1..(Len(storage) - 1)}
  <2>1. /\ file_size \in Nat /\ cores \in Nat \ {0} /\ chunk_size \in Nat \ {0}
        /\ Word \in Nat \ {0} /\ file_size + cores * (chunk_size + 1) < Word
    BY <1>1, InputTypes, WordIsLarge DEF IInv, TypeOK, Follows, PassedOver
  <2>2. storage = Split(file_size, cores, chunk_size, Word)
    BY <1>1 DEF SplitsAsSpecified
  <2>3. storage[Len(storage)].size <= file_size
    BY <1>1 DEF TailFits, Last
  <2>4. InWholeChunks(storage)
    BY <2>1, <2>2, BlocksAreWhole
  <2>5. TilesFile(file_size, storage)
    BY <2>1, <2>2, <2>3, SplitTiles
  <2> QED
    BY <2>4, <2>5, Zenon DEF InWholeChunks, TilesFile, Last, Bytes
<1>2. IInv /\ Follows /\ SplitsAsSpecified => BlocksTile
  BY <1>1 DEF BlocksTile
<1>3. Spec => []Follows
  BY InitFollows, NextFollows, SpecIInv, PTL DEF Spec
<1> QED
  BY <1>2, <1>3, SpecIInv, LoopsComputeSplit, PTL

-----------------------------------------------------------------------------
(* The safe half of Terminates: the constructor has only so many steps *)

\* How many steps are left at most.
StepsLeft ==
    CASE pc = "size" -> block_count + 2
      [] pc = "shrink" -> block_count + 1
      [] pc = "layout" -> block_count - Len(storage)
      [] OTHER -> 0

\* Each step, an iteration of either loop too, takes the constructor nearer to
\* its end, from at most cores + 2 steps away: it has no execution that goes on
\* for ever, whatever the size of the file.
THEOREM StepsAreFinite ==
    Spec => [][/\ StepsLeft \in 0..(cores + 2) /\ StepsLeft' \in 0..(StepsLeft - 1)]_vars
<1>1. IInv /\ [Next]_vars
        => [/\ StepsLeft \in 0..(cores + 2) /\ StepsLeft' \in 0..(StepsLeft - 1)]_vars
  <2>1. SUFFICES ASSUME IInv, Next, ~UNCHANGED vars
                 PROVE  StepsLeft \in 0..(cores + 2) /\ StepsLeft' \in 0..(StepsLeft - 1)
    OBVIOUS
  <2>2. /\ cores \in Nat /\ block_count \in 0..cores
        /\ Len(storage) \in Nat /\ storage \in Seq(BlockType)
    BY <2>1, InputTypes DEF IInv, TypeOK
  <2>3. CASE SizeFails \/ DivisionTraps
    BY <2>2, <2>3 DEF SizeFails, DivisionTraps, StepsLeft
  <2>4. CASE Estimate
    BY <2>2, <2>4 DEF Estimate, StepsLeft
  <2>5. CASE Shrink
    BY <2>2, <2>5 DEF Shrink, TooManyBlocks, StepsLeft
  <2>6. CASE StartLayout
    <3>1. storage = <<>> /\ block_count > 0
      BY <2>1, <2>6 DEF IInv, EstimateIsShare, StartLayout
    <3> QED
      BY <2>2, <2>6, <3>1 DEF StartLayout, StepsLeft
  <2>7. CASE EmplaceBlock
    <3>1. Len(storage') = Len(storage) + 1
      BY <2>2, <2>7 DEF EmplaceBlock
    <3>2. pc = "layout" /\ pc' = "layout" /\ block_count' = block_count
          /\ Len(storage) < block_count - 1
      BY <2>7 DEF EmplaceBlock
    <3> QED
      BY <2>2, <3>1, <3>2 DEF StepsLeft
  <2>8. CASE EmplaceTail
    BY <2>2, <2>8 DEF EmplaceTail, StepsLeft
  <2> QED
    BY <2>1, <2>3, <2>4, <2>5, <2>6, <2>7, <2>8 DEF Next, Return
<1> QED
  BY <1>1, SpecIInv, PTL DEF Spec

=============================================================================
