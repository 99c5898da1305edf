--------------------------- MODULE BlockReaderProofs ---------------------------
(***************************************************************************)
(* Proofs about BlockReader for any blocks, any segment hint and any file: *)
(* every reader is a chain of single handlers that reads the plan of its   *)
(* block, in step with its descriptor.                                     *)
(***************************************************************************)
EXTENDS BlockReader, FiniteSetTheorems, TLAPS

-----------------------------------------------------------------------------
(* A block and its plan *)

size(b) == GetBlock(b).size
chunk(b) == GetBlock(b).chunk_size

\* Full segment i, the first n of them, the last segment, and the block at once.
Part(b, i) == Segment(GetBlock(b), FullSize(b) \div chunk(b), FullSize(b) % chunk(b),
                      (i * FullSize(b)) \div chunk(b), i * FullSize(b))
PartsOf(b, n) == {Part(b, i) : i \in 0..(n - 1)}
Rest(b, n) ==
    Segment(GetBlock(b), (size(b) - n * FullSize(b)) \div chunk(b),
            (size(b) - n * FullSize(b)) % chunk(b),
            (n * FullSize(b)) \div chunk(b), n * FullSize(b))
Whole(b) == Segment(GetBlock(b), size(b) \div chunk(b), size(b) % chunk(b), 0, 0)
Plan(b) == PlanOf(GetBlock(b), SegmentHint)

\* Where a reader is after n full segments of a block that has more.
Amid(b, n) == size(b) > SegmentHint /\ n * FullSize(b) < size(b)
Final(b, n) == Amid(b, n) /\ size(b) <= n * FullSize(b) + FullSize(b)

LEMMA Division ==
    ASSUME NEW a \in Nat, NEW c \in Nat \ {0}
    PROVE  /\ a \div c \in Nat /\ a % c \in 0..(c - 1)
           /\ c * (a \div c) <= a /\ a < c * (a \div c) + c
OBVIOUS

LEMMA DividesNat ==
    ASSUME NEW a \in Nat, NEW c \in Nat \ {0}
    PROVE  a \div c \in Nat /\ a % c \in Nat
OBVIOUS

LEMMA Product == ASSUME NEW a \in Nat, NEW c \in Nat PROVE a * c \in Nat
OBVIOUS

LEMMA Monotone ==
    ASSUME NEW a \in Int, NEW c \in Int, NEW m \in Nat, a <= c
    PROVE  a * m <= c * m
OBVIOUS

LEMMA Quotient ==
    ASSUME NEW a \in Nat, NEW c \in Nat \ {0}, NEW q \in Nat, c * q <= a, a < c * q + c
    PROVE  a \div c = q
OBVIOUS

LEMMA Exact == ASSUME NEW q \in Nat, NEW c \in Nat \ {0} PROVE (q * c) \div c = q
<1>1. c * q \in Nat /\ q * c = c * q
    OBVIOUS
<1> QED
    BY <1>1, Quotient

LEMMA BlockTypes ==
    ASSUME NEW b \in BlockIds
    PROVE  /\ GetBlock(b).block_id = b
           /\ size(b) \in Nat /\ size(b) <= FileSize
           /\ chunk(b) \in Nat \ {0}
           /\ SegmentHint \in Nat /\ FileSize \in Nat
<1>1. b + 1 \in DOMAIN Storage /\ b \in Int
    BY ReaderInputs DEF BlockIds
<1> QED
    BY <1>1, ReaderInputs DEF GetBlock, size, chunk

\* A full segment is some whole number of chunks, and not none.
LEMMA FullSegment ==
    ASSUME NEW b \in BlockIds
    PROVE  /\ FullSize(b) \in Nat \ {0}
           /\ \E q \in Nat \ {0} : FullSize(b) = q * chunk(b)
<1> DEFINE c == chunk(b)
<1>0. c \in Nat \ {0} /\ SegmentHint \in Nat
    BY BlockTypes
<1>1. CASE c > SegmentHint
    <2>1. FullSize(b) = c
        BY <1>1 DEF FullSize, SegmentSize, chunk
    <2>2. c = 1 * c
        BY <1>0
    <2> QED
        BY <1>0, <2>1, <2>2
<1>2. CASE c <= SegmentHint
    <2> DEFINE q == SegmentHint \div c
    <2>1. q \in Nat /\ SegmentHint < c * q + c
        BY <1>0, Division
    <2>2. FullSize(b) = q * c
        BY <1>0, <1>2 DEF FullSize, SegmentSize, chunk
    <2>3. q # 0
        BY <1>0, <1>2, <2>1
    <2> HIDE DEF q, c
    <2>4. q * c \in Nat /\ q * c # 0
        BY <1>0, <2>1, <2>3
    <2> QED
        BY <2>1, <2>2, <2>3, <2>4 DEF c
<1> HIDE DEF c
<1> QED
    BY <1>0, <1>1, <1>2

\* The first chunk of a full segment is the whole number of chunks before it.
LEMMA InStep ==
    ASSUME NEW b \in BlockIds, NEW i \in Nat
    PROVE  i * FullSize(b) = ((i * FullSize(b)) \div chunk(b)) * chunk(b)
<1>1. PICK q \in Nat \ {0} : FullSize(b) = q * chunk(b)
    BY FullSegment
<1>2. chunk(b) \in Nat \ {0}
    BY BlockTypes
<1> DEFINE c == chunk(b)
<1>3. i * q \in Nat /\ i * (q * c) = (i * q) * c
    BY <1>2
<1>4. ((i * q) * c) \div c = i * q
    BY <1>2, <1>3, Exact
<1> QED
    BY <1>1, <1>3, <1>4

LEMMA PlanSmall ==
    ASSUME NEW b \in BlockIds, size(b) <= SegmentHint
    PROVE  Plan(b) = {Whole(b)}
<1>1. FullSize(b) \in Nat \ {0} /\ chunk(b) \in Nat \ {0} /\ size(b) \in Nat
    BY BlockTypes, FullSegment
<1>2. 0 * FullSize(b) = 0 /\ 0 \div chunk(b) = 0
    BY <1>1, Quotient
<1> QED
    BY <1>2 DEF Plan, PlanOf, Whole, FullSize, size, chunk

LEMMA PlanLarge ==
    ASSUME NEW b \in BlockIds, size(b) > SegmentHint
    PROVE  LET last == (size(b) - 1) \div FullSize(b)
           IN  Plan(b) = PartsOf(b, last) \cup {Rest(b, last)}
<1>1. size(b) \in Nat /\ SegmentHint \in Nat
    BY BlockTypes
<1> QED
    BY <1>1 DEF Plan, PlanOf, PartsOf, Part, Rest, FullSize, size, chunk

LEMMA PartsInPlan ==
    ASSUME NEW b \in BlockIds, NEW n \in Nat, Amid(b, n)
    PROVE  PartsOf(b, n) \subseteq Plan(b)
<1> DEFINE full == FullSize(b)
           last == (size(b) - 1) \div full
<1>1. full \in Nat \ {0} /\ size(b) \in Nat /\ SegmentHint \in Nat
    BY BlockTypes, FullSegment
<1>2. size(b) - 1 \in Nat
    BY <1>1 DEF Amid
<1>3. last \in Nat /\ size(b) - 1 < full * last + full
    BY <1>1, <1>2, Division
<1>4. n <= last
    <2> SUFFICES ASSUME last + 1 <= n PROVE FALSE
        BY <1>3
    <2> HIDE DEF last, full
    <2>1. (last + 1) * full <= n * full
        BY <1>1, <1>3, Monotone
    <2>2. (last + 1) * full = full * last + full /\ n * full \in Nat /\ full * last \in Nat
        BY <1>1, <1>3
    <2>3. n * full < size(b)
        BY DEF Amid, full
    <2> QED
        BY <1>1, <1>3, <2>1, <2>2, <2>3
<1>5. PartsOf(b, n) \subseteq PartsOf(b, last)
    BY <1>3, <1>4 DEF PartsOf
<1> QED
    BY <1>5, PlanLarge DEF Amid

LEMMA PlanFinal ==
    ASSUME NEW b \in BlockIds, NEW n \in Nat, Final(b, n)
    PROVE  Plan(b) = PartsOf(b, n) \cup {Rest(b, n)}
<1> DEFINE full == FullSize(b)
<1>1. full \in Nat \ {0} /\ size(b) \in Nat /\ SegmentHint \in Nat
    BY BlockTypes, FullSegment
<1>2. n * full \in Nat /\ full * n = n * full
    BY <1>1
<1>3. size(b) - 1 \in Nat /\ full * n <= size(b) - 1 /\ size(b) - 1 < full * n + full
    BY <1>1, <1>2 DEF Amid, Final
<1>4. (size(b) - 1) \div full = n
    BY <1>1, <1>3, Quotient
<1> QED
    BY <1>4, PlanLarge DEF Amid, Final

\* Full segment i holds chunks i * q .. i * q + q - 1 for some q; the last segment
\* begins where the full ones end, and has what the block has beyond them.
LEMMA PlanInChunks ==
    ASSUME NEW b \in BlockIds, size(b) > SegmentHint
    PROVE  \E q \in Nat \ {0}, last \in Nat :
              /\ Amid(b, last)
              /\ Plan(b) = PartsOf(b, last) \cup {Rest(b, last)}
              /\ \A i \in 0..last : Part(b, i).first_chunk_id = i * q
              /\ \A i \in 0..last : Part(b, i).chunk_count = q /\ Part(b, i).tail_size = 0
              /\ Rest(b, last).first_chunk_id = last * q
              /\ Rest(b, last).chunk_count \in Nat
              /\ ChunksCount(GetBlock(b)) = last * q + Rest(b, last).chunk_count
              /\ Rest(b, last).tail_size = TailSize(GetBlock(b))
<1> DEFINE c == chunk(b)
           full == FullSize(b)
           last == (size(b) - 1) \div full
<1>1. c \in Nat \ {0} /\ size(b) \in Nat /\ full \in Nat \ {0} /\ SegmentHint \in Nat
    BY BlockTypes, FullSegment
<1>2. PICK q \in Nat \ {0} : full = q * c
    BY FullSegment
<1>3. size(b) - 1 \in Nat
    BY <1>1
<1>4. last \in Nat /\ full * last <= size(b) - 1
    BY <1>1, <1>3, Division
<1>5. Plan(b) = PartsOf(b, last) \cup {Rest(b, last)}
    BY PlanLarge
<1> HIDE DEF last, full, c
<1>12. Amid(b, last)
    <2>1. full * last \in Nat /\ last * full = full * last
        BY <1>1, <1>4
    <2> QED
        BY <1>1, <1>4, <2>1 DEF Amid, full
<1>6. full \div c = q /\ full % c = 0
    <2>1. q \in Nat
        BY <1>2
    <2>2. (q * c) % c = 0
        BY <1>1, <2>1
    <2> QED
        BY <1>1, <1>2, <2>1, <2>2, Exact
<1>7. ASSUME NEW i \in Nat PROVE (i * full) \div c = i * q
    <2>1. i * q \in Nat /\ i * (q * c) = (i * q) * c
        BY <1>1
    <2> QED
        BY <1>1, <1>2, <2>1, Exact
<1>8. \A i \in 0..last : /\ Part(b, i).first_chunk_id = i * q
                         /\ Part(b, i).chunk_count = q /\ Part(b, i).tail_size = 0
    BY <1>4, <1>6, <1>7 DEF Part, Segment, full, c
<1> DEFINE rest == size(b) - last * full
           whole == last * q
<1>9. rest \in Nat /\ size(b) = rest + whole * c /\ whole \in Nat
    <2>1. last * full \in Nat /\ last * full = full * last
        BY <1>1, <1>4
    <2>2. last * (q * c) = (last * q) * c /\ last * q \in Nat
        BY <1>1, <1>4
    <2> QED
        BY <1>1, <1>2, <1>4, <2>1, <2>2
<1>10. /\ Rest(b, last).chunk_count = rest \div c /\ Rest(b, last).tail_size = rest % c
       /\ Rest(b, last).first_chunk_id = whole
    BY <1>4, <1>7 DEF Rest, Segment, full, c
<1> HIDE DEF rest, whole
<1>11. /\ rest \div c \in Nat
       /\ size(b) \div c = whole + rest \div c
       /\ size(b) % c = rest % c
    <2>1. rest \div c \in Nat /\ c * (rest \div c) <= rest /\ rest < c * (rest \div c) + c
        BY <1>1, <1>9, Division
    <2> DEFINE r == rest \div c
    <2> HIDE DEF r
    <2>2. c * (whole + r) = whole * c + c * r /\ whole + r \in Nat /\ r \in Nat
        BY <1>1, <1>9, <2>1 DEF r
    <2>3. size(b) \div c = whole + r
        <3>1. c * r <= rest /\ rest < c * r + c /\ c * r \in Nat /\ whole * c \in Nat
            BY <1>1, <1>9, <2>1, <2>2 DEF r
        <3>2. c * (whole + r) <= size(b) /\ size(b) < c * (whole + r) + c
            BY <1>1, <1>9, <2>2, <3>1
        <3> QED
            BY <1>1, <2>2, <3>2, Quotient
    <2>4. \A a \in Nat : a % c = a - c * (a \div c)
        BY <1>1
    <2>5. size(b) % c = size(b) - c * (whole + r) /\ rest % c = rest - c * r
        BY <1>1, <1>9, <2>3, <2>4 DEF r
    <2>6. size(b) - c * (whole + r) = rest - c * r
        BY <1>1, <1>9, <2>2
    <2> QED
        BY <2>1, <2>3, <2>5, <2>6 DEF r
<1> QED
    BY <1>1, <1>4, <1>5, <1>8, <1>10, <1>11, <1>12 DEF ChunksCount, TailSize, size, c, chunk, whole

LEMMA Apart ==
    ASSUME NEW q \in Nat, NEW i \in Nat, NEW j \in Nat, i < j
    PROVE  i * q + q <= j * q
<1>1. (i + 1) * q <= j * q
    BY Monotone
<1> QED
    BY <1>1

LEMMA RangesApart ==
    ASSUME NEW a \in Int, NEW k \in Int, NEW z \in Int, NEW m \in Int, a + k <= z
    PROVE  (a..(a + k - 1)) \cap (z..(z + m - 1)) = {}
OBVIOUS

LEMMA RangeEnd ==
    ASSUME NEW a \in Nat, NEW k \in Nat, NEW x \in a..(a + k - 1)
    PROVE  x \in 0..((a + k) - 1)
OBVIOUS

LEMMA LaterStart ==
    ASSUME NEW a \in Nat, NEW q \in Nat, NEW z \in Nat, NEW m \in Nat, a + q <= z,
           NEW x \in a..(a + q - 1)
    PROVE  x \in 0..((z + m) - 1)
OBVIOUS

\* The plan of a block has each of its chunks once, and its tail once.
LEMMA PlanAddsUp ==
    ASSUME NEW b \in BlockIds
    PROVE  /\ \A s, u \in Plan(b) : s # u => ChunkIds(s) \cap ChunkIds(u) = {}
           /\ UNION {ChunkIds(s) : s \in Plan(b)} = 0..(ChunksCount(GetBlock(b)) - 1)
           /\ \E l \in Plan(b) : /\ l.tail_size = TailSize(GetBlock(b))
                                 /\ \A s \in Plan(b) : s = l \/ s.tail_size = 0
<1>1. CASE size(b) <= SegmentHint
    <2>1. Plan(b) = {Whole(b)}
        BY <1>1, PlanSmall
    <2>2. /\ ChunkIds(Whole(b)) = 0..(ChunksCount(GetBlock(b)) - 1)
          /\ Whole(b).tail_size = TailSize(GetBlock(b))
        <3>1. size(b) \div chunk(b) \in Nat
            BY BlockTypes, DividesNat
        <3> QED
            BY <3>1 DEF ChunkIds, Whole, Segment, ChunksCount, TailSize, size, chunk
    <2> QED
        BY <2>1, <2>2
<1>2. CASE size(b) > SegmentHint
    <2>1. PICK q \in Nat \ {0}, last \in Nat :
              /\ Plan(b) = PartsOf(b, last) \cup {Rest(b, last)}
              /\ \A i \in 0..last : Part(b, i).first_chunk_id = i * q
              /\ \A i \in 0..last : Part(b, i).chunk_count = q /\ Part(b, i).tail_size = 0
              /\ Rest(b, last).first_chunk_id = last * q
              /\ Rest(b, last).chunk_count \in Nat
              /\ ChunksCount(GetBlock(b)) = last * q + Rest(b, last).chunk_count
              /\ Rest(b, last).tail_size = TailSize(GetBlock(b))
        BY <1>2, PlanInChunks
    <2> DEFINE rest == Rest(b, last)
               count == rest.chunk_count
               wholeChunks == last * q
    <2>2. \A i \in 0..(last - 1) : ChunkIds(Part(b, i)) = (i * q)..(i * q + q - 1)
        BY <2>1 DEF ChunkIds
    <2>3. ChunkIds(rest) = wholeChunks..(wholeChunks + count - 1)
        BY <2>1 DEF ChunkIds
    <2>4. \A i \in Nat : i * q \in Nat
        BY <2>1
    <2>5. \A i \in 0..(last - 1) : i * q + q <= wholeChunks
        BY <2>1, Apart
    <2>6. \A s \in Plan(b) : s = rest \/ \E i \in 0..(last - 1) : s = Part(b, i)
        BY <2>1 DEF PartsOf
    <2>7. ASSUME NEW s \in Plan(b), NEW u \in Plan(b), s # u
          PROVE  ChunkIds(s) \cap ChunkIds(u) = {}
        <3>1. ASSUME NEW i \in 0..(last - 1)
              PROVE  ChunkIds(Part(b, i)) \cap ChunkIds(rest) = {}
            <4>1. i * q \in Int /\ q \in Int /\ wholeChunks \in Int /\ count \in Int
                BY <2>1, <2>4
            <4>2. i * q + q <= wholeChunks
                BY <2>5
            <4> HIDE DEF wholeChunks, count
            <4>3. ((i * q)..(i * q + q - 1)) \cap (wholeChunks..(wholeChunks + count - 1)) = {}
                BY <4>1, <4>2, RangesApart
            <4> QED
                BY <2>2, <2>3, <4>3
        <3>2. ASSUME NEW i \in 0..(last - 1), NEW j \in 0..(last - 1), i < j
              PROVE  ChunkIds(Part(b, i)) \cap ChunkIds(Part(b, j)) = {}
            <4>1. i * q + q <= j * q /\ i * q \in Nat /\ j * q \in Nat
                BY <2>4, <3>2, Apart
            <4>2. ((i * q)..(i * q + q - 1)) \cap ((j * q)..(j * q + q - 1)) = {}
                BY <2>1, <4>1, RangesApart
            <4> QED
                BY <2>2, <4>2
        <3>3. CASE s = rest \/ u = rest
            BY <2>6, <2>7, <3>1, <3>3
        <3>4. CASE s # rest /\ u # rest
            <4>1. PICK i \in 0..(last - 1), j \in 0..(last - 1) : s = Part(b, i) /\ u = Part(b, j)
                BY <2>6, <3>4
            <4>2. i < j \/ j < i
                BY <2>7, <4>1
            <4> HIDE DEF rest
            <4> QED
                BY <3>2, <4>1, <4>2
        <3> QED
            BY <3>3, <3>4
    <2>8. UNION {ChunkIds(s) : s \in Plan(b)} = 0..(ChunksCount(GetBlock(b)) - 1)
        <3>1. ASSUME NEW s \in Plan(b), NEW x \in ChunkIds(s)
              PROVE  x \in 0..(ChunksCount(GetBlock(b)) - 1)
            <4>0. wholeChunks \in Nat /\ count \in Nat
                  /\ ChunksCount(GetBlock(b)) = wholeChunks + count
                BY <2>1, <2>4
            <4>1. CASE s = rest
                <5> HIDE DEF wholeChunks, count
                <5>1. x \in wholeChunks..(wholeChunks + count - 1)
                    BY <2>3, <3>1, <4>1
                <5>2. x \in 0..((wholeChunks + count) - 1)
                    BY <4>0, <5>1, RangeEnd
                <5> QED
                    BY <4>0, <5>2
            <4>2. CASE s # rest
                <5>1. PICK i \in 0..(last - 1) : s = Part(b, i)
                    BY <2>6, <4>2
                <5>2. i * q \in Nat /\ i * q + q <= wholeChunks /\ wholeChunks \in Nat
                      /\ x \in (i * q)..(i * q + q - 1)
                    BY <2>2, <2>4, <2>5, <3>1, <5>1
                <5> HIDE DEF wholeChunks, count
                <5>3. x \in 0..((wholeChunks + count) - 1)
                    BY <2>1, <4>0, <5>2, LaterStart
                <5> QED
                    BY <4>0, <5>3
            <4> QED
                BY <4>1, <4>2
        <3>2. ASSUME NEW x \in 0..(ChunksCount(GetBlock(b)) - 1)
              PROVE  \E s \in Plan(b) : x \in ChunkIds(s)
            <4>0. wholeChunks \in Nat /\ x \in 0..(wholeChunks + count - 1) /\ x \in Nat
                BY <2>1, <2>4, <3>2
            <4>1. CASE x >= wholeChunks
                BY <2>1, <2>3, <4>0, <4>1
            <4>2. CASE x < wholeChunks
                <5> DEFINE i == x \div q
                <5>1. i \in Nat /\ q * i <= x /\ x < q * i + q
                    BY <4>0, Division
                <5> HIDE DEF i
                <5>2. i < last
                    <6> SUFFICES ASSUME last <= i PROVE FALSE
                        BY <5>1
                    <6>1. last * q <= i * q /\ i * q = q * i
                        BY <5>1, Monotone
                    <6> QED
                        BY <4>0, <4>2, <5>1, <6>1
                <5>3. x \in ChunkIds(Part(b, i))
                    <6>1. i * q = q * i /\ i * q \in Nat
                        BY <5>1
                    <6> QED
                        BY <2>2, <4>0, <5>1, <5>2, <6>1
                <5> QED
                    BY <2>1, <5>1, <5>2, <5>3 DEF PartsOf
            <4> HIDE DEF wholeChunks
            <4> QED
                BY <4>0, <4>1, <4>2
        <3> QED
            BY <3>1, <3>2
    <2>9. rest \in Plan(b) /\ \A s \in Plan(b) : s = rest \/ s.tail_size = 0
        BY <2>1, <2>6
    <2> QED
        BY <2>1, <2>7, <2>8, <2>9
<1> QED
    BY <1>1, <1>2, BlockTypes

-----------------------------------------------------------------------------
(* The inductive invariant *)

TasksOf(b) == {k \in tasks : k.block_id = b}
Mine(b) == {s \in emitted : s.block_id = b}

\* What the only handler of reader b finds once n full segments are read.
Doing(b, k, n) ==
    /\ position[b] = n * FullSize(b)
    /\ \/ /\ k = DoReadTask(b)
          /\ Amid(b, n) \/ (n = 0 /\ size(b) <= SegmentHint)
          /\ offset[b] = n * FullSize(b)
       \/ k = Task("repost", b, 0) /\ Amid(b, n) /\ offset[b] = n * FullSize(b)
       \/ /\ k = Task("read_entire_block", b, size(b))
          /\ n = 0 /\ size(b) <= SegmentHint /\ offset[b] = n * FullSize(b)
       \/ /\ k = Task("read_segment", b, n * FullSize(b))
          /\ Amid(b, n + 1)
          /\ offset[b] = (n + 1) * FullSize(b)
       \/ /\ k = Task("read_tail", b, size(b) - n * FullSize(b))
          /\ Final(b, n)
          /\ offset[b] = n * FullSize(b)

\* A reader has ended, or goes on with one handler.
HasEnded(b) ==
    /\ TasksOf(b) = {}
    /\ Mine(b) \subseteq Plan(b)
    /\ b \notin failed => Mine(b) = Plan(b)

GoesOn(b, k, n) ==
    /\ b \notin failed
    /\ TasksOf(b) = {k}
    /\ Mine(b) = PartsOf(b, n)
    /\ Doing(b, k, n)

Chain(b) == HasEnded(b) \/ \E k \in tasks, n \in Nat : GoesOn(b, k, n)

IInv == TypeOK /\ \A b \in BlockIds : Chain(b)

-----------------------------------------------------------------------------

TaskType == [kind : TaskKinds, block_id : BlockIds, at : Nat]
SegmentType == [block_id : BlockIds, chunk_count : Nat, tail_size : Nat,
                first_chunk_id : Nat, from : 0..FileSize]

LEMMA PartTypes ==
    ASSUME NEW b \in BlockIds, NEW n \in Nat, n * FullSize(b) <= FileSize
    PROVE  Part(b, n) \in SegmentType
<1>1. FullSize(b) \in Nat \ {0} /\ chunk(b) \in Nat \ {0} /\ FileSize \in Nat
    BY BlockTypes, FullSegment
<1>2. n * FullSize(b) \in Nat
    BY <1>1, Product
<1>3. /\ FullSize(b) \div chunk(b) \in Nat /\ FullSize(b) % chunk(b) \in Nat
      /\ (n * FullSize(b)) \div chunk(b) \in Nat
    BY <1>1, <1>2, DividesNat, ZenonT(20)
<1>4. GetBlock(b).block_id = b
    BY BlockTypes
<1>5. n * FullSize(b) \in 0..FileSize
    BY <1>1, <1>2
<1> QED
    BY <1>3, <1>4, <1>5 DEF Part, Segment, SegmentType

LEMMA LastTypes ==
    ASSUME NEW b \in BlockIds
    PROVE  /\ Whole(b) \in SegmentType
           /\ \A n \in Nat : Final(b, n) => Rest(b, n) \in SegmentType
<1>1. /\ FullSize(b) \in Nat \ {0} /\ chunk(b) \in Nat \ {0} /\ FileSize \in Nat
      /\ size(b) \in Nat /\ size(b) <= FileSize /\ GetBlock(b).block_id = b
    BY BlockTypes, FullSegment
<1>2. size(b) \div chunk(b) \in Nat /\ size(b) % chunk(b) \in Nat
    BY <1>1, DividesNat, ZenonT(20)
<1>3. Whole(b) \in SegmentType
    <2>1. 0 \in 0..FileSize
        BY <1>1
    <2> QED
        BY <1>1, <1>2, <2>1 DEF Whole, Segment, SegmentType
<1>4. ASSUME NEW n \in Nat, Final(b, n) PROVE Rest(b, n) \in SegmentType
    <2>1. n * FullSize(b) \in Nat /\ size(b) - n * FullSize(b) \in Nat
        BY <1>1, <1>4, Product DEF Final, Amid
    <2>2. /\ (size(b) - n * FullSize(b)) \div chunk(b) \in Nat
          /\ (size(b) - n * FullSize(b)) % chunk(b) \in Nat
          /\ (n * FullSize(b)) \div chunk(b) \in Nat
        BY <1>1, <2>1, DividesNat, ZenonT(20)
    <2>3. n * FullSize(b) \in 0..FileSize
        BY <1>1, <1>4, <2>1 DEF Final, Amid
    <2> DEFINE rest == size(b) - n * FullSize(b)
    <2>4. rest \div chunk(b) \in Nat /\ rest % chunk(b) \in Nat
        BY <2>2
    <2>5. Rest(b, n) = [block_id |-> b, chunk_count |-> rest \div chunk(b),
                        tail_size |-> rest % chunk(b),
                        first_chunk_id |-> (n * FullSize(b)) \div chunk(b),
                        from |-> n * FullSize(b)]
        BY <1>1 DEF Rest, Segment
    <2> HIDE DEF rest
    <2> QED
        BY <2>2, <2>3, <2>4, <2>5 DEF SegmentType
<1> QED
    BY <1>3, <1>4

LEMMA PartsGrow ==
    ASSUME NEW b, NEW n \in Nat
    PROVE  PartsOf(b, n + 1) = PartsOf(b, n) \cup {Part(b, n)}
<1>1. 0..((n + 1) - 1) = (0..(n - 1)) \cup {n}
    OBVIOUS
<1> QED
    BY <1>1 DEF PartsOf

LEMMA NextFull ==
    ASSUME NEW b \in BlockIds, NEW n \in Nat
    PROVE  /\ n * FullSize(b) \in Nat
           /\ (n + 1) * FullSize(b) = n * FullSize(b) + FullSize(b)
           /\ (n + 1) * FullSize(b) \in Nat
<1>1. FullSize(b) \in Nat
    BY FullSegment
<1> QED
    BY <1>1

\* A reader that another one's handler leaves alone.
LEMMA Others ==
    ASSUME NEW u \in BlockIds, Chain(u),
           TasksOf(u)' = TasksOf(u), Mine(u)' = Mine(u), u \in failed' <=> u \in failed,
           offset'[u] = offset[u], position'[u] = position[u]
    PROVE  Chain(u)'
<1>1. CASE HasEnded(u)
    BY <1>1 DEF HasEnded, Chain, Plan
<1>2. CASE \E k \in tasks, n \in Nat : GoesOn(u, k, n)
    <2>1. PICK k \in tasks, n \in Nat : GoesOn(u, k, n)
        BY <1>2
    <2>2. k \in tasks'
        BY <2>1 DEF GoesOn, TasksOf
    <2>3. Doing(u, k, n)'
        BY <2>1 DEF GoesOn, Doing
    <2>4. GoesOn(u, k, n)'
        BY <2>1, <2>3 DEF GoesOn
    <2> QED
        BY <2>2, <2>4 DEF Chain
<1> QED
    BY <1>1, <1>2 DEF Chain

\* The handler that runs is the only one of its reader.
LEMMA RunsAlone ==
    ASSUME IInv, NEW k \in tasks
    PROVE  /\ k.block_id \in BlockIds
           /\ \E n \in Nat : GoesOn(k.block_id, k, n)
<1>1. k.block_id \in BlockIds
    BY DEF IInv, TypeOK
<1>2. k \in TasksOf(k.block_id)
    BY DEF TasksOf
<1> QED
    BY <1>1, <1>2 DEF IInv, Chain, HasEnded, GoesOn

\* read(2) moves the position no further than the end of the file, and as far as
\* it was asked to when there is that much.
LEMMA PositionMoves ==
    ASSUME TypeOK, NEW task \in tasks, task.kind # "repost", AdvancePosition(task)
    PROVE  LET b == task.block_id
               asked == IF task.kind = "read_segment" THEN FullSize(b) ELSE task.at
           IN  /\ position' \in [BlockIds -> 0..FileSize]
               /\ asked <= FileSize - position[b] => position'[b] = position[b] + asked
               /\ \A u \in BlockIds : u # b => position'[u] = position[u]
<1> DEFINE b == task.block_id
           asked == IF task.kind = "read_segment" THEN FullSize(b) ELSE task.at
<1>1. b \in BlockIds /\ task.at \in Nat /\ position \in [BlockIds -> 0..FileSize]
      /\ FileSize \in Nat
    BY ReaderInputs DEF TypeOK
<1>2. asked \in Nat
    BY <1>1, FullSegment
<1>3. position[b] \in 0..FileSize
    BY <1>1
<1>4. position' = [position EXCEPT ![b] = position[b] +
                      (IF asked <= FileSize - position[b] THEN asked ELSE FileSize - position[b])]
    BY DEF AdvancePosition
<1> HIDE DEF asked, b
<1>5. position[b] + (IF asked <= FileSize - position[b] THEN asked ELSE FileSize - position[b])
          \in 0..FileSize
    BY <1>1, <1>2, <1>3
<1>6. /\ position' \in [BlockIds -> 0..FileSize]
      /\ asked <= FileSize - position[b] => position'[b] = position[b] + asked
      /\ \A u \in BlockIds : u # b => position'[u] = position[u]
    BY <1>1, <1>4, <1>5
<1> QED
    BY <1>6 DEF asked, b

-----------------------------------------------------------------------------
(* Every step keeps the chains *)

LEMMA InitHolds == Init => IInv
<1> SUFFICES ASSUME Init PROVE IInv
    OBVIOUS
<1>1. TypeOK
    <2>1. 0 \in 0..FileSize
        BY ReaderInputs
    <2>2. tasks \subseteq [kind : TaskKinds, block_id : BlockIds, at : Nat]
        BY DEF Init, DoReadTask, Task, TaskKinds
    <2> QED
        BY <2>1, <2>2 DEF Init, TypeOK
<1>2. ASSUME NEW b \in BlockIds PROVE GoesOn(b, DoReadTask(b), 0)
    <2>1. 0 * FullSize(b) = 0 /\ size(b) \in Nat /\ SegmentHint \in Nat
        BY BlockTypes, FullSegment
    <2>2. Amid(b, 0) \/ size(b) <= SegmentHint
        BY <2>1 DEF Amid
    <2>3. Doing(b, DoReadTask(b), 0)
        BY <2>1, <2>2 DEF Init, Doing
    <2>4. TasksOf(b) = {DoReadTask(b)}
        BY DEF Init, TasksOf, DoReadTask, Task
    <2>5. PartsOf(b, 0) = {} /\ Mine(b) = {}
        BY DEF Init, PartsOf, Mine
    <2> QED
        BY <2>3, <2>4, <2>5 DEF Init, GoesOn
<1>3. \A b \in BlockIds : DoReadTask(b) \in tasks
    BY DEF Init
<1> QED
    BY <1>1, <1>2, <1>3 DEF IInv, Chain

LEMMA DoReadHolds ==
    ASSUME IInv, NEW b \in BlockIds, DoRead(b)
    PROVE  IInv'
<1> DEFINE k == DoReadTask(b)
<1>0. PICK next : next = NextRead(b)
    OBVIOUS
<1>1. k \in tasks /\ k.block_id = b /\ k.kind = "do_read"
    BY DEF DoRead, DoReadTask, Task
<1>2. PICK n \in Nat : GoesOn(b, k, n)
    BY <1>1, RunsAlone
<1>3. /\ size(b) \in Nat /\ SegmentHint \in Nat /\ FullSize(b) \in Nat \ {0}
      /\ n * FullSize(b) \in Nat
      /\ (n + 1) * FullSize(b) = n * FullSize(b) + FullSize(b)
    BY BlockTypes, FullSegment, NextFull
<1>4. /\ offset[b] = n * FullSize(b) /\ position[b] = n * FullSize(b)
      /\ Amid(b, n) \/ (n = 0 /\ size(b) <= SegmentHint)
    BY <1>2 DEF GoesOn, Doing, DoReadTask, Task
<1>5. /\ tasks' = (tasks \ {k}) \cup {next}
      /\ offset' = [offset EXCEPT ![b] = IF next.kind = "read_segment"
                                         THEN offset[b] + FullSize(b) ELSE offset[b]]
      /\ UNCHANGED <<position, emitted, failed>>
    BY <1>0 DEF DoRead, AdvanceOffset
<1>50. offset \in [BlockIds -> Nat] /\ position \in [BlockIds -> 0..FileSize]
    BY DEF IInv, TypeOK
<1>6. /\ next \in TaskType
      /\ next.block_id = b
      /\ Doing(b, next, n)'
    <2>1. CASE size(b) <= SegmentHint
        <3>1. next = Task("read_entire_block", b, size(b))
            BY <1>3, <2>1, <1>0 DEF NextRead, size
        <3>2. n = 0
            BY <1>3, <1>4, <2>1 DEF Amid
        <3>3. next \in TaskType /\ next.block_id = b
            BY <1>3, <3>1 DEF Task, TaskType, TaskKinds
        <3>4. position'[b] = n * FullSize(b)
            BY <1>4, <1>5
        <3>5. offset'[b] = n * FullSize(b)
            BY <1>4, <1>5, <1>50, <3>1 DEF Task
        <3> QED
            BY <2>1, <3>1, <3>2, <3>3, <3>4, <3>5 DEF Doing
    <2>2. CASE size(b) > SegmentHint /\ size(b) - offset[b] > FullSize(b)
        <3>1. next = Task("read_segment", b, offset[b])
            BY <1>3, <2>2, <1>0 DEF NextRead, size
        <3>2. Amid(b, n + 1)
            BY <1>3, <1>4, <2>2 DEF Amid
        <3>3. offset'[b] = (n + 1) * FullSize(b)
            BY <1>3, <1>4, <1>5, <1>50, <3>1 DEF Task
        <3>4. next \in TaskType /\ next.block_id = b
            BY <1>3, <1>4, <3>1 DEF Task, TaskType, TaskKinds
        <3>5. position'[b] = n * FullSize(b) /\ next = Task("read_segment", b, n * FullSize(b))
            BY <1>4, <1>5, <3>1
        <3> QED
            BY <3>2, <3>3, <3>4, <3>5 DEF Doing
    <2>3. CASE size(b) > SegmentHint /\ ~(size(b) - offset[b] > FullSize(b))
        <3>1. next = Task("read_tail", b, size(b) - n * FullSize(b))
            BY <1>3, <1>4, <2>3, <1>0 DEF NextRead, size
        <3>2. Final(b, n)
            BY <1>3, <1>4, <2>3 DEF Amid, Final
        <3>3. size(b) - n * FullSize(b) \in Nat
            BY <1>3, <3>2 DEF Amid, Final
        <3>4. offset'[b] = n * FullSize(b)
            BY <1>4, <1>5, <1>50, <3>1 DEF Task
        <3>5. next \in TaskType /\ next.block_id = b
            BY <3>1, <3>3 DEF Task, TaskType, TaskKinds
        <3>6. position'[b] = n * FullSize(b)
            BY <1>4, <1>5
        <3> QED
            BY <3>1, <3>2, <3>4, <3>5, <3>6 DEF Doing
    <2> QED
        BY <1>3, <1>4, <2>1, <2>2, <2>3
<1>7. GoesOn(b, next, n)' /\ next \in tasks'
    <2>1. TasksOf(b)' = {next}
        BY <1>1, <1>2, <1>5, <1>6 DEF TasksOf, GoesOn
    <2> QED
        BY <1>2, <1>5, <1>6, <2>1 DEF GoesOn, Mine
<1>8. ASSUME NEW u \in BlockIds, u # b PROVE Chain(u)'
    <2>1. TasksOf(u)' = TasksOf(u)
        BY <1>1, <1>5, <1>6, <1>8 DEF TasksOf
    <2>2. Mine(u)' = Mine(u) /\ (u \in failed' <=> u \in failed) /\ position'[u] = position[u]
        BY <1>5 DEF Mine
    <2>3. offset'[u] = offset[u]
        BY <1>5, <1>50, <1>8
    <2> QED
        BY <2>1, <2>2, <2>3, Others DEF IInv
<1>9. TypeOK'
    <2>1. tasks' \subseteq TaskType
        BY <1>5, <1>6 DEF IInv, TypeOK, TaskType
    <2>2. offset[b] + FullSize(b) \in Nat
        BY <1>3, <1>4
    <2>3. offset' \in [BlockIds -> Nat]
        BY <1>5, <1>50, <2>2
    <2> QED
        BY <1>5, <2>1, <2>3 DEF IInv, TypeOK, TaskType
<1> QED
    BY <1>7, <1>8, <1>9 DEF IInv, Chain

LEMMA ReadLastHolds ==
    ASSUME IInv, NEW task \in tasks, ReadLast(task)
    PROVE  IInv'
<1> DEFINE b == task.block_id
           s == SegmentRead(task)
<1>1. b \in BlockIds /\ \E n \in Nat : GoesOn(b, task, n)
    BY RunsAlone
<1>2. PICK n \in Nat : GoesOn(b, task, n)
    BY <1>1
<1>3. /\ emitted' = emitted \cup {s} /\ AdvancePosition(task) /\ tasks' = tasks \ {task}
      /\ UNCHANGED <<offset, failed>> /\ task.kind \in {"read_entire_block", "read_tail"}
    BY DEF ReadLast
<1>4. s \in SegmentType /\ s.block_id = b /\ PartsOf(b, n) \cup {s} = Plan(b)
    <2>0. GetBlock(b).block_id = b /\ chunk(b) \in Nat \ {0} /\ FullSize(b) \in Nat \ {0}
        BY <1>1, BlockTypes, FullSegment
    <2>1. CASE task.kind = "read_entire_block"
        <3>1. /\ n = 0 /\ size(b) <= SegmentHint /\ position[b] = n * FullSize(b)
            BY <1>2, <2>1 DEF GoesOn, Doing, DoReadTask, Task
        <3>2. position[b] = 0 /\ PartsOf(b, n) = {}
            BY <2>0, <3>1 DEF PartsOf
        <3>3. 0 \div chunk(b) = 0
            BY <2>0, Quotient
        <3>4. s = Whole(b)
            BY <2>1, <3>2, <3>3 DEF SegmentRead, Whole, size, chunk
        <3>5. s.block_id = b
            BY <2>0, <3>4 DEF Whole, Segment
        <3> QED
            BY <1>1, <3>1, <3>2, <3>4, <3>5, LastTypes, PlanSmall
    <2>2. CASE task.kind = "read_tail"
        <3>1. /\ task.at = size(b) - n * FullSize(b) /\ Final(b, n)
              /\ offset[b] = n * FullSize(b) /\ position[b] = n * FullSize(b)
            BY <1>2, <2>2 DEF GoesOn, Doing, DoReadTask, Task
        <3>2. s = Rest(b, n)
            BY <2>2, <3>1 DEF SegmentRead, Rest, size, chunk
        <3>3. s.block_id = b
            BY <2>0, <3>2 DEF Rest, Segment
        <3> QED
            BY <1>1, <3>1, <3>2, <3>3, LastTypes, PlanFinal
    <2> QED
        BY <1>3, <2>1, <2>2
<1> HIDE DEF s
<1>5. /\ position' \in [BlockIds -> 0..FileSize]
      /\ \A u \in BlockIds : u # b => position'[u] = position[u]
    BY <1>3, PositionMoves DEF IInv
<1>6. Chain(b)'
    <2>1. TasksOf(b)' = {}
        BY <1>2, <1>3 DEF TasksOf, GoesOn
    <2>2. Mine(b)' = Mine(b) \cup {s}
        BY <1>3, <1>4 DEF Mine
    <2>3. Mine(b)' = Plan(b)'
        BY <1>2, <1>4, <2>2 DEF GoesOn, Plan
    <2> QED
        BY <2>1, <2>3 DEF Chain, HasEnded
<1>7. ASSUME NEW u \in BlockIds, u # b PROVE Chain(u)'
    <2>1. TasksOf(u)' = TasksOf(u) /\ Mine(u)' = Mine(u)
        BY <1>3, <1>4, <1>7 DEF TasksOf, Mine
    <2>2. (u \in failed' <=> u \in failed) /\ offset'[u] = offset[u]
        BY <1>3
    <2> HIDE DEF b
    <2> QED
        BY <1>5, <1>7, <2>1, <2>2, Others DEF IInv
<1>8. TypeOK'
    BY <1>3, <1>4, <1>5 DEF IInv, TypeOK, SegmentType
<1> HIDE DEF b
<1> QED
    BY <1>6, <1>7, <1>8 DEF IInv

LEMMA ReadSegmentHolds ==
    ASSUME IInv, NEW task \in tasks, ReadSegment(task)
    PROVE  IInv'
<1> DEFINE b == task.block_id
           s == SegmentRead(task)
           next == Task("repost", b, 0)
<1>1. b \in BlockIds /\ \E n \in Nat : GoesOn(b, task, n)
    BY RunsAlone
<1>2. PICK n \in Nat : GoesOn(b, task, n)
    BY <1>1
<1>3. /\ emitted' = emitted \cup {s} /\ AdvancePosition(task)
      /\ tasks' = (tasks \ {task}) \cup {next}
      /\ UNCHANGED <<offset, failed>> /\ task.kind = "read_segment"
    BY DEF ReadSegment
<1>4. /\ task.at = n * FullSize(b) /\ Amid(b, n + 1) /\ offset[b] = (n + 1) * FullSize(b)
      /\ position[b] = n * FullSize(b)
    BY <1>2, <1>3 DEF GoesOn, Doing, DoReadTask, Task
<1>5. /\ size(b) \in Nat /\ size(b) <= FileSize /\ FileSize \in Nat
      /\ FullSize(b) \in Nat \ {0} /\ n * FullSize(b) \in Nat
      /\ (n + 1) * FullSize(b) = n * FullSize(b) + FullSize(b)
    BY <1>1, BlockTypes, FullSegment, NextFull
<1>6. s = Part(b, n) /\ s \in SegmentType /\ s.block_id = b
    <2>1. s = Part(b, n)
        BY <1>3, <1>4 DEF SegmentRead, Part, chunk
    <2>2. n * FullSize(b) <= FileSize
        BY <1>4, <1>5 DEF Amid
    <2>3. GetBlock(b).block_id = b
        BY <1>1, BlockTypes
    <2> QED
        BY <1>1, <2>1, <2>2, <2>3, PartTypes DEF Part, Segment
<1> HIDE DEF s
<1>7. /\ position' \in [BlockIds -> 0..FileSize]
      /\ position'[b] = (n + 1) * FullSize(b)
      /\ \A u \in BlockIds : u # b => position'[u] = position[u]
    <2>1. FullSize(b) <= FileSize - position[b]
        BY <1>4, <1>5 DEF Amid
    <2> QED
        BY <1>3, <1>4, <1>5, <2>1, PositionMoves DEF IInv
<1>8. GoesOn(b, next, n + 1)' /\ next \in tasks'
    <2>1. TasksOf(b)' = {next}
        BY <1>2, <1>3 DEF TasksOf, GoesOn, Task
    <2>2. Mine(b)' = PartsOf(b, n + 1)
        <3>1. Mine(b)' = Mine(b) \cup {s}
            BY <1>3, <1>6 DEF Mine
        <3> QED
            BY <1>2, <1>6, <3>1, PartsGrow DEF GoesOn
    <2>3. Doing(b, next, n + 1)'
        BY <1>3, <1>4, <1>7 DEF Doing
    <2> QED
        BY <1>2, <1>3, <2>1, <2>2, <2>3 DEF GoesOn, PartsOf
<1>9. ASSUME NEW u \in BlockIds, u # b PROVE Chain(u)'
    <2>1. TasksOf(u)' = TasksOf(u) /\ Mine(u)' = Mine(u)
        BY <1>3, <1>6, <1>9 DEF TasksOf, Mine, Task
    <2>2. (u \in failed' <=> u \in failed) /\ offset'[u] = offset[u]
        BY <1>3
    <2> HIDE DEF b
    <2> QED
        BY <1>7, <1>9, <2>1, <2>2, Others DEF IInv
<1>10. TypeOK'
    <2>1. next \in TaskType
        BY <1>1 DEF Task, TaskType, TaskKinds
    <2> QED
        BY <1>3, <1>6, <1>7, <2>1 DEF IInv, TypeOK, SegmentType, TaskType
<1>11. n + 1 \in Nat
    OBVIOUS
<1> HIDE DEF b, next
<1> QED
    BY <1>8, <1>9, <1>10, <1>11 DEF IInv, Chain

LEMMA RepostHolds ==
    ASSUME IInv, NEW task \in tasks, Repost(task)
    PROVE  IInv'
<1> DEFINE b == task.block_id
           next == DoReadTask(b)
<1>1. b \in BlockIds /\ \E n \in Nat : GoesOn(b, task, n)
    BY RunsAlone
<1>2. PICK n \in Nat : GoesOn(b, task, n)
    BY <1>1
<1>3. /\ tasks' = (tasks \ {task}) \cup {next} /\ task.kind = "repost"
      /\ UNCHANGED <<offset, position, emitted, failed>>
    BY DEF Repost
<1>4. Amid(b, n) /\ offset[b] = n * FullSize(b) /\ position[b] = n * FullSize(b)
    BY <1>2, <1>3 DEF GoesOn, Doing, DoReadTask, Task
<1>5. GoesOn(b, next, n)' /\ next \in tasks'
    <2>1. TasksOf(b)' = {next}
        BY <1>2, <1>3 DEF TasksOf, GoesOn, DoReadTask, Task
    <2>2. Doing(b, next, n)'
        BY <1>3, <1>4 DEF Doing
    <2> QED
        BY <1>2, <1>3, <2>1, <2>2 DEF GoesOn, Mine
<1>6. ASSUME NEW u \in BlockIds, u # b PROVE Chain(u)'
    <2>1. TasksOf(u)' = TasksOf(u) /\ Mine(u)' = Mine(u)
        BY <1>3, <1>6 DEF TasksOf, Mine, DoReadTask, Task
    <2> HIDE DEF b
    <2> QED
        BY <1>3, <1>6, <2>1, Others DEF IInv
<1>7. TypeOK'
    <2>1. next \in TaskType
        BY <1>1 DEF DoReadTask, Task, TaskType, TaskKinds
    <2> QED
        BY <1>3, <2>1 DEF IInv, TypeOK, TaskType
<1> HIDE DEF b, next
<1> QED
    BY <1>5, <1>6, <1>7 DEF IInv, Chain

\* What has been read when a reader fails is part of the plan.
LEMMA ReadFailsHolds ==
    ASSUME IInv, NEW task \in tasks, ReadFails(task)
    PROVE  IInv'
<1> DEFINE b == task.block_id
<1>1. b \in BlockIds /\ \E n \in Nat : GoesOn(b, task, n)
    BY RunsAlone
<1>2. PICK n \in Nat : GoesOn(b, task, n)
    BY <1>1
<1>3. /\ tasks' = tasks \ {task} /\ failed' = failed \cup {b}
      /\ UNCHANGED <<offset, position, emitted>>
      /\ task.kind \in {"read_entire_block", "read_segment", "read_tail"}
    BY DEF ReadFails
<1>4. PartsOf(b, n) \subseteq Plan(b)
    <2>1. CASE n = 0
        BY <2>1 DEF PartsOf
    <2>2. CASE Amid(b, n) \/ Final(b, n)
        BY <1>1, <2>2, PartsInPlan DEF Final
    <2>3. CASE Amid(b, n + 1)
        <3>1. PartsOf(b, n + 1) \subseteq Plan(b)
            BY <1>1, <2>3, PartsInPlan
        <3> QED
            BY <3>1, PartsGrow
    <2> QED
        BY <1>2, <1>3, <2>1, <2>2, <2>3 DEF GoesOn, Doing, DoReadTask, Task
<1>5. Chain(b)'
    <2>1. TasksOf(b)' = {}
        BY <1>2, <1>3 DEF TasksOf, GoesOn
    <2>2. Mine(b)' \subseteq Plan(b)'
        BY <1>2, <1>3, <1>4 DEF Mine, GoesOn, Plan
    <2> QED
        BY <1>3, <2>1, <2>2 DEF Chain, HasEnded
<1>6. ASSUME NEW u \in BlockIds, u # b PROVE Chain(u)'
    <2>1. TasksOf(u)' = TasksOf(u) /\ Mine(u)' = Mine(u)
        BY <1>3, <1>6 DEF TasksOf, Mine
    <2>2. u \in failed' <=> u \in failed
        BY <1>3, <1>6
    <2> HIDE DEF b
    <2> QED
        BY <1>3, <1>6, <2>1, <2>2, Others DEF IInv
<1>7. TypeOK'
    BY <1>1, <1>3 DEF IInv, TypeOK
<1> HIDE DEF b
<1> QED
    BY <1>5, <1>6, <1>7 DEF IInv

LEMMA StepHolds == IInv /\ [Next]_vars => IInv'
<1> SUFFICES ASSUME IInv, [Next]_vars PROVE IInv'
    OBVIOUS
<1>1. CASE UNCHANGED vars
    <2>1. UNCHANGED <<offset, position, tasks, emitted, failed>>
        BY <1>1 DEF vars
    <2>2. TypeOK'
        BY <2>1 DEF IInv, TypeOK
    <2>3. \A b \in BlockIds : TasksOf(b)' = TasksOf(b) /\ Mine(b)' = Mine(b)
        BY <2>1 DEF TasksOf, Mine
    <2>4. \A b \in BlockIds : Chain(b)'
        BY <2>1, <2>3, Others DEF IInv
    <2> QED
        BY <2>2, <2>4 DEF IInv
<1> QED
    BY <1>1, DoReadHolds, ReadLastHolds, ReadSegmentHolds, RepostHolds, ReadFailsHolds
    DEF Next, RunTask, AllEnded

LEMMA IInvHolds == Spec => []IInv
BY InitHolds, StepHolds, PTL DEF Spec

LEMMA PlanIsRead == IInv => ReadsThePlan
<1> SUFFICES ASSUME IInv, NEW b \in BlockIds
             PROVE  /\ Mine(b) \subseteq Plan(b)
                    /\ b \notin failed /\ (\A k \in tasks : k.block_id # b) =>
                           Mine(b) = Plan(b)
    BY DEF ReadsThePlan, Mine, Plan
<1>1. CASE HasEnded(b)
    BY <1>1 DEF HasEnded
<1>2. CASE \E k \in tasks, n \in Nat : GoesOn(b, k, n)
    <2>1. PICK k \in tasks, n \in Nat : GoesOn(b, k, n)
        BY <1>2
    <2>2. k.block_id = b
        BY <2>1 DEF GoesOn, TasksOf
    <2>3. PartsOf(b, n) \subseteq Plan(b)
        <3>1. CASE n = 0
            BY <3>1 DEF PartsOf
        <3>2. CASE Amid(b, n) \/ Final(b, n)
            BY <3>2, PartsInPlan DEF Final
        <3>3. CASE Amid(b, n + 1)
            <4>1. PartsOf(b, n + 1) \subseteq Plan(b)
                BY <3>3, PartsInPlan
            <4> QED
                BY <4>1, PartsGrow
        <3> QED
            BY <2>1, <3>1, <3>2, <3>3 DEF GoesOn, Doing
    <2> QED
        BY <2>1, <2>2, <2>3 DEF GoesOn
<1> QED
    BY <1>1, <1>2 DEF IInv, Chain

\* Two segments of a plan do not begin with the same chunk.
LEMMA PlanKeys ==
    ASSUME NEW b \in BlockIds, NEW s \in Plan(b), NEW u \in Plan(b),
           s.first_chunk_id = u.first_chunk_id
    PROVE  s = u
<1>1. CASE size(b) <= SegmentHint
    BY <1>1, PlanSmall
<1>2. CASE size(b) > SegmentHint
    <2>1. PICK q \in Nat \ {0}, last \in Nat :
              /\ Plan(b) = PartsOf(b, last) \cup {Rest(b, last)}
              /\ \A i \in 0..last : Part(b, i).first_chunk_id = i * q
              /\ Rest(b, last).first_chunk_id = last * q
        BY <1>2, PlanInChunks
    <2>2. ASSUME NEW i \in Nat, NEW j \in Nat, i * q = j * q PROVE i = j
        <3>1. i * q \in Nat /\ j * q \in Nat
            BY <2>1
        <3>2. (i < j => i * q + q <= j * q) /\ (j < i => j * q + q <= i * q)
            BY <2>1, <2>2, Apart
        <3> QED
            BY <2>1, <2>2, <3>1, <3>2
    <2>3. PICK i \in 0..last : /\ s.first_chunk_id = i * q
                               /\ s = IF i = last THEN Rest(b, last) ELSE Part(b, i)
        BY <2>1 DEF PartsOf
    <2>4. PICK j \in 0..last : /\ u.first_chunk_id = j * q
                               /\ u = IF j = last THEN Rest(b, last) ELSE Part(b, j)
        BY <2>1 DEF PartsOf
    <2>5. i * q = j * q
        BY <2>3, <2>4, Zenon
    <2>6. i = j
        <3>1. i \in Nat /\ j \in Nat
            BY <2>1
        <3> QED
            BY <2>2, <2>5, <3>1
    <2> QED
        BY <2>3, <2>4, <2>6
<1> QED
    BY <1>1, <1>2, BlockTypes

\* At most one segment of a block has no whole chunk; and none has, if the block
\* is made of whole chunks and is not empty.
LEMMA PlanBareTail ==
    ASSUME NEW b \in BlockIds, NEW s \in Plan(b), s.chunk_count = 0
    PROVE  /\ \A u \in Plan(b) : u.chunk_count = 0 => u = s
           /\ TailSize(GetBlock(b)) = 0 => ChunksCount(GetBlock(b)) = 0
<1>1. CASE size(b) <= SegmentHint
    BY <1>1, PlanSmall DEF Whole, Segment, ChunksCount, size, chunk
<1>2. CASE size(b) > SegmentHint
    <2>1. PICK q \in Nat \ {0}, last \in Nat :
              /\ Amid(b, last)
              /\ Plan(b) = PartsOf(b, last) \cup {Rest(b, last)}
              /\ \A i \in 0..last : Part(b, i).chunk_count = q
              /\ Rest(b, last).tail_size = TailSize(GetBlock(b))
        BY <1>2, PlanInChunks
    <2>2. \A u \in Plan(b) : u.chunk_count = 0 => u = Rest(b, last)
        BY <2>1 DEF PartsOf
    <2> DEFINE rest == size(b) - last * FullSize(b)
               c == chunk(b)
    <2>3. rest \in Nat \ {0} /\ c \in Nat \ {0}
        <3>1. last * FullSize(b) \in Nat /\ size(b) \in Nat
            BY <2>1, BlockTypes, NextFull
        <3> QED
            BY <2>1, <3>1, BlockTypes DEF Amid
    <2>4. Rest(b, last).chunk_count = rest \div c /\ Rest(b, last).tail_size = rest % c
        BY DEF Rest, Segment
    <2> HIDE DEF rest, c
    <2>5. rest \div c = 0 => rest % c # 0
        <3>1. \A a \in Nat : a % c = a - c * (a \div c)
            BY <2>3, Division
        <3>2. rest % c = rest - c * (rest \div c)
            BY <2>3, <3>1, Zenon
        <3>3. c * 0 = 0
            BY <2>3
        <3> QED
            BY <2>3, <3>2, <3>3
    <2> QED
        BY <2>1, <2>2, <2>4, <2>5
<1> QED
    BY <1>1, <1>2, BlockTypes

LEMMA PlanTypes ==
    ASSUME NEW b \in BlockIds, NEW s \in Plan(b)
    PROVE  s \in SegmentType /\ s.block_id = b
<1>1. CASE size(b) <= SegmentHint
    BY <1>1, PlanSmall, LastTypes, BlockTypes DEF Whole, Segment
<1>2. CASE size(b) > SegmentHint
    <2> DEFINE full == FullSize(b)
               last == (size(b) - 1) \div full
    <2>1. /\ full \in Nat \ {0} /\ size(b) - 1 \in Nat /\ size(b) \in Nat
          /\ FileSize \in Nat /\ size(b) <= FileSize
        BY <1>2, BlockTypes, FullSegment
    <2>2. last \in Nat /\ full * last <= size(b) - 1 /\ size(b) - 1 < full * last + full
        BY <2>1, Division
    <2>3. Plan(b) = PartsOf(b, last) \cup {Rest(b, last)}
        BY <1>2, PlanLarge
    <2> HIDE DEF last, full
    <2>4. full * last \in Nat /\ last * full = full * last
        BY <2>1, <2>2
    <2>5. Final(b, last)
        BY <1>2, <2>1, <2>2, <2>4 DEF Final, Amid, full
    <2>6. ASSUME NEW i \in 0..(last - 1) PROVE Part(b, i) \in SegmentType
        <3>1. i * full <= last * full
            BY <2>1, <2>2, Monotone
        <3>2. i * FullSize(b) <= FileSize
            <4>1. i * full \in Nat
                BY <2>1, <2>2
            <4> QED
                BY <2>1, <2>2, <2>4, <3>1, <4>1 DEF full
        <3> QED
            BY <2>2, <3>2, PartTypes
    <2>7. Rest(b, last) \in SegmentType
        BY <2>2, <2>5, LastTypes
    <2>8. s.block_id = GetBlock(b).block_id
        BY <2>3 DEF PartsOf, Part, Rest, Segment
    <2> QED
        BY <2>3, <2>6, <2>7, <2>8, BlockTypes DEF PartsOf
<1> QED
    BY <1>1, <1>2, BlockTypes

\* What a read emits has not been emitted before.
LEMMA ReadIsNew ==
    ASSUME IInv, NEW task \in tasks,
           task.kind \in {"read_entire_block", "read_segment", "read_tail"}
    PROVE  SegmentRead(task) \notin emitted
<1> DEFINE b == task.block_id
           segment == SegmentRead(task)
<1>1. b \in BlockIds /\ \E n \in Nat : GoesOn(b, task, n)
    BY RunsAlone
<1>2. PICK n \in Nat : GoesOn(b, task, n)
    BY <1>1
<1>3. segment.block_id = b /\ segment.from = n * FullSize(b)
    BY <1>1, <1>2, BlockTypes
       DEF SegmentRead, Segment, GoesOn, Doing
<1>4. \A i \in 0..(n - 1) : Part(b, i).from # n * FullSize(b)
    <2>1. FullSize(b) \in Nat \ {0}
        BY <1>1, FullSegment
    <2>2. ASSUME NEW i \in 0..(n - 1) PROVE i * FullSize(b) # n * FullSize(b)
        <3>1. i * FullSize(b) + FullSize(b) <= n * FullSize(b) /\ i * FullSize(b) \in Nat
            BY <1>2, <2>1, Apart
        <3> QED
            BY <2>1, <3>1
    <2> QED
        BY <2>2 DEF Part, Segment
<1>5. segment \notin PartsOf(b, n)
    BY <1>3, <1>4 DEF PartsOf
<1> QED
    BY <1>2, <1>3, <1>5 DEF GoesOn, Mine

-----------------------------------------------------------------------------
(* The theorems *)

\* The variables keep their types.
THEOREM TypeCorrect == Spec => []TypeOK
<1>1. IInv => TypeOK
    BY DEF IInv
<1> QED
    BY <1>1, IInvHolds, PTL

\* The invariant says of every reader what the theorems below say, ...
LEMMA OneTask == IInv => OneTaskPerReader
<1> SUFFICES ASSUME IInv, NEW k \in tasks, NEW l \in tasks, k.block_id = l.block_id
             PROVE  k = l
    BY DEF OneTaskPerReader
<1>1. PICK n \in Nat : GoesOn(k.block_id, k, n)
    BY RunsAlone
<1>2. l \in TasksOf(k.block_id)
    BY DEF TasksOf
<1> QED
    BY <1>1, <1>2 DEF GoesOn

\* ... and where its descriptor is.
LEMMA InStepAlways == IInv => ReadsInStep
<1>1. ASSUME NEW b \in BlockIds, NEW s \in Plan(b) PROVE s.from = s.first_chunk_id * chunk(b)
    <2>1. CASE size(b) <= SegmentHint
        <3>1. 0 = 0 * chunk(b)
            BY BlockTypes
        <3> QED
            BY <2>1, <3>1, PlanSmall DEF Whole, Segment
    <2>2. CASE size(b) > SegmentHint
        <3> DEFINE last == (size(b) - 1) \div FullSize(b)
        <3>1. last \in Nat
            <4>1. size(b) - 1 \in Nat /\ FullSize(b) \in Nat \ {0}
                BY <2>2, BlockTypes, FullSegment
            <4> QED
                BY <4>1, Division
        <3>2. s \in PartsOf(b, last) \cup {Rest(b, last)}
            BY <2>2, PlanLarge
        <3> HIDE DEF last
        <3>3. \E i \in Nat : /\ s.from = i * FullSize(b)
                             /\ s.first_chunk_id = (i * FullSize(b)) \div chunk(b)
            BY <3>1, <3>2 DEF PartsOf, Part, Rest, Segment
        <3> QED
            BY <3>3, InStep
    <2> QED
        BY <2>1, <2>2, BlockTypes
<1>2. IInv => ReadsInStep
    <2> SUFFICES ASSUME IInv PROVE ReadsInStep
        OBVIOUS
    <2> ReadsThePlan
        BY PlanIsRead
    <2>1. ASSUME NEW k \in tasks, k.kind = "read_segment" PROVE position[k.block_id] = k.at
        <3>1. PICK n \in Nat : GoesOn(k.block_id, k, n)
            BY RunsAlone
        <3> QED
            BY <2>1, <3>1 DEF GoesOn, Doing, DoReadTask, Task
    <2>2. ASSUME NEW s \in emitted PROVE s.from = s.first_chunk_id * GetBlock(s.block_id).chunk_size
        <3>1. s.block_id \in BlockIds /\ s \in Plan(s.block_id)
            BY DEF IInv, TypeOK, ReadsThePlan, Plan
        <3> QED
            BY <1>1, <3>1 DEF chunk
    <2> QED
        BY <2>1, <2>2 DEF ReadsInStep
<1> QED
    BY <1>2

\* A reader never has two handlers posted or running.
THEOREM ReadersDoOneThing == Spec => []OneTaskPerReader
BY OneTask, IInvHolds, PTL

\* Each reader reads the plan of its block, nothing else, and all of it.
THEOREM ReadersFollowPlan == Spec => []ReadsThePlan
BY PlanIsRead, IInvHolds, PTL

\* The descriptor is where the chunk numbers say.
THEOREM ReadersStayInStep == Spec => []ReadsInStep
BY InStepAlways, IInvHolds, PTL

\* The assertion at the start of do_read holds for a block that has bytes: only an
\* empty one can break it.
THEOREM ReadersFindBytes == Spec => []LeftUnlessEmpty
<1>1. IInv => LeftUnlessEmpty
    <2> SUFFICES ASSUME IInv, NEW b \in BlockIds, DoReadTask(b) \in tasks, size(b) > 0
                 PROVE  offset[b] < GetBlock(b).size
        BY DEF LeftUnlessEmpty, size
    <2>1. PICK n \in Nat : GoesOn(b, DoReadTask(b), n)
        BY RunsAlone DEF DoReadTask, Task
    <2>2. /\ offset[b] = n * FullSize(b)
          /\ Amid(b, n) \/ (n = 0 /\ size(b) <= SegmentHint)
        BY <2>1 DEF GoesOn, Doing, DoReadTask, Task
    <2>3. 0 * FullSize(b) = 0 /\ size(b) \in Nat
        BY BlockTypes, FullSegment
    <2> QED
        BY <2>2, <2>3 DEF Amid, size
<1> QED
    BY <1>1, IInvHolds, PTL

\* A block's segments have each of its chunks once, and its tail once.
THEOREM SegmentsAddUp == Spec => []ChunksAddUp
<1>1. ReadsThePlan => ChunksAddUp
    <2> SUFFICES ASSUME ReadsThePlan, NEW b \in BlockIds
                 PROVE  /\ \A s, u \in Mine(b) : s # u => ChunkIds(s) \cap ChunkIds(u) = {}
                        /\ (b \notin failed /\ \A k \in tasks : k.block_id # b) =>
                               /\ UNION {ChunkIds(s) : s \in Mine(b)}
                                      = 0..(ChunksCount(GetBlock(b)) - 1)
                               /\ \A s \in Mine(b) : s.tail_size \in {0, TailSize(GetBlock(b))}
                               /\ Cardinality({s \in Mine(b) : s.tail_size > 0})
                                      = (IF TailSize(GetBlock(b)) > 0 THEN 1 ELSE 0)
        BY DEF ChunksAddUp, Mine
    <2>1. /\ Mine(b) \subseteq Plan(b)
          /\ b \notin failed /\ (\A k \in tasks : k.block_id # b) => Mine(b) = Plan(b)
        BY DEF ReadsThePlan, Mine, Plan
    <2>2. \A s, u \in Mine(b) : s # u => ChunkIds(s) \cap ChunkIds(u) = {}
        BY <2>1, PlanAddsUp
    <2>3. ASSUME Mine(b) = Plan(b)
          PROVE  /\ UNION {ChunkIds(s) : s \in Mine(b)} = 0..(ChunksCount(GetBlock(b)) - 1)
                 /\ \A s \in Mine(b) : s.tail_size \in {0, TailSize(GetBlock(b))}
                 /\ Cardinality({s \in Mine(b) : s.tail_size > 0})
                        = (IF TailSize(GetBlock(b)) > 0 THEN 1 ELSE 0)
        <3>1. UNION {ChunkIds(s) : s \in Mine(b)} = 0..(ChunksCount(GetBlock(b)) - 1)
            BY <2>3, PlanAddsUp
        <3>2. PICK l \in Mine(b) : /\ l.tail_size = TailSize(GetBlock(b))
                                   /\ \A s \in Mine(b) : s = l \/ s.tail_size = 0
            BY <2>3, PlanAddsUp
        <3>3. {s \in Mine(b) : s.tail_size > 0}
                  = IF TailSize(GetBlock(b)) > 0 THEN {l} ELSE {}
            BY <3>2
        <3> QED
            BY <3>1, <3>2, <3>3, FS_EmptySet, FS_Singleton
    <2> QED
        BY <2>1, <2>2, <2>3
<1> QED
    BY <1>1, ReadersFollowPlan, PTL

-----------------------------------------------------------------------------
(* The chains are finite *)

\* A bound on the handlers a chain has yet to run: four for each byte left,
\* and where it stands on the way from one do_read to the next.
Phase(kind) ==
    CASE kind = "read_segment" -> 4
      [] kind = "repost" -> 3
      [] kind = "do_read" -> 2
      [] OTHER -> 1
StepsLeft(k) == 4 * (size(k.block_id) - offset[k.block_id]) + Phase(k.kind)

LEMMA StepsLeftType ==
    ASSUME IInv, NEW k \in tasks
    PROVE  /\ StepsLeft(k) \in Nat \ {0}
           /\ offset[k.block_id] \in Nat /\ size(k.block_id) \in Nat
           /\ offset[k.block_id] <= size(k.block_id)
<1> DEFINE b == k.block_id
<1>1. b \in BlockIds /\ \E n \in Nat : GoesOn(b, k, n)
    BY RunsAlone
<1>2. PICK n \in Nat : GoesOn(b, k, n)
    BY <1>1
<1>3. /\ size(b) \in Nat
      /\ n * FullSize(b) \in Nat /\ (n + 1) * FullSize(b) \in Nat
      /\ n = 0 => n * FullSize(b) = 0
    <2>1. b \in BlockIds /\ FullSize(b) \in Nat
        BY <1>1, FullSegment
    <2>2. size(b) \in Nat /\ n * FullSize(b) \in Nat /\ (n + 1) * FullSize(b) \in Nat
        BY <2>1, BlockTypes, NextFull
    <2>3. n = 0 => n * FullSize(b) = 0
        BY <2>1
    <2> QED
        BY <2>2, <2>3
<1>4. offset[b] \in Nat /\ offset[b] <= size(b)
    <2>1. \/ offset[b] = n * FullSize(b) /\ (Amid(b, n) \/ n = 0)
          \/ offset[b] = (n + 1) * FullSize(b) /\ Amid(b, n + 1)
        BY <1>2 DEF GoesOn, Doing, Final
    <2> QED
        BY <1>3, <2>1 DEF Amid
<1>5. Phase(k.kind) \in 1..4
    BY DEF Phase
<1> QED
    BY <1>3, <1>4, <1>5 DEF StepsLeft

\* Each step ends a handler, and puts at most one in its place, which is nearer
\* to the end of its chain; the other chains are as far from theirs as before.
\* So a reader does not read for ever, whatever the sizes of its block and of the
\* segments.
THEOREM ChainsAreFinite ==
    Spec => [][\E k \in tasks :
                   /\ StepsLeft(k) \in Nat
                   /\ \/ tasks' = tasks \ {k}
                      \/ \E l : /\ tasks' = (tasks \ {k}) \cup {l}
                                /\ StepsLeft(l)' \in 0..(StepsLeft(k) - 1)
                   /\ \A l \in tasks \ {k} : StepsLeft(l)' = StepsLeft(l)]_vars
<1> DEFINE Nearer(k) ==
        /\ StepsLeft(k) \in Nat
        /\ \/ tasks' = tasks \ {k}
           \/ \E l : /\ tasks' = (tasks \ {k}) \cup {l}
                     /\ StepsLeft(l)' \in 0..(StepsLeft(k) - 1)
        /\ \A l \in tasks \ {k} : StepsLeft(l)' = StepsLeft(l)
<1>1. ASSUME IInv, NEW k \in tasks, offset' = offset
      PROVE  \A l : StepsLeft(l)' = StepsLeft(l)
    BY <1>1 DEF StepsLeft
<1>2. ASSUME IInv, NEW b \in BlockIds, DoRead(b)
      PROVE  \E k \in tasks : Nearer(k)
    <2> DEFINE k == DoReadTask(b)
    <2>0. PICK next : next = NextRead(b)
        OBVIOUS
    <2>1. k \in tasks /\ k.block_id = b /\ k.kind = "do_read"
        BY <1>2 DEF DoRead, DoReadTask, Task
    <2>2. /\ tasks' = (tasks \ {k}) \cup {next}
          /\ offset' = [offset EXCEPT ![b] = IF next.kind = "read_segment"
                                             THEN offset[b] + FullSize(b) ELSE offset[b]]
        BY <1>2, <2>0 DEF DoRead, AdvanceOffset
    <2>3. offset \in [BlockIds -> Nat]
        BY <1>2 DEF IInv, TypeOK
    <2>4. /\ StepsLeft(k) \in Nat /\ offset[b] \in Nat /\ size(b) \in Nat
          /\ offset[b] <= size(b) /\ FullSize(b) \in Nat \ {0} /\ SegmentHint \in Nat
        BY <1>2, <2>1, StepsLeftType, FullSegment, BlockTypes
    <2>5. StepsLeft(k) = 4 * (size(b) - offset[b]) + 2
        BY <2>1 DEF StepsLeft, Phase
    <2>6. next.block_id = b
        BY <2>0 DEF NextRead, Task
    <2>7. StepsLeft(next)' \in 0..(StepsLeft(k) - 1)
        <3>1. CASE size(b) > SegmentHint /\ size(b) - offset[b] > FullSize(b)
            <4>1. next.kind = "read_segment"
                BY <2>0, <2>4, <3>1 DEF NextRead, Task, size
            <4>2. offset'[b] = offset[b] + FullSize(b)
                BY <2>2, <2>3, <4>1
            <4>3. StepsLeft(next)' = 4 * (size(b) - (offset[b] + FullSize(b))) + 4
                BY <2>6, <4>1, <4>2 DEF StepsLeft, Phase, size, GetBlock
            <4> QED
                BY <2>4, <2>5, <3>1, <4>3
        <3>2. CASE ~(size(b) > SegmentHint /\ size(b) - offset[b] > FullSize(b))
            <4>1. next.kind \in {"read_entire_block", "read_tail"}
                BY <2>0, <2>4, <3>2 DEF NextRead, Task, size
            <4>2. offset'[b] = offset[b]
                BY <2>2, <2>3, <4>1
            <4>3. StepsLeft(next)' = 4 * (size(b) - offset[b]) + 1
                BY <2>6, <4>1, <4>2 DEF StepsLeft, Phase, size, GetBlock
            <4> QED
                BY <2>4, <2>5, <4>3
        <3> QED
            BY <3>1, <3>2
    <2>8. ASSUME NEW l \in tasks \ {k} PROVE StepsLeft(l)' = StepsLeft(l)
        <3>1. PICK n \in Nat : GoesOn(b, k, n)
            BY <1>2, <2>1, RunsAlone
        <3>2. l.block_id # b
            BY <2>8, <3>1 DEF GoesOn, TasksOf
        <3>3. l.block_id \in BlockIds
            BY <1>2, <2>8, RunsAlone
        <3>4. offset'[l.block_id] = offset[l.block_id]
            BY <2>2, <2>3, <3>2, <3>3
        <3> QED
            BY <3>4 DEF StepsLeft
    <2> HIDE DEF k
    <2> QED
        BY <2>1, <2>2, <2>4, <2>7, <2>8
<1>3. ASSUME IInv, NEW k \in tasks, RunTask(k)
      PROVE  Nearer(k)
    <2>1. offset' = offset
        BY <1>3 DEF RunTask, ReadLast, ReadSegment, Repost, ReadFails
    <2>2. /\ StepsLeft(k) \in Nat
          /\ 4 * (size(k.block_id) - offset[k.block_id]) \in Nat
        BY <1>3, StepsLeftType
    <2>3. CASE ReadLast(k) \/ ReadFails(k)
        BY <1>1, <1>3, <2>1, <2>2, <2>3 DEF ReadLast, ReadFails
    <2>4. CASE ReadSegment(k)
        <3> DEFINE l == Task("repost", k.block_id, 0)
        <3>1. StepsLeft(l) = 4 * (size(k.block_id) - offset[k.block_id]) + 3
            BY DEF Task, StepsLeft, Phase
        <3>2. StepsLeft(k) = 4 * (size(k.block_id) - offset[k.block_id]) + 4
            BY <2>4 DEF ReadSegment, StepsLeft, Phase
        <3>3. tasks' = (tasks \ {k}) \cup {l}
            BY <2>4 DEF ReadSegment
        <3> HIDE DEF l
        <3>4. StepsLeft(l)' \in 0..(StepsLeft(k) - 1)
            BY <1>1, <1>3, <2>1, <2>2, <3>1, <3>2
        <3> QED
            BY <1>1, <1>3, <2>1, <2>2, <3>3, <3>4
    <2>5. CASE Repost(k)
        <3> DEFINE l == DoReadTask(k.block_id)
        <3>1. StepsLeft(l) = 4 * (size(k.block_id) - offset[k.block_id]) + 2
            BY DEF DoReadTask, Task, StepsLeft, Phase
        <3>2. StepsLeft(k) = 4 * (size(k.block_id) - offset[k.block_id]) + 3
            BY <2>5 DEF Repost, StepsLeft, Phase
        <3>3. tasks' = (tasks \ {k}) \cup {l}
            BY <2>5 DEF Repost
        <3> HIDE DEF l
        <3>4. StepsLeft(l)' \in 0..(StepsLeft(k) - 1)
            BY <1>1, <1>3, <2>1, <2>2, <3>1, <3>2
        <3> QED
            BY <1>1, <1>3, <2>1, <2>2, <3>3, <3>4
    <2> QED
        BY <1>3, <2>3, <2>4, <2>5 DEF RunTask
<1>4. IInv /\ [Next]_vars => [\E k \in tasks : Nearer(k)]_vars
    <2> HIDE DEF Nearer
    <2> QED
        BY <1>2, <1>3 DEF Next, AllEnded
<1> QED
    BY <1>4, IInvHolds, PTL DEF Spec

=============================================================================
