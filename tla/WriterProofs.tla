----------------------------- MODULE WriterProofs -----------------------------
(***************************************************************************)
(* Proofs about Writer for every division of a file into segments.         *)
(***************************************************************************)
EXTENDS Writer, FiniteSetTheorems, SequenceTheorems, TLAPS

-----------------------------------------------------------------------------
(* Lemmas about the flat_map *)

\* Every non-empty set of naturals has a least element.
LEMMA LeastNatural ==
    ASSUME NEW T \in SUBSET Nat, T # {}
    PROVE  \E m \in T : \A k \in T : m <= k
<1>1. \E m \in T : \A k \in T : <<k, m>> \notin OpToRel(<, Nat)
  BY WFMin, NatLessThanWellFounded
<1>2. PICK m \in T : \A k \in T : <<k, m>> \notin OpToRel(<, Nat)
  BY <1>1
<1>3. \A k \in T : m <= k
  <2>1. TAKE k \in T
  <2>2. ~(k < m)
    BY <1>2 DEF OpToRel
  <2> QED
    BY <2>2
<1> QED
  BY <1>3

\* In any sequence there is a first entry whose key is not less than that of s,
\* or the end: std::lower_bound always answers with a position to insert at.
LEMMA LowerBoundExists ==
    ASSUME NEW S, NEW entries \in Seq(S), NEW s
    PROVE  /\ LowerBound(entries, s) \in 1..(Len(entries) + 1)
           /\ \A j \in 1..(LowerBound(entries, s) - 1) : KeyLess(entries[j], s)
           /\ LowerBound(entries, s) <= Len(entries)
                => ~KeyLess(entries[LowerBound(entries, s)], s)
<1> DEFINE Stop(i) == i <= Len(entries) => ~KeyLess(entries[i], s)
           T == {i \in 1..(Len(entries) + 1) : Stop(i)}
<1>1. Len(entries) \in Nat
  BY LenProperties
<1>2. Len(entries) + 1 \in T
  BY <1>1
<1>3. T \in SUBSET Nat /\ T # {}
  BY <1>1, <1>2
<1>4. PICK m \in T : \A k \in T : m <= k
  <2> HIDE DEF T
  <2> QED
    BY <1>3, LeastNatural
<1>5. \A j \in 1..(m - 1) : KeyLess(entries[j], s)
  <2>1. TAKE j \in 1..(m - 1)
  <2>2. j \in 1..(Len(entries) + 1) /\ j <= Len(entries) /\ j < m
    BY <1>1, <1>4, <2>1
  <2>3. j \notin T
    BY <1>4, <2>2
  <2> QED
    BY <2>2, <2>3
<1>6. \E i \in 1..(Len(entries) + 1) :
          /\ \A j \in 1..(i - 1) : KeyLess(entries[j], s)
          /\ i <= Len(entries) => ~KeyLess(entries[i], s)
  BY <1>4, <1>5
<1> QED
  BY <1>6 DEF LowerBound

\* Inserting shifts what follows and disturbs nothing else.
LEMMA InsertAtElements ==
    ASSUME NEW S, NEW entries \in Seq(S), NEW e \in S,
           NEW at \in 1..(Len(entries) + 1)
    PROVE  /\ InsertAt(entries, at, e) \in Seq(S)
           /\ Len(InsertAt(entries, at, e)) = Len(entries) + 1
           /\ \A i \in 1..(Len(entries) + 1) :
                  InsertAt(entries, at, e)[i] =
                      IF i < at THEN entries[i] ELSE IF i = at THEN e ELSE entries[i - 1]
<1> DEFINE front == SubSeq(entries, 1, at - 1)
           back == SubSeq(entries, at, Len(entries))
           left == front \o <<e>>
<1>1. Len(entries) \in Nat /\ \A i \in 1..Len(entries) : entries[i] \in S
  BY LenProperties, ElementOfSeq
<1>2. /\ front \in Seq(S)
      /\ Len(front) = at - 1
      /\ \A i \in 1..(at - 1) : front[i] = entries[i]
  <2>1. \A i \in 1..(at - 1) : entries[i] \in S
    BY <1>1
  <2>2. /\ front \in Seq(S)
        /\ Len(front) = IF 1 <= at - 1 THEN (at - 1) - 1 + 1 ELSE 0
        /\ \A i \in 1..((at - 1) - 1 + 1) : front[i] = entries[1 + i - 1]
    <3> at - 1 \in Int /\ 1 \in Int
      OBVIOUS
    <3> QED
      BY <2>1, SubSeqProperties
  <2>3. Len(front) = at - 1
    BY <2>2, <1>1
  <2>4. \A i \in 1..(at - 1) : front[i] = entries[i]
    BY <2>2, <1>1
  <2> QED
    BY <2>2, <2>3, <2>4
<1>3. /\ back \in Seq(S)
      /\ Len(back) = Len(entries) - at + 1
      /\ \A i \in 1..(Len(entries) - at + 1) : back[i] = entries[at + i - 1]
  <2>1. \A i \in at..Len(entries) : entries[i] \in S
    BY <1>1
  <2>2. /\ back \in Seq(S)
        /\ Len(back) = IF at <= Len(entries) THEN Len(entries) - at + 1 ELSE 0
        /\ \A i \in 1..(Len(entries) - at + 1) : back[i] = entries[at + i - 1]
    BY <1>1, <2>1, SubSeqProperties
  <2>3. Len(back) = Len(entries) - at + 1
    BY <1>1, <2>2
  <2> QED
    BY <2>2, <2>3
<1>4. <<e>> \in Seq(S) /\ Len(<<e>>) = 1 /\ <<e>>[1] = e
  OBVIOUS
<1>5. /\ left \in Seq(S)
      /\ Len(left) = at
      /\ \A i \in 1..at : left[i] = IF i <= at - 1 THEN front[i] ELSE <<e>>[i - (at - 1)]
  <2> HIDE DEF front
  <2>1. /\ left \in Seq(S)
        /\ Len(left) = Len(front) + Len(<<e>>)
        /\ \A i \in 1..(Len(front) + Len(<<e>>)) :
               left[i] = IF i <= Len(front) THEN front[i] ELSE <<e>>[i - Len(front)]
    BY <1>2, <1>4, ConcatProperties
  <2> QED
    BY <1>1, <1>2, <1>4, <2>1
<1>6. /\ left \o back \in Seq(S)
      /\ Len(left \o back) = Len(entries) + 1
      /\ \A i \in 1..(Len(entries) + 1) :
             (left \o back)[i] = IF i <= at THEN left[i] ELSE back[i - at]
  <2> HIDE DEF left, back
  <2>1. /\ left \o back \in Seq(S)
        /\ Len(left \o back) = Len(left) + Len(back)
        /\ \A i \in 1..(Len(left) + Len(back)) :
               (left \o back)[i] = IF i <= Len(left) THEN left[i] ELSE back[i - Len(left)]
    BY <1>3, <1>5, ConcatProperties
  <2>2. Len(left) + Len(back) = Len(entries) + 1
    BY <1>1, <1>3, <1>5
  <2> QED
    BY <1>5, <2>1, <2>2
<1>7. ASSUME NEW i \in 1..(Len(entries) + 1)
      PROVE  (left \o back)[i] =
                 IF i < at THEN entries[i] ELSE IF i = at THEN e ELSE entries[i - 1]
  <2> HIDE DEF left, back, front
  <2>1. CASE i < at
    <3>1. i \in 1..at /\ i <= at /\ i <= at - 1 /\ i \in 1..(at - 1)
      BY <1>1, <2>1
    <3>2. (left \o back)[i] = left[i]
      BY <1>6, <3>1
    <3>3. left[i] = front[i]
      BY <1>5, <3>1
    <3>4. front[i] = entries[i]
      BY <1>2, <3>1
    <3> QED
      BY <2>1, <3>2, <3>3, <3>4
  <2>2. CASE i = at
    <3>1. i <= at /\ at \in 1..at /\ ~(at <= at - 1) /\ at - (at - 1) = 1 /\ ~(i < at)
      BY <1>1, <2>2
    <3>2. (left \o back)[i] = left[at]
      BY <1>6, <2>2, <3>1
    <3>3. left[at] = <<e>>[at - (at - 1)]
      BY <1>5, <3>1
    <3>4. <<e>>[at - (at - 1)] = e
      BY <1>4, <3>1
    <3> QED
      BY <2>2, <3>1, <3>2, <3>3, <3>4
  <2>3. CASE i > at
    <3>1. /\ ~(i <= at) /\ ~(i < at) /\ i # at
          /\ i - at \in 1..(Len(entries) - at + 1)
          /\ at + (i - at) - 1 = i - 1
      BY <1>1, <2>3
    <3>2. (left \o back)[i] = back[i - at]
      BY <1>6, <3>1
    <3>3. back[i - at] = entries[at + (i - at) - 1]
      BY <1>3, <3>1
    <3> QED
      BY <3>1, <3>2, <3>3
  <2>4. i < at \/ i = at \/ i > at
    BY <1>1
  <2> QED
    BY <2>1, <2>2, <2>3, <2>4
<1>8. InsertAt(entries, at, e) = left \o back
  BY DEF InsertAt
<1> HIDE DEF left, back
<1> QED
  BY <1>6, <1>7, <1>8

Sorted(entries) ==
    \A i, j \in 1..Len(entries) : i < j => KeyLess(entries[i], entries[j])

\* Keys are compared like pairs of numbers.
LEMMA KeyOrder ==
    /\ \A s, u, v \in HashedSegment : KeyLess(s, u) /\ KeyLess(u, v) => KeyLess(s, v)
    /\ \A s \in HashedSegment : ~KeyLess(s, s)
  BY DEF HashedSegment, KeyLess

\* Storing a planned segment that is not stored yet puts it, and nothing else,
\* into the map, which stays sorted, and it is the entry found for its key.
LEMMA EmplaceNew ==
    ASSUME NEW entries \in Seq(Planned), Sorted(entries),
           NEW s \in Planned, s \notin Range(entries)
    PROVE  /\ Emplace(entries, s) \in Seq(Planned)
           /\ Sorted(Emplace(entries, s))
           /\ Range(Emplace(entries, s)) = Range(entries) \cup {s}
           /\ Emplace(entries, s)[LowerBound(entries, s)] = s
           /\ ~HasKey(entries, s)
<1> DEFINE at == LowerBound(entries, s)
           new == InsertAt(entries, at, s)
<1>1. /\ at \in 1..(Len(entries) + 1)
      /\ \A j \in 1..(at - 1) : KeyLess(entries[j], s)
      /\ at <= Len(entries) => ~KeyLess(entries[at], s)
  BY LowerBoundExists
<1>2. /\ Len(entries) \in Nat
      /\ \A i \in 1..Len(entries) : entries[i] \in Planned
      /\ Range(entries) = {entries[i] : i \in 1..Len(entries)}
  BY LenProperties, ElementOfSeq, RangeEquality
<1>3. \A i \in 1..Len(entries) : entries[i] # s /\ ~SameKey(s, entries[i])
  BY <1>2, WriterInputs
<1> HIDE DEF at
<1>4. at <= Len(entries) => KeyLess(s, entries[at])
  BY <1>1, <1>2, <1>3 DEF SameKey
<1>5. ~HasKey(entries, s)
  BY <1>4 DEF HasKey, at
<1>6. Emplace(entries, s) = new
  BY <1>5 DEF Emplace, at
<1>7. /\ new \in Seq(Planned)
      /\ Len(new) = Len(entries) + 1
      /\ \A i \in 1..(Len(entries) + 1) :
             new[i] = IF i < at THEN entries[i] ELSE IF i = at THEN s ELSE entries[i - 1]
  BY <1>1, InsertAtElements
<1> HIDE DEF new
<1>8. Sorted(new)
  <2>1. SUFFICES ASSUME NEW i \in 1..(Len(entries) + 1), NEW j \in 1..(Len(entries) + 1), i < j
                 PROVE  KeyLess(new[i], new[j])
    BY <1>7 DEF Sorted
  <2>2. \A k \in 1..Len(entries) : entries[k] \in HashedSegment
    BY <1>2, WriterInputs
  <2>3. CASE j < at
    <3>1. new[i] = entries[i] /\ new[j] = entries[j] /\ i \in 1..Len(entries) /\ j \in 1..Len(entries)
      BY <1>1, <1>2, <1>7, <2>1, <2>3
    <3> QED
      BY <2>1, <3>1 DEF Sorted
  <2>4. CASE j = at
    <3>1. new[i] = entries[i] /\ new[j] = s /\ i \in 1..(at - 1)
      BY <1>1, <1>2, <1>7, <2>1, <2>4
    <3> QED
      BY <1>1, <3>1
  <2>5. CASE j > at /\ i < at
    <3>1. /\ new[i] = entries[i] /\ new[j] = entries[j - 1]
          /\ i \in 1..Len(entries) /\ j - 1 \in 1..Len(entries) /\ i < j - 1
      BY <1>1, <1>2, <1>7, <2>1, <2>5
    <3> QED
      BY <3>1 DEF Sorted
  <2>6. CASE j > at /\ i = at
    <3>1. /\ new[i] = s /\ new[j] = entries[j - 1]
          /\ at \in 1..Len(entries) /\ j - 1 \in 1..Len(entries) /\ at <= j - 1
      BY <1>1, <1>2, <1>7, <2>1, <2>6
    <3>2. KeyLess(s, entries[at])
      BY <1>4, <3>1
    <3>3. CASE at = j - 1
      BY <3>1, <3>2, <3>3
    <3>4. CASE at < j - 1
      <4>1. KeyLess(entries[at], entries[j - 1])
        BY <3>1, <3>4 DEF Sorted
      <4>2. s \in HashedSegment /\ entries[at] \in HashedSegment /\ entries[j - 1] \in HashedSegment
        BY <2>2, <3>1, WriterInputs
      <4> QED
        BY <3>1, <3>2, <4>1, <4>2, KeyOrder
    <3> QED
      BY <1>1, <3>1, <3>3, <3>4
  <2>7. CASE j > at /\ i > at
    <3>1. /\ new[i] = entries[i - 1] /\ new[j] = entries[j - 1]
          /\ i - 1 \in 1..Len(entries) /\ j - 1 \in 1..Len(entries) /\ i - 1 < j - 1
      BY <1>1, <1>2, <1>7, <2>1, <2>7
    <3> QED
      BY <3>1 DEF Sorted
  <2>8. j < at \/ j = at \/ (j > at /\ (i < at \/ i = at \/ i > at))
    BY <1>1, <1>2
  <2> QED
    BY <2>3, <2>4, <2>5, <2>6, <2>7, <2>8
<1>9. new[at] = s
  BY <1>1, <1>2, <1>7
<1>10. Range(new) = Range(entries) \cup {s}
  <2>1. Range(new) = {new[i] : i \in 1..(Len(entries) + 1)}
    BY <1>7, RangeEquality
  <2>2. ASSUME NEW i \in 1..(Len(entries) + 1)
        PROVE  new[i] \in Range(entries) \cup {s}
    <3>1. CASE i < at
      <4>1. i \in 1..Len(entries) /\ new[i] = entries[i]
        BY <1>1, <1>2, <1>7, <3>1
      <4> QED
        BY <1>2, <4>1
    <3>2. CASE i = at
      BY <1>9, <3>2
    <3>3. CASE i > at
      <4>1. i - 1 \in 1..Len(entries) /\ new[i] = entries[i - 1]
        BY <1>1, <1>2, <1>7, <3>3
      <4> QED
        BY <1>2, <4>1
    <3>4. i < at \/ i = at \/ i > at
      BY <1>1, <1>2
    <3> QED
      BY <3>1, <3>2, <3>3, <3>4
  <2>3. ASSUME NEW i \in 1..Len(entries)
        PROVE  entries[i] \in Range(new)
    <3>1. CASE i < at
      <4>1. i \in 1..(Len(entries) + 1) /\ new[i] = entries[i]
        BY <1>1, <1>2, <1>7, <3>1
      <4> QED
        BY <2>1, <4>1
    <3>2. CASE i >= at
      <4>1. i + 1 \in 1..(Len(entries) + 1) /\ new[i + 1] = entries[(i + 1) - 1]
        BY <1>1, <1>2, <1>7, <3>2
      <4>2. (i + 1) - 1 = i
        BY <1>2
      <4> QED
        BY <2>1, <4>1, <4>2
    <3>3. i < at \/ i >= at
      BY <1>1, <1>2
    <3> QED
      BY <3>1, <3>2, <3>3
  <2>4. s \in Range(new)
    BY <1>1, <1>9, <2>1
  <2> QED
    BY <1>2, <2>1, <2>2, <2>3, <2>4
<1> QED
  BY <1>5, <1>6, <1>7, <1>8, <1>9, <1>10 DEF at

-----------------------------------------------------------------------------
(* Lemmas about the count *)

\* A file has finitely many whole chunks.
LEMMA FullChunksFinite == IsFiniteSet(FullChunks)
<1> DEFINE part(b) == {b} \X (0..(ChunksCount(GetBlock(b)) - 1))
<1>1. \A b \in BlockIds : IsFiniteSet(part(b))
  <2>1. TAKE b \in BlockIds
  <2>2. IsFiniteSet({b})
    BY FS_Singleton
  <2>3. IsFiniteSet(0..(ChunksCount(GetBlock(b)) - 1))
    BY FS_Interval, WriterInputs
  <2> QED
    BY <2>2, <2>3, FS_Product
<1>2. IsFiniteSet(0..(Len(Storage) - 1))
  BY FS_Interval, WriterInputs
<1> DEFINE parts == {part(b) : b \in BlockIds}
<1>3. IsFiniteSet(parts)
  <2> DEFINE partOf == [b \in BlockIds |-> part(b)]
  <2>1. partOf \in Surjection(BlockIds, parts)
    BY DEF Surjection
  <2> QED
    BY <1>2, <2>1, FS_Surjection DEF BlockIds, ExistsSurjection
<1>4. \A p \in parts : IsFiniteSet(p)
  BY <1>1
<1>5. FullChunks = UNION parts
  BY DEF FullChunks
<1> HIDE DEF parts
<1> QED
  BY <1>3, <1>4, <1>5, FS_UNION

\* A planned segment stands for chunk_count chunks.
LEMMA ChunksCounted ==
    ASSUME NEW s \in Planned
    PROVE  IsFiniteSet(ChunksOf(s)) /\ Cardinality(ChunksOf(s)) = s.chunk_count
<1>1. s.first_chunk_id \in Nat /\ s.chunk_count \in Nat
  BY WriterInputs DEF HashedSegment
<1>2. IsFiniteSet({s.block_id}) /\ Cardinality({s.block_id}) = 1
  BY FS_Singleton
<1>3. IsFiniteSet(ChunkIds(s)) /\ Cardinality(ChunkIds(s)) = s.chunk_count
  <2> DEFINE first == s.first_chunk_id
             end == s.first_chunk_id + s.chunk_count - 1
  <2>1. /\ IsFiniteSet(first..end)
        /\ Cardinality(first..end) = IF first > end THEN 0 ELSE end - first + 1
    <3>1. first \in Int /\ end \in Int
      BY <1>1
    <3> HIDE DEF first, end
    <3> QED
      BY <3>1, FS_Interval
  <2> QED
    BY <1>1, <2>1 DEF ChunkIds
<1>4. Cardinality({s.block_id} \X ChunkIds(s)) = 1 * s.chunk_count
  BY <1>2, <1>3, FS_Product
<1>5. IsFiniteSet({s.block_id} \X ChunkIds(s))
  BY <1>2, <1>3, FS_Product
<1> QED
  BY <1>1, <1>4, <1>5 DEF ChunksOf

\* The whole chunks that a set of segments stands for.
ChunksOfAll(S) == UNION {ChunksOf(s) : s \in S}

\* One more segment adds its chunk_count to the number of chunks.
LEMMA ChunksAdd ==
    ASSUME NEW S \in SUBSET Planned, NEW s \in Planned, s \notin S
    PROVE  /\ IsFiniteSet(ChunksOfAll(S))
           /\ ChunksOfAll(S \cup {s}) \subseteq FullChunks
           /\ Cardinality(ChunksOfAll(S \cup {s})) = Cardinality(ChunksOfAll(S)) + s.chunk_count
<1>1. ChunksOfAll(S) \subseteq FullChunks /\ ChunksOf(s) \subseteq FullChunks
  BY WriterInputs DEF ChunksOfAll
<1>2. IsFiniteSet(ChunksOfAll(S))
  BY <1>1, FullChunksFinite, FS_Subset
<1>3. ChunksOfAll(S \cup {s}) = ChunksOfAll(S) \cup ChunksOf(s)
  BY DEF ChunksOfAll
<1>4. ChunksOfAll(S) \cap ChunksOf(s) = {}
  BY WriterInputs DEF ChunksOfAll
<1>5. /\ Cardinality(ChunksOfAll(S) \cup ChunksOf(s)) =
             Cardinality(ChunksOfAll(S)) + Cardinality(ChunksOf(s)) - Cardinality({})
  BY <1>2, <1>4, ChunksCounted, FS_Union
<1>6. Cardinality(ChunksOfAll(S)) \in Nat /\ s.chunk_count \in Nat /\ Cardinality({}) = 0
  BY <1>2, FS_CardinalityType, FS_EmptySet, WriterInputs DEF HashedSegment
<1>7. Cardinality(ChunksOf(s)) = s.chunk_count
  BY ChunksCounted
<1>8. Cardinality(ChunksOfAll(S \cup {s})) = Cardinality(ChunksOfAll(S)) + s.chunk_count
  <2>1. Cardinality(ChunksOfAll(S \cup {s})) = Cardinality(ChunksOfAll(S) \cup ChunksOf(s))
    BY <1>3
  <2>2. Cardinality(ChunksOfAll(S)) + Cardinality(ChunksOf(s)) - Cardinality({})
            = Cardinality(ChunksOfAll(S)) + s.chunk_count
    BY <1>6, <1>7
  <2> QED
    BY <1>5, <2>1, <2>2
<1> QED
  BY <1>1, <1>2, <1>3, <1>8

-----------------------------------------------------------------------------
(* The inductive invariant *)

\* A segment is handed over once: it waits at one place, and is not stored yet.
DeliveredOnce ==
    /\ \A i, j \in 1..Len(inbox) : i # j => inbox[i] # inbox[j]
    /\ Range(inbox) \cap Range(segments) = {}

\* The stream is open until the first report.
ReportsMatchStream == stream = "open" <=> results = <<>>

\* The count is complete from the first report on.
CountStaysComplete == results # <<>> => chunks_count = chunks_total

IInv ==
    /\ TypeOK
    /\ DeliveredOnce
    /\ SortedAndCounted
    /\ ReportsMatchStream
    /\ CountStaysComplete
    /\ CompleteOnSuccess

LEMMA EmptyRange == Range(<<>>) = {}
<1>1. <<>> \in Seq({}) /\ Len(<<>>) = 0
  BY EmptySeq
<1>2. Range(<<>>) = {<<>>[i] : i \in 1..Len(<<>>)}
  BY <1>1, RangeEquality
<1> QED
  BY <1>1, <1>2

\* The invariant holds at the start.
LEMMA InitIInv == Init => IInv
<1> SUFFICES ASSUME Init PROVE IInv
  OBVIOUS
<1> USE DEF Init
<1>1. /\ <<>> \in Seq(Planned) /\ <<>> \in Seq({"success", "error"})
      /\ Len(<<>>) = 0 /\ Range(<<>>) = {}
  BY EmptySeq, EmptyRange
<1>2. TypeOK
  BY <1>1 DEF TypeOK
<1>3. DeliveredOnce
  BY <1>1 DEF DeliveredOnce
<1>4. SortedAndCounted
  <2>1. UNION {ChunksOf(s) : s \in Range(segments)} = {}
    BY <1>1
  <2> QED
    BY <1>1, <2>1, FS_EmptySet DEF SortedAndCounted
<1>5. ReportsMatchStream /\ CountStaysComplete
  BY DEF ReportsMatchStream, CountStaysComplete
<1>6. CompleteOnSuccess
  BY <1>1 DEF CompleteOnSuccess
<1> QED
  BY <1>2, <1>3, <1>4, <1>5, <1>6 DEF IInv

\* Handing a segment over touches nothing but the queue.
LEMMA DeliverIInv ==
    ASSUME IInv, NEW s \in Undelivered, Deliver(s)
    PROVE  IInv'
<1> USE DEF IInv
<1>1. s \in Planned /\ s \notin Range(inbox) /\ s \notin Range(segments)
  BY DEF Undelivered
<1>2. inbox \in Seq(Planned) /\ Len(inbox) \in Nat
  BY LenProperties DEF TypeOK
<1>3. /\ inbox' \in Seq(Planned)
      /\ Len(inbox') = Len(inbox) + 1
      /\ \A i \in 1..Len(inbox) : inbox'[i] = inbox[i]
      /\ inbox'[Len(inbox) + 1] = s
  BY <1>1, <1>2, AppendProperties DEF Deliver
<1>4. TypeOK'
  BY <1>3 DEF TypeOK, Deliver
<1>5. \A i \in 1..Len(inbox) : inbox[i] \in Range(inbox)
  BY <1>2, RangeEquality
<1>6. DeliveredOnce'
  <2>1. \A i, j \in 1..(Len(inbox) + 1) : i # j => inbox'[i] # inbox'[j]
    <3>1. TAKE i, j \in 1..(Len(inbox) + 1)
    <3>2. CASE i \in 1..Len(inbox) /\ j \in 1..Len(inbox)
      BY <1>3, <3>2 DEF DeliveredOnce
    <3>3. CASE i = Len(inbox) + 1 /\ j \in 1..Len(inbox)
      BY <1>1, <1>3, <1>5, <3>3
    <3>4. CASE i \in 1..Len(inbox) /\ j = Len(inbox) + 1
      BY <1>1, <1>3, <1>5, <3>4
    <3>5. i \in 1..Len(inbox) \/ i = Len(inbox) + 1
      BY <1>2
    <3>6. j \in 1..Len(inbox) \/ j = Len(inbox) + 1
      BY <1>2
    <3> QED
      BY <3>2, <3>3, <3>4, <3>5, <3>6
  <2>2. \A e \in Range(inbox') : e \in Range(inbox) \/ e = s
    <3>1. Range(inbox') = {inbox'[i] : i \in 1..(Len(inbox) + 1)}
      BY <1>3, RangeEquality
    <3>2. \A i \in 1..(Len(inbox) + 1) : i \in 1..Len(inbox) \/ i = Len(inbox) + 1
      BY <1>2
    <3> QED
      BY <1>3, <1>5, <3>1, <3>2
  <2>3. Range(inbox') \cap Range(segments) = {}
    BY <1>1, <2>2 DEF DeliveredOnce
  <2> QED
    BY <1>3, <2>1, <2>3 DEF DeliveredOnce, Deliver
<1>7. SortedAndCounted' /\ ReportsMatchStream' /\ CountStaysComplete' /\ CompleteOnSuccess'
  BY DEF Deliver, SortedAndCounted, ReportsMatchStream, CountStaysComplete, CompleteOnSuccess
<1> QED
  BY <1>4, <1>6, <1>7

\* What every handler of the strand does before it looks at the count.
LEMMA HandleStores ==
    ASSUME IInv, Handle
    PROVE  /\ inbox' \in Seq(Planned)
           /\ segments' \in Seq(Planned)
           /\ Head(inbox) \in Planned
           /\ chunks_count' = chunks_count + Head(inbox).chunk_count
           /\ chunks_count' \in Nat
           /\ chunks_count' <= chunks_total
           /\ DeliveredOnce'
           /\ SortedAndCounted'
           /\ Head(inbox) \in Range(inbox) /\ Head(inbox) \notin Range(segments)
           /\ Range(inbox') \subseteq Range(inbox) \ {Head(inbox)}
           /\ Range(segments') = Range(segments) \cup {Head(inbox)}
<1> DEFINE s == Head(inbox)
<1> USE DEF IInv
<1>1. /\ inbox \in Seq(Planned) /\ inbox # <<>> /\ Len(inbox) \in Nat \ {0}
      /\ segments \in Seq(Planned) /\ chunks_count \in Nat
  BY EmptySeq DEF TypeOK, Handle
<1>2. /\ s \in Planned /\ s = inbox[1]
      /\ inbox' = Tail(inbox)
      /\ inbox' \in Seq(Planned) /\ Len(inbox') = Len(inbox) - 1
      /\ \A i \in 1..Len(inbox') : inbox'[i] = inbox[i + 1]
  <2>1. inbox' = Tail(inbox)
    BY DEF Handle
  <2>2. s = inbox[1]
    BY <1>1
  <2> HIDE DEF s
  <2> QED
    BY <1>1, <2>1, <2>2, HeadTailProperties, ElementOfSeq
<1>3. Range(inbox) = {inbox[i] : i \in 1..Len(inbox)}
  BY <1>1, RangeEquality
<1>4. s \in Range(inbox) /\ s \notin Range(segments)
  BY <1>1, <1>2, <1>3 DEF DeliveredOnce
<1>5. Store(s)
  BY DEF Handle
<1> HIDE DEF s
<1>6. Sorted(segments)
  BY DEF SortedAndCounted, Sorted
<1>7. /\ segments' \in Seq(Planned)
      /\ Sorted(segments')
      /\ Range(segments') = Range(segments) \cup {s}
      /\ segments'[LowerBound(segments, s)] = s
  <2>1. segments' = Emplace(segments, s)
    BY <1>5 DEF Store
  <2> QED
    BY <1>1, <1>2, <1>4, <1>6, <2>1, EmplaceNew
<1>8. chunks_count' = chunks_count + s.chunk_count /\ s.chunk_count \in Nat
  BY <1>2, <1>5, <1>7, WriterInputs DEF Store, HashedSegment
<1>9. DeliveredOnce' /\ Range(inbox') \subseteq Range(inbox) \ {s}
  <2>1. \A i, j \in 1..Len(inbox') : i # j => inbox'[i] # inbox'[j]
    <3>1. TAKE i, j \in 1..Len(inbox')
    <3>2. i + 1 \in 1..Len(inbox) /\ j + 1 \in 1..Len(inbox) /\ (i # j => i + 1 # j + 1)
      BY <1>1, <1>2
    <3> QED
      BY <1>2, <3>2 DEF DeliveredOnce
  <2>2. Range(inbox') \subseteq Range(inbox) \ {s}
    <3>1. Range(inbox') = {inbox'[i] : i \in 1..Len(inbox')}
      <4>1. inbox' \in Seq(Planned)
        BY <1>2
      <4> QED
        BY <4>1, RangeEquality
    <3>2. \A i \in 1..Len(inbox') : inbox'[i] \in Range(inbox) /\ inbox'[i] # s
      <4>1. TAKE i \in 1..Len(inbox')
      <4>2. i + 1 \in 1..Len(inbox) /\ 1 \in 1..Len(inbox) /\ i + 1 # 1
        BY <1>1, <1>2
      <4> QED
        BY <1>2, <1>3, <4>2 DEF DeliveredOnce
    <3> QED
      BY <3>1, <3>2
  <2> QED
    BY <1>7, <2>1, <2>2 DEF DeliveredOnce
<1>10. Range(segments) \in SUBSET Planned
  BY <1>1, RangeOfSeq
<1>11. chunks_count = Cardinality(ChunksOfAll(Range(segments)))
  BY DEF SortedAndCounted, ChunksOfAll
<1>12. /\ ChunksOfAll(Range(segments')) \subseteq FullChunks
       /\ chunks_count' = Cardinality(ChunksOfAll(Range(segments')))
  <2>1. /\ ChunksOfAll(Range(segments) \cup {s}) \subseteq FullChunks
        /\ Cardinality(ChunksOfAll(Range(segments) \cup {s}))
               = Cardinality(ChunksOfAll(Range(segments))) + s.chunk_count
    BY <1>2, <1>4, <1>10, ChunksAdd
  <2> QED
    BY <1>7, <1>8, <1>11, <2>1
<1>13. SortedAndCounted'
  BY <1>7, <1>12 DEF SortedAndCounted, Sorted, ChunksOfAll
<1>14. chunks_count' \in Nat
  BY <1>1, <1>8
<1>15. chunks_count' <= chunks_total
  BY <1>12, FullChunksFinite, FS_Subset DEF chunks_total
<1> QED
  BY <1>2, <1>4, <1>7, <1>8, <1>9, <1>13, <1>14, <1>15 DEF s

\* What it finds: the map does not have the segment's key yet.
LEMMA HeadIsNew ==
    ASSUME IInv, inbox # <<>>
    PROVE  ~HasKey(segments, Head(inbox))
<1> DEFINE s == Head(inbox)
<1>1. /\ inbox \in Seq(Planned) /\ segments \in Seq(Planned)
      /\ Sorted(segments) /\ DeliveredOnce
  BY DEF IInv, TypeOK, SortedAndCounted, Sorted
<1>2. s = inbox[1] /\ 1 \in 1..Len(inbox)
  BY <1>1, EmptySeq
<1> HIDE DEF s
<1>3. s \in Planned /\ s \in Range(inbox)
  BY <1>1, <1>2, ElementOfSeq, RangeEquality
<1>4. s \notin Range(segments)
  BY <1>1, <1>3 DEF DeliveredOnce
<1>5. ~HasKey(segments, s)
  BY <1>1, <1>3, <1>4, EmplaceNew
<1> QED
  BY <1>5 DEF s

\* Appending a report keeps the earlier ones.
LEMMA ReportAppended ==
    ASSUME NEW log \in Seq({"success", "error"}), NEW report \in {"success", "error"}
    PROVE  /\ Append(log, report) \in Seq({"success", "error"})
           /\ Append(log, report) # <<>>
           /\ Range(Append(log, report)) = Range(log) \cup {report}
           /\ Last(Append(log, report)) = report
<1>1. /\ Append(log, report) \in Seq({"success", "error"})
      /\ Append(log, report) # <<>>
      /\ Len(Append(log, report)) = Len(log) + 1
      /\ \A i \in 1..Len(log) : Append(log, report)[i] = log[i]
      /\ Append(log, report)[Len(log) + 1] = report
  BY AppendProperties
<1>2. Len(log) \in Nat
  BY LenProperties
<1>3. Range(log) = {log[i] : i \in 1..Len(log)}
  BY RangeEquality
<1>4. Range(Append(log, report)) = {Append(log, report)[i] : i \in 1..(Len(log) + 1)}
  BY <1>1, RangeEquality
<1>5. \A i \in 1..(Len(log) + 1) : i \in 1..Len(log) \/ i = Len(log) + 1
  BY <1>2
<1>6. 1..Len(log) \subseteq 1..(Len(log) + 1) /\ Len(log) + 1 \in 1..(Len(log) + 1)
  BY <1>2
<1>7. Range(Append(log, report)) = Range(log) \cup {report}
  BY <1>1, <1>3, <1>4, <1>5, <1>6
<1> QED
  BY <1>1, <1>7 DEF Last

\* The strand's handlers keep the invariant.
LEMMA HandleIInv ==
    ASSUME IInv, Handle
    PROVE  IInv'
<1> USE DEF IInv
<1>1. /\ inbox' \in Seq(Planned)
      /\ segments' \in Seq(Planned)
      /\ chunks_count' \in Nat
      /\ DeliveredOnce' /\ SortedAndCounted'
  BY HandleStores
<1>2. /\ stream \in {"open", "closed", "bad"}
      /\ output \in Seq(Planned)
      /\ results \in Seq({"success", "error"})
  BY DEF TypeOK
<1>3. CASE Collect
  <2>1. results = <<>> /\ UNCHANGED <<stream, output, results>>
    <3>1. Head(inbox).chunk_count \in Nat /\ chunks_count \in Nat
      BY HandleStores, WriterInputs DEF HashedSegment, TypeOK
    <3>2. chunks_count = chunks_total => chunks_count' = chunks_total
      BY <3>1, HandleStores
    <3> QED
      BY <1>3, <3>2 DEF Collect, CountStaysComplete
  <2>2. TypeOK'
    BY <1>1, <1>2, <2>1 DEF TypeOK
  <2>3. ReportsMatchStream' /\ CountStaysComplete' /\ CompleteOnSuccess'
    BY <2>1 DEF ReportsMatchStream, CountStaysComplete, CompleteOnSuccess
  <2> QED
    BY <1>1, <2>2, <2>3
<1>4. CASE WriteAll
  <2>1. /\ results' \in Seq({"success", "error"}) /\ results' # <<>>
        /\ stream' = "closed" /\ output' = segments' /\ chunks_count' = chunks_total
    BY <1>2, <1>4, ReportAppended DEF WriteAll
  <2>2. TypeOK'
    BY <1>1, <2>1 DEF TypeOK
  <2>3. ReportsMatchStream' /\ CountStaysComplete'
    BY <2>1 DEF ReportsMatchStream, CountStaysComplete
  <2>4. UNION {ChunksOf(s) : s \in Range(segments')} = FullChunks
    <3>1. Range(segments') \in SUBSET Planned
      BY <1>1, RangeOfSeq
    <3>2. ChunksOfAll(Range(segments')) \subseteq FullChunks
      BY <3>1, WriterInputs DEF ChunksOfAll
    <3>3. Cardinality(FullChunks) = Cardinality(ChunksOfAll(Range(segments')))
      BY <1>1, <2>1 DEF SortedAndCounted, ChunksOfAll, chunks_total
    <3>4. FullChunks = ChunksOfAll(Range(segments'))
      BY <3>2, <3>3, FullChunksFinite, FS_Subset
    <3> QED
      BY <3>4 DEF ChunksOfAll
  <2>5. CompleteOnSuccess'
    BY <1>1, <2>1, <2>4 DEF CompleteOnSuccess, SortedAndCounted
  <2> QED
    BY <1>1, <2>2, <2>3, <2>5
<1>5. CASE WriteFails
  <2>1. results = <<>>
    BY <1>5 DEF WriteFails, ReportsMatchStream
  <2>2. /\ results' \in Seq({"success", "error"}) /\ results' # <<>>
        /\ Range(results') = Range(results) \cup {"error"}
        /\ stream' = "bad" /\ chunks_count' = chunks_total
    BY <1>2, <1>5, ReportAppended DEF WriteFails
  <2>3. output' \in Seq(Planned)
    <3>1. PICK k \in 0..Len(segments') : output' = SubSeq(segments', 1, k)
      BY <1>5 DEF WriteFails
    <3>2. Len(segments') \in Nat /\ \A i \in 1..Len(segments') : segments'[i] \in Planned
      BY <1>1, LenProperties, ElementOfSeq
    <3>3. \A i \in 1..k : segments'[i] \in Planned
      BY <3>2
    <3> QED
      BY <3>1, <3>3, SubSeqProperties
  <2>4. TypeOK'
    BY <1>1, <2>2, <2>3 DEF TypeOK
  <2>5. ReportsMatchStream' /\ CountStaysComplete'
    BY <2>2 DEF ReportsMatchStream, CountStaysComplete
  <2>6. CompleteOnSuccess'
    <3> QED
      BY <2>1, <2>2, EmptyRange DEF CompleteOnSuccess
  <2> QED
    BY <1>1, <2>4, <2>5, <2>6
<1>6. CASE WriteAgain
  <2>1. /\ results' \in Seq({"success", "error"}) /\ results' # <<>>
        /\ Range(results') = Range(results) \cup {"error"}
        /\ stream' = "bad" /\ chunks_count' = chunks_total /\ output' = output
    BY <1>2, <1>6, ReportAppended DEF WriteAgain
  <2>2. TypeOK'
    BY <1>1, <1>2, <2>1 DEF TypeOK
  <2>3. ReportsMatchStream' /\ CountStaysComplete' /\ CompleteOnSuccess'
    BY <2>1 DEF ReportsMatchStream, CountStaysComplete, CompleteOnSuccess
  <2> QED
    BY <1>1, <2>2, <2>3
<1> QED
  BY <1>3, <1>4, <1>5, <1>6 DEF Handle

\* The invariant is inductive.
LEMMA NextIInv == IInv /\ [Next]_vars => IInv'
<1> SUFFICES ASSUME IInv, [Next]_vars PROVE IInv'
  OBVIOUS
<1>1. CASE \E s \in Undelivered : Deliver(s)
  BY <1>1, DeliverIInv
<1>2. CASE Handle
  BY <1>2, HandleIInv
<1>3. CASE UNCHANGED vars
  BY <1>3 DEF vars, IInv, TypeOK, DeliveredOnce, SortedAndCounted, ReportsMatchStream,
              CountStaysComplete, CompleteOnSuccess
<1> QED
  BY <1>1, <1>2, <1>3 DEF Next, AllHandled

-----------------------------------------------------------------------------
(* Theorems *)

\* What the segments have in common is what Writer's invariants need.
LEMMA SpecIInv == Spec => []IInv
<1>1. Init => IInv
  BY InitIInv
<1>2. IInv /\ [Next]_vars => IInv'
  BY NextIInv
<1> QED
  BY <1>1, <1>2, PTL DEF Spec

\* What a handler of the strand reports: the first report goes with the write, and
\* a later one is an error that a bare tail causes.
LEMMA HandleReports ==
    ASSUME IInv, Handle
    PROVE  \/ results' = results /\ output' = output
           \/ /\ results = <<>> /\ results' = Append(results, "success")
              /\ output' = segments'
           \/ results = <<>> /\ results' = Append(results, "error")
           \/ /\ results # <<>> /\ results' = Append(results, "error")
              /\ output' = output /\ Head(inbox).chunk_count = 0
<1>1. stream = "open" <=> results = <<>>
  BY DEF IInv, ReportsMatchStream
<1>2. CASE Collect
  BY <1>2 DEF Collect
<1>3. CASE WriteAll \/ WriteFails
  BY <1>1, <1>3 DEF WriteAll, WriteFails
<1>4. CASE WriteAgain
  <2>1. results # <<>> /\ results' = Append(results, "error") /\ output' = output
    BY <1>1, <1>4 DEF WriteAgain
  <2>2. chunks_count = chunks_total /\ chunks_count' = chunks_total /\ chunks_count \in Nat
    BY <1>4, <2>1 DEF WriteAgain, IInv, CountStaysComplete, TypeOK
  <2>3. /\ Head(inbox).chunk_count \in Nat
        /\ chunks_count' = chunks_count + Head(inbox).chunk_count
    BY HandleStores, WriterInputs DEF HashedSegment
  <2> QED
    BY <2>1, <2>2, <2>3
<1> QED
  BY <1>2, <1>3, <1>4 DEF Handle

LEMMA MissingIsBare == IInv => OnlyBareTailMissing
<1>1. SUFFICES ASSUME IInv, "success" \in Range(results),
                      NEW s \in Planned, s \notin Range(output)
               PROVE  s.chunk_count = 0
  BY DEF OnlyBareTailMissing
<1>2. Range(output) \in SUBSET Planned
  BY <1>1, RangeOfSeq DEF IInv, TypeOK
<1>3. ChunksOf(s) \subseteq UNION {ChunksOf(u) : u \in Range(output)}
  BY <1>1, WriterInputs DEF IInv, CompleteOnSuccess
<1>4. \A u \in Range(output) : ChunksOf(s) \cap ChunksOf(u) = {}
  BY <1>1, <1>2, WriterInputs
<1>5. ChunksOf(s) = {}
  BY <1>3, <1>4
<1>6. Cardinality(ChunksOf(s)) = s.chunk_count
  BY ChunksCounted
<1> QED
  BY <1>5, <1>6, FS_EmptySet

\* Type correctness of the writer.
THEOREM TypeCorrect == Spec => []TypeOK
<1>1. IInv => TypeOK
  BY DEF IInv
<1> QED
  BY <1>1, SpecIInv, PTL

\* The flat_map is sorted and chunks_count counts what is in it, always.
THEOREM CountIsRight == Spec => []SortedAndCounted
<1>1. IInv => SortedAndCounted
  BY DEF IInv
<1> QED
  BY <1>1, SpecIInv, PTL

\* A reported success means that every whole chunk's hash is in the file, and
\* in the order of the chunks.
THEOREM SuccessIsComplete == Spec => []CompleteOnSuccess
<1>1. IInv => CompleteOnSuccess
  BY DEF IInv
<1> QED
  BY <1>1, SpecIInv, PTL

\* What a success can leave out is a bare tail.
THEOREM SuccessMissesBareTail == Spec => []OnlyBareTailMissing
BY MissingIsBare, SpecIInv, PTL

\* No handler changes the file after the first report, late ones included.
THEOREM OutputIsFinal == Spec => WrittenOnce
<1>1. IInv /\ [Next]_vars => [results # <<>> => output' = output]_vars
  <2>1. SUFFICES ASSUME IInv, [Next]_vars, results # <<>>
                 PROVE  output' = output
    OBVIOUS
  <2>2. stream # "open"
    BY <2>1 DEF IInv, ReportsMatchStream
  <2>3. CASE \E s \in Undelivered : Deliver(s)
    BY <2>3 DEF Deliver
  <2>4. CASE Handle
    BY <2>2, <2>4 DEF Handle, Collect, WriteAll, WriteFails, WriteAgain
  <2>5. CASE UNCHANGED vars
    BY <2>5 DEF vars
  <2> QED
    BY <2>1, <2>3, <2>4, <2>5 DEF Next, AllHandled
<1> QED
  BY <1>1, SpecIInv, PTL DEF Spec, WrittenOnce

\* A report after the first one is an error that a bare tail causes.
THEOREM LateReports == Spec => LateReportsAreErrors
<1> DEFINE Late == results # <<>> /\ results' # results
                       => Head(inbox).chunk_count = 0 /\ Last(results') = "error"
<1>1. IInv /\ [Next]_vars => [Late]_vars
  <2>1. SUFFICES ASSUME IInv, [Next]_vars, results # <<>>, results' # results
                 PROVE  Head(inbox).chunk_count = 0 /\ Last(results') = "error"
    OBVIOUS
  <2>2. Handle
    BY <2>1 DEF Next, Deliver, AllHandled, vars
  <2>3. Head(inbox).chunk_count = 0 /\ results' = Append(results, "error")
    BY <2>1, <2>2, HandleReports
  <2>4. results \in Seq({"success", "error"})
    BY <2>1 DEF IInv, TypeOK
  <2> QED
    BY <2>3, <2>4, ReportAppended
<1> QED
  BY <1>1, SpecIInv, PTL DEF Spec, LateReportsAreErrors

=============================================================================
