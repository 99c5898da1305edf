-------------------------------- MODULE Writer --------------------------------
(***************************************************************************)
(* writer_t (src/v2/writer.cpp): collects the hashed segments of all       *)
(* blocks in a flat_map ordered by block and first chunk, counts their     *)
(* whole chunks, and when the count reaches the number of chunks of the    *)
(* file writes everything and reports the outcome to a callback.           *)
(*                                                                         *)
(* Segments are handed over by any thread; the handlers that take them run *)
(* one at a time, in order, on the writer's strand: `inbox' is its queue.  *)
(* The stream is external: it throws when a write fails, and when it is    *)
(* written to after it was closed or went bad.                             *)
(***************************************************************************)
EXTENDS SegmentPlan, FiniteSets, SequencesExt

CONSTANTS
    Storage,         \* the blocks of the file, as block_file_t stores them
    Planned,         \* the hashed segments that may be handed over, once each
    WriteMayFail     \* whether the stream may fail while it is open

BlockIds == 0..(Len(Storage) - 1)
GetBlock(b) == Storage[b + 1]

\* The whole chunks of the file, as pairs of a block and a chunk of it.
FullChunks == UNION {{b} \X (0..(ChunksCount(GetBlock(b)) - 1)) : b \in BlockIds}

\* Member chunks_total: the sum of the chunk counts of the blocks.
chunks_total == Cardinality(FullChunks)

\* The whole chunks a segment stands for.
ChunksOf(s) == {s.block_id} \X ChunkIds(s)

\* key_t::operator<
KeyLess(s, u) ==
    \/ s.block_id < u.block_id
    \/ s.block_id = u.block_id /\ s.first_chunk_id < u.first_chunk_id

SameKey(s, u) == ~KeyLess(s, u) /\ ~KeyLess(u, s)

HashedSegment == [block_id : Nat, first_chunk_id : Nat, chunk_count : Nat,
                  size : Nat, from : Nat]

\* The blocks are finitely many; what is handed over are segments of them,
\* with different keys and no whole chunk in common.  Module BlockReader
\* shows that the readers deliver no others.
ASSUME WriterInputs ==
    /\ \A b \in BlockIds : ChunksCount(GetBlock(b)) \in Nat
    /\ Len(Storage) \in Nat
    /\ Planned \subseteq HashedSegment
    /\ \A s \in Planned : ChunksOf(s) \subseteq FullChunks
    /\ \A s, u \in Planned :
           s # u => ~SameKey(s, u) /\ ChunksOf(s) \cap ChunksOf(u) = {}
    /\ WriteMayFail \in BOOLEAN

VARIABLES
    inbox,           \* handlers waiting on the strand, each with its segment
    segments,        \* member segments: the entries in the order of their keys
    chunks_count,    \* member chunks_count
    stream,          \* state of the output stream
    output,          \* the segments whose hashes reached the file
    results          \* what the callback was called with

vars == <<inbox, segments, chunks_count, stream, output, results>>

-----------------------------------------------------------------------------
(* flat_map *)

\* Position of the first entry whose key is not less.
LowerBound(entries, s) ==
    CHOOSE i \in 1..(Len(entries) + 1) :
        /\ \A j \in 1..(i - 1) : KeyLess(entries[j], s)
        /\ i <= Len(entries) => ~KeyLess(entries[i], s)

HasKey(entries, s) ==
    LET i == LowerBound(entries, s)
    IN  i <= Len(entries) /\ ~KeyLess(s, entries[i])

\* Mutant: a vector instead of a map.
PushBack(entries, s) == Append(entries, s)

\* emplace leaves the map alone when it has the key.
Emplace(entries, s) ==
    IF HasKey(entries, s) THEN entries ELSE InsertAt(entries, LowerBound(entries, s), s)

-----------------------------------------------------------------------------

Init ==
    /\ inbox = <<>>
    /\ segments = <<>>
    /\ chunks_count = 0
    /\ stream = "open"
    /\ output = <<>>
    /\ results = <<>>

\* operator(): a hasher's thread posts the segment to the strand.
Deliver(s) ==
    /\ inbox' = Append(inbox, s)
    /\ UNCHANGED <<segments, chunks_count, stream, output, results>>

\* Mutants: hashes are counted; the count is assigned, not added to.
StoreCountingHashes(s) ==
    /\ segments' = Emplace(segments, s)
    /\ chunks_count' = chunks_count + segments'[LowerBound(segments, s)].size

StoreAssigning(s) ==
    /\ segments' = Emplace(segments, s)
    /\ chunks_count' = segments'[LowerBound(segments, s)].chunk_count

\* The segment is stored, and the chunks of the entry with its key are counted.
Store(s) ==
    /\ segments' = Emplace(segments, s)
    /\ chunks_count' = chunks_count + segments'[LowerBound(segments, s)].chunk_count

\* Chunks are missing still.
Collect ==
    /\ chunks_count' # chunks_total
    /\ UNCHANGED <<stream, output, results>>

\* The count is complete: everything is written, in order.
WriteAll ==
    /\ chunks_count' = chunks_total
    /\ stream = "open"
    /\ output' = segments'
    /\ stream' = "closed"
    /\ results' = Append(results, "success")

\* The stream fails at some point of the write, the flush or the close.  It is not
\* closed then; what its buffer still has may reach the file when it is destroyed,
\* after the outcome was reported.
WriteFails ==
    /\ WriteMayFail
    /\ chunks_count' = chunks_total
    /\ stream = "open"
    /\ \E k \in 0..Len(segments') : output' = SubSeq(segments', 1, k)
    /\ stream' = "bad"
    /\ results' = Append(results, "error")

\* Mutant: the failure is not reported.
WriteSilently ==
    /\ chunks_count' = chunks_total
    /\ stream # "open"
    /\ stream' = "bad"
    /\ results' = Append(results, "success")
    /\ UNCHANGED output

\* The count is complete once more: the stream is closed or bad by now.
WriteAgain ==
    /\ chunks_count' = chunks_total
    /\ stream # "open"
    /\ stream' = "bad"
    /\ results' = Append(results, "error")
    /\ UNCHANGED output

\* One handler of the strand.
Handle ==
    /\ inbox # <<>>
    /\ inbox' = Tail(inbox)
    /\ Store(Head(inbox))
    /\ Collect \/ WriteAll \/ WriteFails \/ WriteAgain

Undelivered == Planned \ (Range(inbox) \cup Range(segments))

\* All the segments have been handed over and taken.
AllHandled == inbox = <<>> /\ Undelivered = {} /\ UNCHANGED vars

Next ==
    \/ \E s \in Undelivered : Deliver(s)
    \/ Handle
    \/ AllHandled

\* Every planned segment is hashed some time, and the strand's queue is served.
Spec == Init /\ [][Next]_vars /\ WF_vars(Next)

-----------------------------------------------------------------------------
(* Properties *)

\* Type invariant of the writer.
TypeOK ==
    /\ inbox \in Seq(Planned)
    /\ segments \in Seq(Planned)
    /\ chunks_count \in Nat
    /\ stream \in {"open", "closed", "bad"}
    /\ output \in Seq(Planned)
    /\ results \in Seq({"success", "error"})

\* The entries of the map are in strictly ascending order of their keys, and
\* chunks_count is the number of different whole chunks they stand for: no
\* order of arrival makes the count run ahead of what is stored.
SortedAndCounted ==
    /\ \A i, j \in 1..Len(segments) : i < j => KeyLess(segments[i], segments[j])
    /\ chunks_count = Cardinality(UNION {ChunksOf(s) : s \in Range(segments)})

\* When the writer has reported success the file has the hash of every whole
\* chunk, in the order of the chunks, and will not change any more.
CompleteOnSuccess ==
    "success" \in Range(results) =>
        /\ UNION {ChunksOf(s) : s \in Range(output)} = FullChunks
        /\ \A i, j \in 1..Len(output) : i < j => KeyLess(output[i], output[j])

\* A planned segment that the file lacks after a success is a bare tail: it has
\* no whole chunk, and the count of chunks cannot tell that it is missing.
OnlyBareTailMissing ==
    "success" \in Range(results) =>
        \A s \in Planned \ Range(output) : s.chunk_count = 0

\* The file is written at one point of time: what it got then stays, whatever is
\* handed over later.  (The stream that a failed write leaves open may still
\* flush when it is destroyed, which is after the last handler.)
WrittenOnce == [][results # <<>> => output' = output]_vars

\* The callback is called again only for a bare tail, and then with an error.
LateReportsAreErrors ==
    [][results # <<>> /\ results' # results =>
           /\ Head(inbox).chunk_count = 0
           /\ Last(results') = "error"]_vars

\* The writer reports, in whatever order the segments arrive.
Reports == <>(results # <<>>)

=============================================================================
