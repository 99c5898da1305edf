----------------------------- MODULE BlockReader -----------------------------
(***************************************************************************)
(* block_reader_t (src/v2/block_reader.cpp), one per block.  A reader is a *)
(* chain of handlers posted to the io_context: do_read runs on the         *)
(* reader's strand and posts a read to the pool; the read hands its        *)
(* segment to the callback and, unless it was the last one, posts do_read  *)
(* again.  `tasks' holds the handlers that are posted or running; any of   *)
(* them may make the next step.                                            *)
(*                                                                         *)
(* read(2) is external: it returns the bytes between the descriptor's      *)
(* position and the end of the file, at most as many as asked for, and     *)
(* moves the position; or it fails.                                        *)
(***************************************************************************)
EXTENDS Blocks, FiniteSets

VARIABLES
    offset,     \* member offset of each reader
    position,   \* file position of each reader's descriptor
    tasks,      \* handlers posted or running
    emitted,    \* segments handed to the callback
    failed      \* blocks whose callback got an error

vars == <<offset, position, tasks, emitted, failed>>

BlockIds == 0..(Len(Storage) - 1)
GetBlock(b) == Storage[b + 1]

\* A handler of reader b.  `at' is what its lambda captures: the offset for
\* a segment, the number of bytes for the others.
Task(kind, b, at) == [kind |-> kind, block_id |-> b, at |-> at]
DoReadTask(b) == Task("do_read", b, 0)

FullSize(b) == SegmentSize(GetBlock(b), SegmentHint)

\* Mutants: full segments are read while a full one is left; and a full segment
\* is numbered after the offset has moved.
NextReadWhileFull(b) ==
    LET size == GetBlock(b).size
        rest == size - offset[b]
    IN  CASE size <= SegmentHint -> Task("read_entire_block", b, size)
          [] size > SegmentHint /\ rest >= FullSize(b) ->
                 Task("read_segment", b, offset[b])
          [] OTHER -> Task("read_tail", b, rest)

NextReadLateOffset(b) ==
    LET size == GetBlock(b).size
        rest == size - offset[b]
    IN  CASE size <= SegmentHint -> Task("read_entire_block", b, size)
          [] size > SegmentHint /\ rest > FullSize(b) ->
                 Task("read_segment", b, offset[b] + FullSize(b))
          [] OTHER -> Task("read_tail", b, rest)

\* The read that do_read chooses.
NextRead(b) ==
    LET size == GetBlock(b).size
        rest == size - offset[b]
    IN  CASE size <= SegmentHint -> Task("read_entire_block", b, size)
          [] size > SegmentHint /\ rest > FullSize(b) ->
                 Task("read_segment", b, offset[b])
          [] OTHER -> Task("read_tail", b, rest)

\* read_segment moves the offset before it posts the read.
AdvanceOffset(b) ==
    offset' = [offset EXCEPT ![b] =
                  IF NextRead(b).kind = "read_segment" THEN @ + FullSize(b) ELSE @]

\* The segment a successful read builds.  The tail's first chunk comes from
\* the member, when the read runs; the others' from what was captured.
SegmentRead(task) ==
    LET b == task.block_id
        block == GetBlock(b)
        part(size, start) == Segment(block, size \div block.chunk_size,
                                     size % block.chunk_size,
                                     start \div block.chunk_size, position[b])
    IN  CASE task.kind = "read_entire_block" -> part(block.size, 0)
          [] task.kind = "read_segment" -> part(FullSize(b), task.at)
          [] task.kind = "read_tail" -> part(task.at, offset[b])

\* How far read(2) moves the position.
AdvancePosition(task) ==
    LET b == task.block_id
        asked == IF task.kind = "read_segment" THEN FullSize(b) ELSE task.at
        left == FileSize - position[b]
    IN  position' = [position EXCEPT ![b] = @ + (IF asked <= left THEN asked ELSE left)]

-----------------------------------------------------------------------------

\* operator(): every reader posts do_read to its strand.
Init ==
    /\ offset = [b \in BlockIds |-> 0]
    /\ position = [b \in BlockIds |-> 0]
    /\ tasks = {DoReadTask(b) : b \in BlockIds}
    /\ emitted = {}
    /\ failed = {}

DoRead(b) ==
    /\ DoReadTask(b) \in tasks
    /\ tasks' = (tasks \ {DoReadTask(b)}) \cup {NextRead(b)}
    /\ AdvanceOffset(b)
    /\ UNCHANGED <<position, emitted, failed>>

\* The read of a whole block or of its last segment: nothing follows it.
ReadLast(task) ==
    /\ task.kind \in {"read_entire_block", "read_tail"}
    /\ emitted' = emitted \cup {SegmentRead(task)}
    /\ AdvancePosition(task)
    /\ tasks' = tasks \ {task}
    /\ UNCHANGED <<offset, failed>>

\* The read of a full segment: the callback gets it ...
ReadSegment(task) ==
    /\ task.kind = "read_segment"
    /\ emitted' = emitted \cup {SegmentRead(task)}
    /\ AdvancePosition(task)
    /\ tasks' = (tasks \ {task}) \cup {Task("repost", task.block_id, 0)}
    /\ UNCHANGED <<offset, failed>>

\* ... and then the same handler posts do_read to the strand.
Repost(task) ==
    /\ task.kind = "repost"
    /\ tasks' = (tasks \ {task}) \cup {DoReadTask(task.block_id)}
    /\ UNCHANGED <<offset, position, emitted, failed>>

\* read(2) returns -1: the callback gets the error and the chain ends.
ReadFails(task) ==
    /\ ReadMayFail
    /\ task.kind \in {"read_entire_block", "read_segment", "read_tail"}
    /\ failed' = failed \cup {task.block_id}
    /\ tasks' = tasks \ {task}
    /\ UNCHANGED <<offset, position, emitted>>

RunTask(task) == ReadLast(task) \/ ReadSegment(task) \/ Repost(task) \/ ReadFails(task)

\* Every chain has ended.
AllEnded == tasks = {} /\ UNCHANGED vars

Next ==
    \/ \E b \in BlockIds : DoRead(b)
    \/ \E task \in tasks : RunTask(task)
    \/ AllEnded

Spec == Init /\ [][Next]_vars

-----------------------------------------------------------------------------
(* Properties *)

TaskKinds == {"do_read", "read_entire_block", "read_segment", "read_tail", "repost"}

\* Type invariant of the readers.
TypeOK ==
    /\ offset \in [BlockIds -> Nat]
    /\ position \in [BlockIds -> 0..FileSize]
    /\ tasks \subseteq [kind : TaskKinds, block_id : BlockIds, at : Nat]
    /\ emitted \subseteq [block_id : BlockIds, chunk_count : Nat, tail_size : Nat,
                          first_chunk_id : Nat, from : 0..FileSize]
    /\ failed \subseteq BlockIds

\* A reader never has two handlers in flight.  Its offset and its descriptor
\* are used by handlers of the strand and of the pool alike; this is all that
\* keeps them from racing.
OneTaskPerReader ==
    \A k, l \in tasks : k.block_id = l.block_id => k = l

\* The descriptor stands where the segment about to be read begins, and every
\* segment was read from where its first chunk lies, counted from the first
\* byte read: the reads of a block are in step with the chunk numbers.
ReadsInStep ==
    /\ \A k \in tasks : k.kind = "read_segment" => position[k.block_id] = k.at
    /\ \A s \in emitted : s.from = s.first_chunk_id * GetBlock(s.block_id).chunk_size

\* The segments emitted for a block are always part of its plan, and once its
\* chain has ended without an error they are the whole plan: chunks are
\* neither skipped nor read twice, and the last segment has the rest.
ReadsThePlan ==
    \A b \in BlockIds :
        LET mine == {s \in emitted : s.block_id = b}
            ended == b \notin failed /\ \A k \in tasks : k.block_id # b
        IN  /\ mine \subseteq PlanOf(GetBlock(b), SegmentHint)
            /\ ended => mine = PlanOf(GetBlock(b), SegmentHint)

\* What a block's segments add up to: their whole chunks are the block's
\* chunks, each once, and at most one of them, the last, has a remainder.
ChunksAddUp ==
    \A b \in BlockIds :
        LET mine == {s \in emitted : s.block_id = b}
        IN  /\ \A s, u \in mine : s # u => ChunkIds(s) \cap ChunkIds(u) = {}
            /\ (b \notin failed /\ \A k \in tasks : k.block_id # b) =>
                   /\ UNION {ChunkIds(s) : s \in mine} = 0..(ChunksCount(GetBlock(b)) - 1)
                   /\ \A s \in mine : s.tail_size \in {0, TailSize(GetBlock(b))}
                   /\ Cardinality({s \in mine : s.tail_size > 0})
                        = (IF TailSize(GetBlock(b)) > 0 THEN 1 ELSE 0)

\* A block that has bytes keeps the assertion do_read begins with: do_read is
\* posted again only while something of the block is left.
LeftUnlessEmpty ==
    \A b \in BlockIds :
        DoReadTask(b) \in tasks /\ GetBlock(b).size > 0 => offset[b] < GetBlock(b).size

-----------------------------------------------------------------------------
(* What the code and the documentation say and the code does not do. *)

\* The assertion do_read begins with: whenever it runs, something is left of its
\* block.  An empty block has nothing to begin with.
SomethingIsLeft ==
    [][\A b \in BlockIds : DoRead(b) => offset[b] < GetBlock(b).size]_vars

\* README.md, V2: it is the block that is read in segments.  A segment of a
\* block would then hold the bytes of that block.
ReadsItsBlock ==
    \A s \in emitted :
        LET block == GetBlock(s.block_id)
        IN  s.from = block.offset + s.first_chunk_id * block.chunk_size

=============================================================================
