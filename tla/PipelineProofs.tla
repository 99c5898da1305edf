---------------------------- MODULE PipelineProofs ----------------------------
(***************************************************************************)
(* Proofs about Pipeline, for any blocks, any number of threads and any    *)
(* segment hint: the writer's strand, and that Pipeline implements         *)
(* BlockReader, Writer and SignatureJob.                                   *)
(***************************************************************************)
EXTENDS Pipeline, FiniteSetTheorems, SequenceTheorems, TLAPS

-----------------------------------------------------------------------------
(* Control: what is posted and what the threads are at *)

OnStrand(t) == running[t].kind \in {"write", "strand"}

\* Every handler is of some kind, and the writer's are all alike.
Kinds ==
    /\ DOMAIN running = Threads
    /\ \A h \in posted : h.kind \in HandlerKinds
    /\ \A t \in Threads :
           running[t].kind \in HandlerKinds \cup {"strand", "idle", "caught", "gone"}
    /\ \A h \in posted : h.kind = "write" => h = WriteTask
    /\ \A t \in Threads : running[t].kind = "write" => running[t] = WriteTask

\* The writer's strand is in one place at most: in the queue or on a thread; and
\* it is somewhere while segments wait.
StrandOnce ==
    /\ \A t, u \in Threads : OnStrand(t) /\ OnStrand(u) => t = u
    /\ WriteTask \in posted => \A t \in Threads : ~OnStrand(t)
    /\ inbox # <<>> => StrandBusy

Control == Kinds /\ StrandOnce

LEMMA Finishes ==
    ASSUME Kinds, NEW t \in Threads, NEW next, NEW tasks, Finish(t, next, tasks)
    PROVE  /\ DOMAIN running' = Threads
           /\ running'[t] = next
           /\ \A u \in Threads : u # t => running'[u] = running[u]
           /\ posted' = posted \cup tasks
BY DEF Kinds, Finish

LEMMA KindsOfTasks ==
    /\ \A b : Readers!NextRead(b).kind \in ReadKinds
    /\ \A b : Readers!DoReadTask(b).kind = "do_read"
    /\ \A b : Readers!Task("repost", b, 0).kind = "repost"
    /\ \A s : HashTask(s).kind = "hash"
    /\ \A c : ThrowTask(c).kind = "throw"
    /\ WriteTask.kind = "write" /\ StrandHeld.kind = "strand"
    /\ Idle.kind = "idle" /\ Caught.kind = "caught" /\ Gone.kind = "gone"
<1>1. ASSUME NEW b PROVE Readers!NextRead(b).kind \in ReadKinds
    BY DEF Readers!NextRead, Readers!Task, ReadKinds, ReaderKinds
<1> QED
    BY <1>1 DEF Readers!DoReadTask, Readers!Task, HashTask, ThrowTask, WriteTask, StrandHeld,
                Idle, Caught, Gone

LEMMA Busy ==
    ASSUME Kinds
    PROVE  StrandBusy <=> WriteTask \in posted \/ \E t \in Threads : OnStrand(t)
BY KindsOfTasks DEF Kinds, StrandBusy, Handlers, OnStrand, HandlerKinds, ReaderKinds

\* A handler that ends without having to do with the strand.
LEMMA OffStrand ==
    ASSUME Control, NEW t \in Threads, NEW next, NEW tasks, Finish(t, next, tasks),
           ~OnStrand(t), inbox' = inbox,
           next.kind \in (HandlerKinds \cup {"idle", "caught", "gone"}) \ {"write"},
           \A h \in tasks : h.kind \in HandlerKinds \ {"write"}
    PROVE  Control'
<1>1. /\ DOMAIN running' = Threads
      /\ running'[t] = next
      /\ \A u \in Threads : u # t => running'[u] = running[u]
      /\ posted' = posted \cup tasks
    BY Finishes DEF Control
<1>2. Kinds'
    BY <1>1 DEF Control, Kinds, Threads, HandlerKinds, ReaderKinds
<1>3. \A u \in Threads : OnStrand(u)' <=> OnStrand(u)
    BY <1>1 DEF OnStrand, HandlerKinds, ReaderKinds
<1>4. WriteTask \in posted' <=> WriteTask \in posted
    BY <1>1, KindsOfTasks
<1>5. StrandBusy' <=> StrandBusy
    <2>1. StrandBusy <=> WriteTask \in posted \/ \E u \in Threads : OnStrand(u)
        BY Busy DEF Control
    <2>2. StrandBusy' <=> WriteTask \in posted' \/ \E u \in Threads : OnStrand(u)'
        BY <1>2, KindsOfTasks
           DEF Kinds, StrandBusy, Handlers, OnStrand, HandlerKinds, ReaderKinds, Threads
    <2> QED
        BY <1>3, <1>4, <2>1, <2>2
<1> QED
    BY <1>2, <1>3, <1>4, <1>5 DEF Control, StrandOnce, Threads

\* Nothing moves.
LEMMA ControlKept ==
    ASSUME Control, UNCHANGED <<posted, running, inbox>>
    PROVE  Control'
BY DEF Control, Kinds, StrandOnce, StrandBusy, Handlers, OnStrand, Threads

LEMMA TakeControl ==
    ASSUME Control, NEW t \in Threads, Take(t)
    PROVE  Control'
<1>1. PICK h \in posted : /\ posted' = posted \ {h}
                          /\ running' = [running EXCEPT ![t] = h]
    BY DEF Take
<1>2. /\ DOMAIN running' = Threads /\ running'[t] = h
      /\ \A u \in Threads : u # t => running'[u] = running[u]
      /\ inbox' = inbox /\ ~OnStrand(t)
    BY <1>1, KindsOfTasks DEF Take, Control, Kinds, OnStrand, writerVars
<1>3. Kinds'
    BY <1>1, <1>2 DEF Control, Kinds, Threads
<1>4. \A u \in Threads : OnStrand(u)' <=> OnStrand(u) \/ (u = t /\ h = WriteTask)
    BY <1>2, KindsOfTasks DEF OnStrand, Control, Kinds, HandlerKinds, ReaderKinds
<1>5. StrandBusy' <=> WriteTask \in posted' \/ \E u \in Threads : OnStrand(u)'
    BY <1>3, KindsOfTasks
       DEF Kinds, StrandBusy, Handlers, OnStrand, HandlerKinds, ReaderKinds, Threads
<1>6. StrandBusy => StrandBusy'
    BY <1>1, <1>4, <1>5, Busy DEF Control
<1> QED
    BY <1>1, <1>2, <1>3, <1>4, <1>6 DEF Control, StrandOnce, Threads

LEMMA HashControl ==
    ASSUME Control, NEW t \in Threads, Hash(t)
    PROVE  Control'
<1>1. /\ DOMAIN running' = Threads /\ running'[t] = Idle
      /\ \A u \in Threads : u # t => running'[u] = running[u]
      /\ posted' = posted \cup (IF StrandBusy THEN {} ELSE {WriteTask})
      /\ ~OnStrand(t)
    BY Finishes DEF Hash, Control, OnStrand
<1>2. Kinds'
    BY <1>1, KindsOfTasks DEF Control, Kinds, Threads, HandlerKinds
<1>3. \A u \in Threads : OnStrand(u)' <=> OnStrand(u)
    BY <1>1, KindsOfTasks DEF OnStrand
<1>4. StrandBusy' <=> WriteTask \in posted' \/ \E u \in Threads : OnStrand(u)'
    BY <1>2, KindsOfTasks
       DEF Kinds, StrandBusy, Handlers, OnStrand, HandlerKinds, ReaderKinds, Threads
<1>5. StrandBusy <=> WriteTask \in posted \/ \E u \in Threads : OnStrand(u)
    BY Busy DEF Control
<1> QED
    BY <1>1, <1>2, <1>3, <1>4, <1>5 DEF Control, StrandOnce, Threads

\* The strand is held: it stays with its thread, or goes back to the queue.
LEMMA StrandControl ==
    ASSUME Control, NEW t \in Threads, OnStrand(t), NEW next, NEW tasks,
           Finish(t, next, tasks),
           \A h \in tasks : h.kind \in HandlerKinds,
           \/ next \in {WriteTask, StrandHeld} /\ WriteTask \notin tasks
           \/ next = Idle /\ tasks = (IF inbox' = <<>> THEN {} ELSE {WriteTask}),
           \A h \in tasks : h.kind = "write" => h = WriteTask
    PROVE  Control'
<1>1. /\ DOMAIN running' = Threads /\ running'[t] = next
      /\ \A u \in Threads : u # t => running'[u] = running[u]
      /\ posted' = posted \cup tasks
    BY Finishes DEF Control
<1>2. Kinds'
    <2>1. /\ next.kind \in HandlerKinds \cup {"strand", "idle"}
          /\ next.kind = "write" => next = WriteTask
        BY KindsOfTasks DEF HandlerKinds
    <2> QED
        BY <1>1, <2>1 DEF Control, Kinds, Threads
<1>3. /\ \A u \in Threads : u # t => ~OnStrand(u)
      /\ WriteTask \notin posted
    BY DEF Control, StrandOnce
<1>4. /\ \A u \in Threads : u # t => ~OnStrand(u)'
      /\ OnStrand(t)' <=> next # Idle
    BY <1>1, <1>3, KindsOfTasks DEF OnStrand
<1>5. StrandBusy' <=> WriteTask \in posted' \/ \E u \in Threads : OnStrand(u)'
    BY <1>2, KindsOfTasks
       DEF Kinds, StrandBusy, Handlers, OnStrand, HandlerKinds, ReaderKinds, Threads
<1>6. next # Idle => WriteTask \notin posted'
    BY <1>1, <1>3, KindsOfTasks
<1>7. inbox' # <<>> => StrandBusy'
    <2>1. CASE next = Idle
        BY <1>1, <1>5, <2>1, KindsOfTasks
    <2>2. CASE next # Idle
        BY <1>4, <1>5, <2>2
    <2> QED
        BY <2>1, <2>2
<1> QED
    BY <1>2, <1>4, <1>6, <1>7 DEF Control, StrandOnce, Threads

LEMMA StepControl == Control /\ [Next]_vars => Control'
<1> SUFFICES ASSUME Control, [Next]_vars PROVE Control'
    OBVIOUS
<1>1. CASE UNCHANGED vars
    BY <1>1, ControlKept DEF vars, writerVars
<1>2. CASE StopContext \/ MainReturns \/ \E t \in Threads : OutOfMemory(t)
    BY <1>2, ControlKept DEF StopContext, MainReturns, OutOfMemory, writerVars
<1>3. ASSUME NEW t \in Threads, Write(t) PROVE Control'
    <2>1. running[t] = WriteTask /\ OnStrand(t)
        BY <1>3, KindsOfTasks DEF Write, OnStrand
    <2> DEFINE error == results' # results /\ Last(results') = "error"
               tasks == IF error THEN {ThrowTask(<<"write", Len(results')>>)} ELSE {}
    <2>2. Finish(t, StrandHeld, tasks)
        BY <1>3 DEF Write
    <2>3. \A h \in tasks : h.kind = "throw"
        BY KindsOfTasks
    <2> HIDE DEF tasks
    <2> QED
        BY <2>1, <2>2, <2>3, StrandControl, KindsOfTasks DEF HandlerKinds
<1>4. ASSUME NEW t \in Threads, NextWrite(t) \/ ReleaseStrand(t) PROVE Control'
    <2>1. OnStrand(t) /\ inbox' = inbox
        BY <1>4, KindsOfTasks DEF NextWrite, ReleaseStrand, OnStrand, writerVars
    <2>2. CASE NextWrite(t)
        BY <2>1, <2>2, StrandControl DEF NextWrite
    <2>3. CASE ReleaseStrand(t)
        <3> DEFINE tasks == IF inbox = <<>> THEN {} ELSE {WriteTask}
        <3>1. Finish(t, Idle, tasks) /\ \A h \in tasks : h = WriteTask /\ h.kind = "write"
            BY <2>3, KindsOfTasks DEF ReleaseStrand
        <3> QED
            BY <2>1, <3>1, StrandControl DEF HandlerKinds
    <2> QED
        BY <1>4, <2>2, <2>3
<1>5. ASSUME NEW t \in Threads, \/ DoRead(t) \/ Read(t) \/ Repost(t) \/ ReadFails(t)
                                \/ Throw(t) \/ Shutdown(t) \/ Leave(t)
      PROVE  Control'
    <2>1. ~OnStrand(t) /\ inbox' = inbox
        BY <1>5, KindsOfTasks
           DEF DoRead, Read, Repost, ReadFails, Throw, Shutdown, Leave, OnStrand, writerVars,
               ReadKinds, ReaderKinds
    <2>2. PICK next, tasks :
              /\ Finish(t, next, tasks)
              /\ next.kind \in {"idle", "caught", "gone", "repost"}
              /\ \A h \in tasks : h.kind \in HandlerKinds \ {"write"}
        <3> DEFINE b == running[t].block_id
                   segment == Readers!SegmentRead(running[t])
                   next == IF running[t].kind # "read_segment" THEN Idle
                           ELSE Readers!Task("repost", b, 0)
        <3>1. CASE DoRead(t)
            BY <3>1, KindsOfTasks DEF DoRead, HandlerKinds, ReaderKinds, ReadKinds
        <3>2. CASE Read(t)
            <4>1. Finish(t, next, {HashTask(segment)})
                BY <3>2 DEF Read
            <4> QED
                BY <4>1, KindsOfTasks DEF HandlerKinds, ReaderKinds
        <3>3. CASE Repost(t)
            BY <3>3, KindsOfTasks DEF Repost, HandlerKinds, ReaderKinds
        <3>4. CASE ReadFails(t)
            BY <3>4, KindsOfTasks DEF ReadFails, HandlerKinds, ReaderKinds
        <3>5. CASE Throw(t) \/ Shutdown(t) \/ Leave(t)
            BY <3>5, KindsOfTasks DEF Throw, Shutdown, Leave
        <3> QED
            BY <1>5, <3>1, <3>2, <3>3, <3>4, <3>5
    <2> QED
        BY <2>1, <2>2, OffStrand DEF HandlerKinds, ReaderKinds
<1> QED
    BY <1>1, <1>2, <1>3, <1>4, <1>5, TakeControl, HashControl DEF Next, ThreadStep, Exited

LEMMA InitControl == Init => Control
<1> SUFFICES ASSUME Init PROVE Control
    OBVIOUS
<1>1. \A t \in Threads : running[t] = Idle
    BY DEF Init
<1>2. \A h \in posted : h.kind = "do_read"
    BY KindsOfTasks DEF Init
<1>3. inbox = <<>>
    BY DEF Init, Signature!Init
<1> QED
    BY <1>1, <1>2, <1>3, KindsOfTasks
       DEF Init, Control, Kinds, StrandOnce, OnStrand, HandlerKinds, ReaderKinds

LEMMA ControlHolds == Spec => []Control
BY InitControl, StepControl, PTL DEF Spec

\* However many threads hand segments over, one at a time works in the writer, and
\* no segment is left waiting with nobody to come for it.
THEOREM StrandWorks == Spec => []StrandIsServed
<1>1. Control => StrandIsServed
    <2> SUFFICES ASSUME Control PROVE StrandIsServed
        OBVIOUS
    <2> DEFINE S == {t \in Threads : OnStrand(t)}
    <2>1. S = {} \/ \E t \in Threads : S = {t}
        BY DEF Control, StrandOnce
    <2> HIDE DEF S
    <2>2. Cardinality(S) <= 1
        <3>1. Cardinality({}) = 0 /\ \A t : Cardinality({t}) = 1
            BY FS_EmptySet, FS_Singleton
        <3> QED
            BY <2>1, <3>1
    <2> QED
        BY <2>2 DEF S, StrandIsServed, OnStrand, Control, StrandOnce
<1> QED
    BY <1>1, ControlHolds, PTL

-----------------------------------------------------------------------------
(* The readers and the writer, with their proofs *)

RP == INSTANCE BlockReaderProofs WITH tasks <- ReaderTasks
WP == INSTANCE WriterProofs

-----------------------------------------------------------------------------
(* The constants *)

BlockType == [block_id : Nat, offset : Nat, size : 0..FileSize, chunk_size : Nat \ {0}]
Plan(b) == PlanOf(Storage[b + 1], SegmentHint)

LEMMA StorageTypes ==
    /\ Len(Storage) \in Nat \ {0}
    /\ \A i \in 1..Len(Storage) : Storage[i] \in BlockType /\ Storage[i].block_id = i - 1
    /\ DOMAIN Storage = 1..Len(Storage)
    /\ \A b \in Threads : b + 1 \in DOMAIN Storage /\ (b + 1) - 1 = b
    /\ \A i \in DOMAIN Storage : i - 1 \in Threads /\ (i - 1) + 1 = i
<1>1. /\ Storage \in Seq(BlockType) /\ Storage # <<>>
      /\ \A i \in DOMAIN Storage : Storage[i].block_id = i - 1
    BY PipelineInputs, ReaderInputs DEF BlockType
<1>2. Len(Storage) \in Nat \ {0} /\ DOMAIN Storage = 1..Len(Storage)
    BY <1>1, EmptySeq, LenProperties
<1>3. \A i \in 1..Len(Storage) : Storage[i] \in BlockType
    BY <1>1, ElementOfSeq
<1> QED
    BY <1>1, <1>2, <1>3 DEF Threads

LEMMA WholeBlocks ==
    \A i \in 1..(Len(Storage) - 1) :
        ChunksCount(Storage[i]) # 0 /\ TailSize(Storage[i]) = 0
<1>1. \A i \in 1..(Len(Storage) - 1) : ChunksCount(Storage[i]) > 0 /\ TailSize(Storage[i]) = 0
    BY PipelineInputs
<1> QED
    BY <1>1

LEMMA ReaderInputsHold == RP!ReaderInputs
<1>1. \A i \in DOMAIN Storage :
          /\ Storage[i].block_id = i - 1
          /\ Storage[i].size \in 0..FileSize
          /\ Storage[i].chunk_size \in Nat \ {0}
    BY StorageTypes DEF BlockType
<1> QED
    BY <1>1, ReaderInputs, PipelineInputs DEF RP!ReaderInputs

LEMMA SamePlans ==
    ASSUME NEW b \in Threads
    PROVE  /\ RP!Plan(b) = Plan(b)
           /\ Readers!GetBlock(b) = Storage[b + 1]
           /\ RP!GetBlock(b) = Storage[b + 1]
           /\ b \in RP!BlockIds
BY DEF RP!Plan, Plan, RP!PlanOf, PlanOf, RP!Segment, Segment, RP!SegmentSize, SegmentSize,
       RP!GetBlock, Readers!GetBlock, RP!BlockIds, Threads

LEMMA PlanFacts ==
    ASSUME NEW b \in Threads
    PROVE  /\ \A s \in Plan(b) :
                  /\ s.block_id = b
                  /\ s.chunk_count \in Nat /\ s.tail_size \in Nat
                  /\ s.first_chunk_id \in Nat /\ s.from \in Nat
                  /\ s = [block_id |-> b, chunk_count |-> s.chunk_count,
                          tail_size |-> s.tail_size, first_chunk_id |-> s.first_chunk_id,
                          from |-> s.from]
           /\ \A s, u \in Plan(b) : s.first_chunk_id = u.first_chunk_id => s = u
<1>1. b \in RP!BlockIds /\ RP!Plan(b) = Plan(b)
    BY SamePlans
<1>2. \A s \in Plan(b) : s \in RP!SegmentType /\ s.block_id = b
    BY <1>1, ReaderInputsHold, RP!PlanTypes
<1>3. \A s, u \in Plan(b) : s.first_chunk_id = u.first_chunk_id => s = u
    BY <1>1, ReaderInputsHold, RP!PlanKeys
<1>4. FileSize \in Nat
    BY ReaderInputs
<1> QED
    BY <1>2, <1>3, <1>4 DEF RP!SegmentType

\* Hashing keeps what the key and the chunks of a segment are made of.
LEMMA HashedKeeps ==
    ASSUME NEW s
    PROVE  /\ Hashed(s).block_id = s.block_id
           /\ Hashed(s).first_chunk_id = s.first_chunk_id
           /\ Hashed(s).chunk_count = s.chunk_count
           /\ Hashed(s).from = s.from
           /\ ChunkIds(Hashed(s)) = ChunkIds(s)
BY DEF Hashed, ChunkIds

\* A planned segment is the hash of one segment.
LEMMA PlannedSegment ==
    ASSUME NEW h \in Planned
    PROVE  /\ h.block_id \in Threads
           /\ \E s \in Plan(h.block_id) : h = Hashed(s)
<1>1. PICK i \in DOMAIN Storage : h \in {Hashed(s) : s \in PlanOf(Storage[i], SegmentHint)}
    BY DEF Planned
<1>2. i - 1 \in Threads /\ (i - 1) + 1 = i
    BY StorageTypes
<1> DEFINE b == i - 1
<1>3. h \in {Hashed(s) : s \in Plan(b)} /\ b \in Threads
    BY <1>1, <1>2 DEF Plan
<1>4. h.block_id = b
    BY <1>3, HashedKeeps, PlanFacts
<1> QED
    BY <1>3, <1>4

LEMMA HashedIsPlanned ==
    ASSUME NEW b \in Threads, NEW s \in Plan(b)
    PROVE  Hashed(s) \in Planned
BY StorageTypes DEF Planned, Plan

LEMMA HashedOnce ==
    ASSUME NEW b \in Threads, NEW s \in Plan(b), NEW c \in Threads, NEW u \in Plan(c),
           Hashed(s).block_id = Hashed(u).block_id,
           Hashed(s).first_chunk_id = Hashed(u).first_chunk_id
    PROVE  s = u
BY HashedKeeps, PlanFacts

LEMMA WriterInputsHold == WP!WriterInputs
<1>1. Len(Storage) \in Nat /\ WriteMayFail \in BOOLEAN
    BY PipelineInputs, StorageTypes
<1>2. \A b \in Threads : ChunksCount(Storage[b + 1]) \in Nat
    <2>1. TAKE b \in Threads
    <2>2. Storage[b + 1].size \in Nat /\ Storage[b + 1].chunk_size \in Nat \ {0}
        BY StorageTypes, ReaderInputs DEF BlockType
    <2> QED
        BY <2>2, RP!DividesNat DEF ChunksCount
<1>3. Planned \subseteq WP!HashedSegment
    <2>1. ASSUME NEW b \in Threads, NEW s \in Plan(b)
          PROVE  Hashed(s) \in WP!HashedSegment
        <3>1. /\ s.block_id \in Nat /\ s.chunk_count \in Nat /\ s.tail_size \in Nat
              /\ s.first_chunk_id \in Nat /\ s.from \in Nat
            BY PlanFacts DEF Threads
        <3> QED
            BY <3>1 DEF Hashed, WP!HashedSegment
    <2> QED
        BY <2>1, PlannedSegment
<1>4. \A b \in Threads :
          /\ \A s, u \in Plan(b) : s # u => ChunkIds(s) \cap ChunkIds(u) = {}
          /\ UNION {ChunkIds(s) : s \in Plan(b)} = 0..(ChunksCount(Storage[b + 1]) - 1)
    <2>1. TAKE b \in Threads
    <2>2. b \in RP!BlockIds /\ RP!Plan(b) = Plan(b) /\ RP!GetBlock(b) = Storage[b + 1]
        BY SamePlans
    <2>3. /\ \A s, u \in Plan(b) : s # u => RP!ChunkIds(s) \cap RP!ChunkIds(u) = {}
          /\ UNION {RP!ChunkIds(s) : s \in Plan(b)} = 0..(RP!ChunksCount(Storage[b + 1]) - 1)
        BY <2>2, ReaderInputsHold, RP!PlanAddsUp
    <2> QED
        BY <2>3 DEF RP!ChunkIds, ChunkIds, RP!ChunksCount, ChunksCount
<1>5. \A h \in Planned : WP!ChunksOf(h) = {h.block_id} \X ChunkIds(h)
    BY DEF WP!ChunksOf, WP!ChunkIds, ChunkIds
<1>6. \A h \in Planned : WP!ChunksOf(h) \subseteq WP!FullChunks
    <2>1. TAKE h \in Planned
    <2> DEFINE b == h.block_id
    <2>2. b \in Threads /\ \E s \in Plan(b) : h = Hashed(s)
        BY PlannedSegment
    <2>3. ChunkIds(h) \subseteq 0..(ChunksCount(Storage[b + 1]) - 1)
        BY <1>4, <2>2, HashedKeeps
    <2>4. {b} \X (0..(ChunksCount(Storage[b + 1]) - 1)) \subseteq WP!FullChunks
        BY <2>2 DEF WP!FullChunks, WP!BlockIds, Threads, WP!GetBlock, WP!ChunksCount, ChunksCount
    <2> QED
        BY <1>5, <2>3, <2>4
<1>7. ASSUME NEW h \in Planned, NEW k \in Planned, h # k
      PROVE  ~WP!SameKey(h, k) /\ WP!ChunksOf(h) \cap WP!ChunksOf(k) = {}
    <2>1. PICK s \in Plan(h.block_id) : h = Hashed(s)
        BY PlannedSegment
    <2>2. PICK u \in Plan(k.block_id) : k = Hashed(u)
        BY PlannedSegment
    <2>3. h.block_id = k.block_id => h.first_chunk_id # k.first_chunk_id
        BY <1>7, <2>1, <2>2, PlannedSegment, HashedOnce
    <2>4. ~WP!SameKey(h, k)
        <3>1. /\ h.block_id \in Nat /\ h.first_chunk_id \in Nat
              /\ k.block_id \in Nat /\ k.first_chunk_id \in Nat
            BY <1>3 DEF WP!HashedSegment
        <3> QED
            BY <2>3, <3>1 DEF WP!SameKey, WP!KeyLess
    <2>5. h.block_id = k.block_id => ChunkIds(h) \cap ChunkIds(k) = {}
        <3>1. SUFFICES ASSUME h.block_id = k.block_id PROVE ChunkIds(h) \cap ChunkIds(k) = {}
            OBVIOUS
        <3>2. s # u /\ h.block_id \in Threads
            BY <1>7, <2>1, <2>2, PlannedSegment
        <3> QED
            BY <1>4, <2>1, <2>2, <3>1, <3>2, HashedKeeps
    <2> QED
        BY <1>5, <2>4, <2>5
<1> QED
    BY <1>1, <1>2, <1>3, <1>6, <1>7
       DEF WP!WriterInputs, WP!BlockIds, Threads, WP!GetBlock, WP!ChunksCount, ChunksCount

-----------------------------------------------------------------------------
(* Where the handlers are *)

\* A handler of a reader or of the hasher is in one place: queued, or on a thread.
Moving == ReaderKinds \cup {"hash"}
InFlight == {h \in Handlers : h.kind \in Moving}

OnePlace ==
    \A t \in Threads :
        running[t].kind \in Moving =>
            /\ running[t] \notin posted
            /\ \A u \in Threads : running[u] = running[t] => u = t

\* What a handler leaves behind when it ends.
LEMMA Moves ==
    ASSUME Kinds, OnePlace, NEW t \in Threads, NEW next, NEW tasks, Finish(t, next, tasks),
           \A h \in tasks \cup {next} : h.kind \in Moving => h \notin InFlight \ {running[t]},
           next.kind \in Moving => next \notin tasks /\ next # running[t],
           running[t].kind \in Moving => running[t] \notin tasks
    PROVE  /\ OnePlace'
           /\ InFlight' = (InFlight \ {running[t]})
                              \cup {h \in tasks \cup {next} : h.kind \in Moving}
<1>1. /\ running'[t] = next
      /\ \A u \in Threads : u # t => running'[u] = running[u]
      /\ posted' = posted \cup tasks
    BY Finishes
<1>2. \A u \in Threads : running[u].kind \in Moving => running[u] \in InFlight
    BY DEF InFlight, Handlers
<1>3. ASSUME NEW u \in Threads, running'[u].kind \in Moving
      PROVE  /\ running'[u] \notin posted'
             /\ \A v \in Threads : running'[v] = running'[u] => v = u
    <2>1. CASE u = t
        <3>1. next \notin InFlight \ {running[t]} /\ next \notin tasks /\ next # running[t]
            BY <1>1, <1>3, <2>1
        <3>2. next \notin posted
            BY <1>1, <1>3, <2>1, <3>1 DEF InFlight, Handlers
        <3>3. \A v \in Threads : v # t => running[v] # next
            BY <1>1, <1>2, <1>3, <2>1, <3>1
        <3> QED
            BY <1>1, <2>1, <3>1, <3>2, <3>3
    <2>2. CASE u # t
        <3>1. running'[u] = running[u] /\ running[u] # running[t] /\ running[u] \in InFlight
            BY <1>1, <1>2, <1>3, <2>2 DEF OnePlace
        <3>2. running[u] \notin tasks /\ running[u] # next
            BY <1>3, <3>1
        <3> QED
            BY <1>1, <1>3, <2>2, <3>1, <3>2 DEF OnePlace
    <2> QED
        BY <2>1, <2>2
<1>4. OnePlace'
    BY <1>3 DEF OnePlace, Threads
<1>5. \A h : h \in InFlight' <=> \/ h \in InFlight \ {running[t]}
                                 \/ h \in tasks \cup {next} /\ h.kind \in Moving
    <2>1. TAKE h
    <2>2. h \in InFlight' <=>
              h.kind \in Moving /\ (h \in posted' \/ \E u \in Threads : h = running'[u])
        BY DEF InFlight, Handlers, Threads
    <2>3. h \in InFlight <=>
              h.kind \in Moving /\ (h \in posted \/ \E u \in Threads : h = running[u])
        BY DEF InFlight, Handlers
    <2>4. h = running[t] /\ h.kind \in Moving =>
              h \notin posted /\ \A u \in Threads : h = running[u] => u = t
        BY DEF OnePlace
    <2> QED
        BY <1>1, <2>2, <2>3, <2>4
<1> QED
    BY <1>4, <1>5

LEMMA TakeMoves ==
    ASSUME Kinds, OnePlace, NEW t \in Threads, Take(t)
    PROVE  OnePlace' /\ InFlight' = InFlight
<1>1. PICK h \in posted : /\ posted' = posted \ {h}
                          /\ running' = [running EXCEPT ![t] = h]
    BY DEF Take
<1>2. /\ running[t] = Idle /\ Idle.kind \notin Moving
      /\ running'[t] = h
      /\ \A u \in Threads : u # t => running'[u] = running[u]
    BY <1>1, KindsOfTasks DEF Take, Kinds, Moving, ReaderKinds
<1>3. OnePlace'
    BY <1>1, <1>2 DEF OnePlace, Threads
<1>4. \A g : g \in InFlight' <=> g \in InFlight
    <2>1. TAKE g
    <2>2. g \in InFlight' <=>
              g.kind \in Moving /\ (g \in posted' \/ \E u \in Threads : g = running'[u])
        BY DEF InFlight, Handlers, Threads
    <2>3. g \in InFlight <=>
              g.kind \in Moving /\ (g \in posted \/ \E u \in Threads : g = running[u])
        BY DEF InFlight, Handlers
    <2> QED
        BY <1>1, <1>2, <2>2, <2>3
<1> QED
    BY <1>3, <1>4

LEMMA NothingMoves ==
    ASSUME OnePlace, UNCHANGED <<posted, running>>
    PROVE  OnePlace' /\ InFlight' = InFlight
BY DEF OnePlace, InFlight, Handlers, Threads

LEMMA ReaderTasksInFlight == ReaderTasks = {h \in InFlight : h.kind \in ReaderKinds}
BY DEF ReaderTasks, InFlight, Moving

-----------------------------------------------------------------------------
(* What is on its way from the readers to the writer *)

\* What has come to the writer.
Arrived == Range(inbox) \cup Range(segments)

\* Every segment on its way to the hasher was read and has not arrived yet; what
\* has arrived was read.
Owed ==
    /\ \A h \in InFlight :
           h.kind = "hash" =>
               /\ h = HashTask(h.segment)
               /\ h.segment \in emitted
               /\ Hashed(h.segment) \notin Arrived
    /\ Arrived \subseteq {Hashed(s) : s \in emitted}

IInv ==
    /\ Control
    /\ OnePlace
    /\ Owed
    /\ RP!IInv
    /\ WP!IInv

LEMMA SameReaders ==
    /\ Readers!Init <=> RP!Init
    /\ Readers!Next <=> RP!Next
    /\ Readers!vars = RP!vars
<1>1. Readers!vars = RP!vars
    BY DEF Readers!vars, RP!vars
<1>2. Readers!Init <=> RP!Init
    BY DEF Readers!Init, RP!Init, Readers!BlockIds, RP!BlockIds, Readers!DoReadTask,
           RP!DoReadTask, Readers!Task, RP!Task
<1>3. Readers!Next <=> RP!Next
    BY DEF Readers!Next, RP!Next, Readers!DoRead, RP!DoRead, Readers!RunTask, RP!RunTask,
           Readers!BlockIds, RP!BlockIds, Readers!AllEnded, RP!AllEnded, Readers!vars,
           RP!vars, Readers!ReadLast, RP!ReadLast, Readers!ReadSegment, RP!ReadSegment,
           Readers!Repost, RP!Repost, Readers!ReadFails, RP!ReadFails, Readers!DoReadTask,
           RP!DoReadTask, Readers!Task, RP!Task, Readers!NextRead, RP!NextRead,
           Readers!AdvanceOffset, RP!AdvanceOffset, Readers!AdvancePosition,
           RP!AdvancePosition, Readers!SegmentRead, RP!SegmentRead, Readers!Segment,
           RP!Segment, Readers!GetBlock, RP!GetBlock, Readers!FullSize, RP!FullSize,
           Readers!SegmentSize, RP!SegmentSize
<1> QED
    BY <1>1, <1>2, <1>3

LEMMA SameSegmentRead == \A task : Readers!SegmentRead(task) = RP!SegmentRead(task)
BY DEF Readers!SegmentRead, RP!SegmentRead, Readers!Segment, RP!Segment, Readers!GetBlock,
       RP!GetBlock, Readers!FullSize, RP!FullSize, Readers!SegmentSize, RP!SegmentSize

\* A handler of a reader is alone, and a do_read has no state of its own.
LEMMA ReaderAlone ==
    ASSUME RP!IInv, NEW k \in ReaderTasks
    PROVE  /\ k.block_id \in Threads
           /\ \A l \in ReaderTasks : l.block_id = k.block_id => l = k
           /\ k.kind = "do_read" => k = Readers!DoReadTask(k.block_id)
<1> DEFINE b == k.block_id
<1>1. b \in RP!BlockIds /\ \E n \in Nat : RP!GoesOn(b, k, n)
    BY ReaderInputsHold, RP!RunsAlone
<1>2. PICK n \in Nat : RP!GoesOn(b, k, n)
    BY <1>1
<1>3. \A l \in ReaderTasks : l.block_id = b => l = k
    BY <1>2 DEF RP!GoesOn, RP!TasksOf
<1>4. k.kind = "do_read" => k = Readers!DoReadTask(b)
    BY <1>2 DEF RP!GoesOn, RP!Doing, RP!DoReadTask, RP!Task, Readers!DoReadTask, Readers!Task
<1> QED
    BY <1>1, <1>3, <1>4 DEF RP!BlockIds, Threads

\* The segments that were read are planned.
LEMMA EmittedPlanned ==
    ASSUME RP!IInv, NEW s \in emitted
    PROVE  s.block_id \in Threads /\ s \in Plan(s.block_id)
<1>1. RP!ReadsThePlan /\ RP!TypeOK
    BY ReaderInputsHold, RP!PlanIsRead DEF RP!IInv
<1>2. s.block_id \in RP!BlockIds
    BY <1>1 DEF RP!TypeOK
<1>3. s.block_id \in Threads
    BY <1>2 DEF RP!BlockIds, Threads
<1>4. s \in RP!Plan(s.block_id)
    BY <1>1, <1>2 DEF RP!ReadsThePlan, RP!Plan
<1> QED
    BY <1>3, <1>4, SamePlans

\* Different segments that were read have different hashes.
LEMMA EmittedHashes ==
    ASSUME RP!IInv
    PROVE  /\ \A s \in emitted : Hashed(s) \in Planned
           /\ \A s, u \in emitted : Hashed(s) = Hashed(u) => s = u
BY EmittedPlanned, HashedIsPlanned, HashedOnce

HashesApart == \A s, u \in emitted : Hashed(s) = Hashed(u) => s = u

LEMMA HashesApartNext == RP!IInv' => HashesApart'
<1>1. RP!IInv => HashesApart
    BY EmittedHashes DEF HashesApart
<1> QED
    BY <1>1, PTL

-----------------------------------------------------------------------------
(* The readers *)

\* A handler of a reader ends.
LEMMA ReaderMoves ==
    ASSUME IInv, NEW t \in Threads, running[t].kind \in ReaderKinds, NEW next, NEW tasks,
           Finish(t, next, tasks),
           \A h \in tasks \cup {next} : h.kind \in ReaderKinds =>
               h.block_id = running[t].block_id /\ h.kind # running[t].kind,
           \A h \in tasks \cup {next} : h.kind = "hash" => h \notin InFlight,
           next.kind \in Moving => next \notin tasks
    PROVE  /\ running[t] \in ReaderTasks
           /\ OnePlace'
           /\ ReaderTasks' = (ReaderTasks \ {running[t]})
                                 \cup {h \in tasks \cup {next} : h.kind \in ReaderKinds}
           /\ \A h \in InFlight' : h.kind = "hash" => h \in InFlight \/ h \in tasks \cup {next}
<1>1. running[t] \in InFlight /\ running[t] \in ReaderTasks
    BY DEF InFlight, Handlers, Moving, ReaderTasks
<1>2. ASSUME NEW h \in tasks \cup {next}, h.kind \in Moving
      PROVE  h \notin InFlight \ {running[t]} /\ h # running[t]
    <2>1. CASE h.kind = "hash"
        BY <1>2, <2>1 DEF ReaderKinds
    <2>2. CASE h.kind \in ReaderKinds
        <3>1. h \in InFlight => h \in ReaderTasks
            BY <2>2, ReaderTasksInFlight
        <3> QED
            BY <1>1, <2>2, <3>1, ReaderAlone DEF IInv
    <2> QED
        BY <1>2, <2>1, <2>2 DEF Moving
<1>3. /\ OnePlace'
      /\ InFlight' = (InFlight \ {running[t]}) \cup {h \in tasks \cup {next} : h.kind \in Moving}
    BY <1>2, Moves DEF IInv, Control
<1>4. ReaderTasks' = {h \in InFlight' : h.kind \in ReaderKinds}
    BY DEF ReaderTasks, InFlight, Moving
<1>5. ReaderTasks' = (ReaderTasks \ {running[t]})
                         \cup {h \in tasks \cup {next} : h.kind \in ReaderKinds}
    BY <1>3, <1>4, ReaderTasksInFlight DEF Moving
<1> QED
    BY <1>1, <1>3, <1>5

LEMMA DoReadMoves ==
    ASSUME IInv, NEW t \in Threads, DoRead(t)
    PROVE  /\ Readers!Next /\ OnePlace'
           /\ \A h \in InFlight' : h.kind = "hash" => h \in InFlight
<1> DEFINE task == running[t]
           b == task.block_id
           next == Readers!NextRead(b)
<1>1. /\ task.kind = "do_read" /\ task.kind \in ReaderKinds
      /\ Finish(t, Idle, {next}) /\ Readers!AdvanceOffset(b)
      /\ UNCHANGED <<position, emitted, failed>>
    BY DEF DoRead, ReaderKinds
<1>2. next.kind \in ReadKinds /\ next.block_id = b
    BY KindsOfTasks DEF Readers!NextRead, Readers!Task
<1>3. next.kind \in ReaderKinds /\ next.kind \notin {"do_read", "hash"}
    BY <1>2 DEF ReadKinds, ReaderKinds
<1> HIDE DEF next
<1>4. /\ task \in ReaderTasks /\ OnePlace'
      /\ ReaderTasks' = (ReaderTasks \ {task})
                            \cup {h \in {next} \cup {Idle} : h.kind \in ReaderKinds}
      /\ \A h \in InFlight' : h.kind = "hash" => h \in InFlight \/ h \in {next} \cup {Idle}
    BY <1>1, <1>2, <1>3, KindsOfTasks, ReaderMoves DEF Moving, ReaderKinds
<1>5. ReaderTasks' = (ReaderTasks \ {task}) \cup {next}
    BY <1>3, <1>4, KindsOfTasks DEF ReaderKinds
<1>6. b \in Readers!BlockIds /\ task = Readers!DoReadTask(b)
    BY <1>1, <1>4, ReaderAlone DEF IInv, Readers!BlockIds, Threads
<1>7. Readers!DoRead(b)
    BY <1>1, <1>4, <1>5, <1>6 DEF Readers!DoRead, next
<1> QED
    BY <1>3, <1>4, <1>6, <1>7, KindsOfTasks DEF Readers!Next

LEMMA ReadMoves ==
    ASSUME IInv, NEW t \in Threads, Read(t)
    PROVE  /\ Readers!Next /\ OnePlace'
           /\ \E s \in emitted' \ emitted :
                  \A h \in InFlight' : h.kind = "hash" => h \in InFlight \/ h = HashTask(s)
           /\ emitted \subseteq emitted'
<1> DEFINE task == running[t]
           b == task.block_id
           s == Readers!SegmentRead(task)
           repost == Readers!Task("repost", b, 0)
           next == IF task.kind # "read_segment" THEN Idle ELSE repost
<1>1. /\ task.kind \in ReadKinds /\ task.kind \in ReaderKinds
      /\ emitted' = emitted \cup {s}
      /\ Finish(t, next, {HashTask(s)}) /\ Readers!AdvancePosition(task)
      /\ UNCHANGED <<offset, failed>>
    BY DEF Read, ReaderKinds, ReadKinds
<1>2. task \in ReaderTasks
    BY <1>1 DEF ReaderTasks, Handlers
<1>3. s \notin emitted
    <2>1. task.kind \in {"read_entire_block", "read_segment", "read_tail"}
        BY <1>1 DEF ReadKinds, ReaderKinds
    <2>2. RP!SegmentRead(task) \notin emitted
        BY <1>2, <2>1, ReaderInputsHold, RP!ReadIsNew DEF IInv
    <2> QED
        BY <2>2, SameSegmentRead
<1>4. HashTask(s).segment = s /\ HashTask(s).kind = "hash"
    BY DEF HashTask
<1>5. repost.kind = "repost" /\ repost.block_id = b
    BY DEF Readers!Task
<1> HIDE DEF s, repost
<1>6. HashTask(s) \notin InFlight
    BY <1>3, <1>4 DEF IInv, Owed
<1>7. next = Idle \/ next = repost
    OBVIOUS
<1>8. next.kind # "hash" /\ (next.kind \in ReaderKinds => next = repost)
    BY <1>5, <1>7, KindsOfTasks DEF ReaderKinds
<1>9. /\ OnePlace'
      /\ ReaderTasks' = (ReaderTasks \ {task})
                            \cup {h \in {HashTask(s)} \cup {next} : h.kind \in ReaderKinds}
      /\ \A h \in InFlight' : h.kind = "hash" => h \in InFlight \/ h \in {HashTask(s)} \cup {next}
    <2>1. \A h \in {HashTask(s)} \cup {next} :
              /\ h.kind \in ReaderKinds => h.block_id = b /\ h.kind # task.kind
              /\ h.kind = "hash" => h \notin InFlight
        BY <1>1, <1>4, <1>5, <1>6, <1>8 DEF ReaderKinds, ReadKinds
    <2>2. next.kind \in Moving => next \notin {HashTask(s)}
        BY <1>4, <1>8
    <2> HIDE DEF next
    <2> QED
        BY <1>1, <2>1, <2>2, ReaderMoves
<1>10. Readers!RunTask(task)
    <2>1. CASE task.kind = "read_segment"
        <3>1. next = repost /\ next.kind \in ReaderKinds
            BY <1>5, <2>1 DEF ReaderKinds
        <3>2. ReaderTasks' = (ReaderTasks \ {task}) \cup {repost}
            BY <1>4, <1>9, <3>1 DEF ReaderKinds
        <3>3. Readers!ReadSegment(task)
            BY <1>1, <2>1, <3>2 DEF Readers!ReadSegment, s, repost
        <3> QED
            BY <3>3 DEF Readers!RunTask
    <2>2. CASE task.kind # "read_segment"
        <3>1. next = Idle /\ next.kind \notin ReaderKinds
            BY <2>2, KindsOfTasks DEF ReaderKinds
        <3>2. ReaderTasks' = ReaderTasks \ {task}
            BY <1>4, <1>9, <3>1 DEF ReaderKinds
        <3>3. task.kind \in {"read_entire_block", "read_tail"}
            BY <1>1, <2>2 DEF ReadKinds, ReaderKinds
        <3>4. Readers!ReadLast(task)
            BY <1>1, <3>2, <3>3 DEF Readers!ReadLast, s
        <3> QED
            BY <3>4 DEF Readers!RunTask
    <2> QED
        BY <2>1, <2>2
<1>11. Readers!Next
    BY <1>2, <1>10 DEF Readers!Next
<1>12. \A h \in InFlight' : h.kind = "hash" => h \in InFlight \/ h = HashTask(s)
    BY <1>8, <1>9
<1> QED
    BY <1>1, <1>3, <1>9, <1>11, <1>12

LEMMA RepostMoves ==
    ASSUME IInv, NEW t \in Threads, Repost(t)
    PROVE  /\ Readers!Next /\ OnePlace'
           /\ \A h \in InFlight' : h.kind = "hash" => h \in InFlight
<1> DEFINE task == running[t]
           next == Readers!DoReadTask(task.block_id)
<1>1. /\ task.kind = "repost" /\ task.kind \in ReaderKinds
      /\ Finish(t, Idle, {next})
      /\ UNCHANGED <<offset, position, emitted, failed>>
    BY DEF Repost, ReaderKinds, readerVars
<1>2. next.kind = "do_read" /\ next.block_id = task.block_id
    BY DEF Readers!DoReadTask, Readers!Task
<1> HIDE DEF next
<1>3. /\ task \in ReaderTasks /\ OnePlace'
      /\ ReaderTasks' = (ReaderTasks \ {task})
                            \cup {h \in {next} \cup {Idle} : h.kind \in ReaderKinds}
      /\ \A h \in InFlight' : h.kind = "hash" => h \in InFlight \/ h \in {next} \cup {Idle}
    BY <1>1, <1>2, KindsOfTasks, ReaderMoves DEF Moving, ReaderKinds
<1>4. ReaderTasks' = (ReaderTasks \ {task}) \cup {next}
    BY <1>2, <1>3, KindsOfTasks DEF ReaderKinds
<1>5. Readers!Repost(task)
    BY <1>1, <1>4 DEF Readers!Repost, next
<1> QED
    BY <1>2, <1>3, <1>5, KindsOfTasks DEF Readers!Next, Readers!RunTask

LEMMA ReadFailsMoves ==
    ASSUME IInv, NEW t \in Threads, ReadFails(t)
    PROVE  /\ Readers!Next /\ OnePlace'
           /\ \A h \in InFlight' : h.kind = "hash" => h \in InFlight
<1> DEFINE task == running[t]
           next == ThrowTask(<<"read", task.block_id>>)
<1>1. /\ ReadMayFail
      /\ task.kind \in ReadKinds /\ task.kind \in ReaderKinds
      /\ Finish(t, Idle, {next})
      /\ failed' = failed \cup {task.block_id}
      /\ UNCHANGED <<offset, position, emitted>>
    BY DEF ReadFails, ReaderKinds, ReadKinds
<1>2. next.kind = "throw"
    BY KindsOfTasks
<1> HIDE DEF next
<1>3. /\ task \in ReaderTasks /\ OnePlace'
      /\ ReaderTasks' = (ReaderTasks \ {task})
                            \cup {h \in {next} \cup {Idle} : h.kind \in ReaderKinds}
      /\ \A h \in InFlight' : h.kind = "hash" => h \in InFlight \/ h \in {next} \cup {Idle}
    BY <1>1, <1>2, KindsOfTasks, ReaderMoves DEF Moving, ReaderKinds
<1>4. ReaderTasks' = ReaderTasks \ {task}
    BY <1>2, <1>3, KindsOfTasks DEF ReaderKinds
<1>5. task.kind \in {"read_entire_block", "read_segment", "read_tail"}
    BY <1>1 DEF ReadKinds, ReaderKinds
<1>6. Readers!ReadFails(task)
    BY <1>1, <1>4, <1>5 DEF Readers!ReadFails
<1> QED
    BY <1>2, <1>3, <1>6, KindsOfTasks DEF Readers!Next, Readers!RunTask

\* A handler ends that is not a reader's, and starts none that moves.
LEMMA OtherMoves ==
    ASSUME IInv, NEW t \in Threads, running[t].kind \notin ReaderKinds,
           NEW next, NEW tasks, Finish(t, next, tasks),
           \A h \in tasks \cup {next} : h.kind \notin Moving,
           UNCHANGED readerVars
    PROVE  /\ UNCHANGED Readers!vars /\ OnePlace'
           /\ InFlight' = InFlight \ {running[t]}
<1>1. /\ OnePlace'
      /\ InFlight' = InFlight \ {running[t]}
    BY Moves DEF IInv, Control
<1>2. ReaderTasks' = {h \in InFlight' : h.kind \in ReaderKinds}
    BY DEF ReaderTasks, InFlight, Moving
<1>3. ReaderTasks' = ReaderTasks
    BY <1>1, <1>2, ReaderTasksInFlight
<1> QED
    BY <1>1, <1>3 DEF Readers!vars, readerVars

-----------------------------------------------------------------------------
(* The writer *)

LEMMA SameWriter ==
    /\ Signature!Init <=> WP!Init
    /\ Signature!Next <=> WP!Next
    /\ Signature!vars = WP!vars
    /\ Signature!Handle <=> WP!Handle
    /\ \A s : Signature!Deliver(s) <=> WP!Deliver(s)
<1>1. Signature!vars = WP!vars
    BY DEF Signature!vars, WP!vars
<1>2. Signature!Init <=> WP!Init
    BY DEF Signature!Init, WP!Init
<1>3. \A s : Signature!Deliver(s) <=> WP!Deliver(s)
    BY DEF Signature!Deliver, WP!Deliver
<1>4. ASSUME NEW entries, NEW s
      PROVE  /\ Signature!LowerBound(entries, s) = WP!LowerBound(entries, s)
             /\ Signature!Emplace(entries, s) = WP!Emplace(entries, s)
    BY DEF Signature!LowerBound, WP!LowerBound, Signature!KeyLess, WP!KeyLess,
           Signature!Emplace, WP!Emplace, Signature!HasKey, WP!HasKey,
           Signature!InsertAt, WP!InsertAt
<1>5. \A s : Signature!Store(s) <=> WP!Store(s)
    BY <1>4 DEF Signature!Store, WP!Store
<1>6. Signature!chunks_total = WP!chunks_total
    <2>1. Signature!FullChunks = WP!FullChunks
        BY DEF Signature!FullChunks, WP!FullChunks, Signature!ChunksCount, WP!ChunksCount,
               Signature!GetBlock, WP!GetBlock, Signature!BlockIds, WP!BlockIds
    <2> QED
        BY <2>1 DEF Signature!chunks_total, WP!chunks_total, Signature!Cardinality,
                    WP!Cardinality
<1>7. Signature!Handle <=> WP!Handle
    BY <1>5, <1>6
       DEF Signature!Handle, WP!Handle, Signature!Collect, WP!Collect, Signature!WriteAll,
           WP!WriteAll, Signature!WriteFails, WP!WriteFails, Signature!WriteAgain, WP!WriteAgain
<1>8. Signature!Undelivered = WP!Undelivered
    BY DEF Signature!Undelivered, WP!Undelivered, Signature!Range, WP!Range
<1>9. Signature!AllHandled <=> WP!AllHandled
    BY <1>8 DEF Signature!AllHandled, WP!AllHandled, Signature!vars, WP!vars
<1>10. Signature!Next <=> WP!Next
    BY <1>3, <1>7, <1>8, <1>9 DEF Signature!Next, WP!Next
<1> QED
    BY <1>1, <1>2, <1>3, <1>7, <1>10

LEMMA AppendFacts ==
    ASSUME NEW S, NEW seq \in Seq(S), NEW e \in S
    PROVE  /\ Append(seq, e) \in Seq(S) /\ Len(Append(seq, e)) = Len(seq) + 1
           /\ \A i \in 1..Len(seq) : Append(seq, e)[i] = seq[i]
           /\ Append(seq, e)[Len(seq) + 1] = e
BY AppendProperties, LenProperties

\* A segment is appended to the queue of the strand.
LEMMA AppendRange ==
    ASSUME NEW S, NEW seq \in Seq(S), NEW e \in S
    PROVE  Range(Append(seq, e)) = Range(seq) \cup {e}
<1>1. /\ Append(seq, e) \in Seq(S) /\ Len(Append(seq, e)) = Len(seq) + 1
      /\ \A i \in 1..Len(seq) : Append(seq, e)[i] = seq[i]
      /\ Append(seq, e)[Len(seq) + 1] = e
      /\ Len(seq) \in Nat
    BY AppendProperties, LenProperties
<1>2. /\ Range(seq) = {seq[i] : i \in 1..Len(seq)}
      /\ Range(Append(seq, e)) = {Append(seq, e)[i] : i \in 1..(Len(seq) + 1)}
    BY <1>1, RangeEquality
<1>3. \A i \in 1..(Len(seq) + 1) : i \in 1..Len(seq) \/ i = Len(seq) + 1
    BY <1>1
<1>4. \A i \in 1..Len(seq) : i \in 1..(Len(seq) + 1)
    BY <1>1
<1>5. Len(seq) + 1 \in 1..(Len(seq) + 1)
    BY <1>1
<1> QED
    BY <1>1, <1>2, <1>3, <1>4, <1>5

LEMMA WriterTypes ==
    ASSUME WP!IInv
    PROVE  /\ inbox \in Seq(Planned) /\ segments \in Seq(Planned)
           /\ results \in Seq({"success", "error"}) /\ output \in Seq(Planned)
BY DEF WP!IInv, WP!TypeOK

\* Nothing new is on its way.
LEMMA OwedKept ==
    ASSUME Owed, Arrived' \subseteq Arrived, emitted \subseteq emitted',
           \A h \in InFlight' : h.kind = "hash" => h \in InFlight
    PROVE  Owed'
BY DEF Owed

LEMMA HashWorks ==
    ASSUME IInv, NEW t \in Threads, Hash(t)
    PROVE  /\ UNCHANGED Readers!vars /\ Signature!Next
           /\ OnePlace' /\ Owed'
<1> DEFINE task == running[t]
           h == Hashed(task.segment)
           tasks == IF StrandBusy THEN {} ELSE {WriteTask}
<1>1. /\ task.kind = "hash" /\ Signature!Deliver(h) /\ Finish(t, Idle, tasks)
      /\ UNCHANGED readerVars
    BY DEF Hash
<1>2. task \in InFlight
    BY <1>1 DEF InFlight, Handlers, Moving
<1>3. /\ task = HashTask(task.segment) /\ task.segment \in emitted
      /\ h \notin Arrived
    BY <1>1, <1>2 DEF IInv, Owed
<1>4. h \in Planned
    BY <1>3, EmittedHashes DEF IInv
<1>5. inbox' = Append(inbox, h) /\ segments' = segments /\ emitted' = emitted
    BY <1>1 DEF Signature!Deliver, readerVars
<1>6. Signature!Next
    <2>1. h \in Signature!Undelivered
        BY <1>3, <1>4 DEF Signature!Undelivered, Arrived, Range, Signature!Range
    <2> QED
        BY <1>1, <2>1 DEF Signature!Next
<1>7. UNCHANGED Readers!vars /\ OnePlace' /\ InFlight' = InFlight \ {task}
    <2>1. \A k \in tasks \cup {Idle} : k.kind \notin Moving
        BY KindsOfTasks DEF Moving, ReaderKinds
    <2> HIDE DEF tasks
    <2>2. task.kind \notin ReaderKinds
        BY <1>1 DEF ReaderKinds
    <2> QED
        BY <1>1, <2>1, <2>2, OtherMoves
<1>8. Arrived' = Arrived \cup {h}
    <2>1. Range(inbox') = Range(inbox) \cup {h}
        BY <1>4, <1>5, WriterTypes, AppendRange DEF IInv
    <2> QED
        BY <1>5, <2>1 DEF Arrived
<1>9. Owed'
    <2>1. ASSUME NEW k \in InFlight', k.kind = "hash"
          PROVE  /\ k = HashTask(k.segment)
                 /\ k.segment \in emitted
                 /\ Hashed(k.segment) \notin Arrived \cup {h}
        <3>1. k \in InFlight /\ k # task
            BY <1>7, <2>1
        <3>2. k = HashTask(k.segment) /\ k.segment \in emitted /\ Hashed(k.segment) \notin Arrived
            BY <2>1, <3>1 DEF IInv, Owed
        <3>3. k.segment # task.segment
            BY <1>3, <3>1, <3>2
        <3>4. Hashed(k.segment) # h
            BY <1>3, <3>2, <3>3, EmittedHashes DEF IInv
        <3> QED
            BY <3>2, <3>4
    <2>2. Arrived \cup {h} \subseteq {Hashed(s) : s \in emitted}
        BY <1>3 DEF IInv, Owed
    <2> QED
        BY <1>5, <1>8, <2>1, <2>2 DEF Owed
<1> QED
    BY <1>6, <1>7, <1>9

LEMMA WriteWorks ==
    ASSUME IInv, NEW t \in Threads, Write(t)
    PROVE  /\ UNCHANGED Readers!vars /\ Signature!Next
           /\ OnePlace' /\ Owed'
<1> DEFINE error == results' # results /\ Last(results') = "error"
           tasks == IF error THEN {ThrowTask(<<"write", Len(results')>>)} ELSE {}
<1>1. /\ running[t] = WriteTask /\ Signature!Handle /\ Finish(t, StrandHeld, tasks)
      /\ UNCHANGED readerVars
    BY DEF Write
<1>2. \A k \in tasks \cup {StrandHeld} : k.kind \notin Moving
    BY KindsOfTasks DEF Moving, ReaderKinds
<1> HIDE DEF tasks
<1>3. WriteTask.kind \notin ReaderKinds /\ WriteTask.kind # "hash"
    BY KindsOfTasks DEF ReaderKinds
<1>4. UNCHANGED Readers!vars /\ OnePlace' /\ InFlight' = InFlight \ {running[t]}
    BY <1>1, <1>2, <1>3, OtherMoves
<1>5. WP!Handle
    BY <1>1, SameWriter
<1>6. /\ WP!Range(inbox') \subseteq WP!Range(inbox) \ {Head(inbox)}
      /\ WP!Range(segments') = WP!Range(segments) \cup {Head(inbox)}
      /\ Head(inbox) \in WP!Range(inbox)
    BY <1>5, WriterInputsHold, WP!HandleStores DEF IInv
<1>7. Arrived' \subseteq Arrived
    BY <1>6 DEF Arrived, Range, WP!Range
<1>8. Owed'
    BY <1>1, <1>4, <1>7, OwedKept DEF IInv, readerVars
<1> QED
    BY <1>1, <1>4, <1>8 DEF Signature!Next

-----------------------------------------------------------------------------
(* The steps of the program *)

\* Every step of the program is one of the readers or none, and one of the writer
\* or none; the next state is good again.
Works ==
    /\ [Readers!Next]_(Readers!vars)
    /\ [Signature!Next]_(Signature!vars)
    /\ IInv'

\* What is left to show of a step that does what BlockReader and Writer allow.
LEMMA GoodStep ==
    ASSUME IInv, [Next]_vars, [Readers!Next]_(Readers!vars), [Signature!Next]_(Signature!vars),
           OnePlace', RP!IInv' => Owed'
    PROVE  Works
<1>1. RP!IInv'
    <2>1. [RP!Next]_(RP!vars)
        BY SameReaders DEF Readers!vars, RP!vars
    <2> QED
        BY <2>1, ReaderInputsHold, RP!StepHolds DEF IInv
<1>2. WP!IInv'
    <2>1. [WP!Next]_(WP!vars)
        BY SameWriter DEF Signature!vars, WP!vars
    <2> QED
        BY <2>1, WriterInputsHold, WP!NextIInv DEF IInv
<1>3. Control'
    BY StepControl DEF IInv
<1> QED
    BY <1>1, <1>2, <1>3 DEF Works, IInv

LEMMA ReaderWorks ==
    ASSUME IInv, [Next]_vars, NEW t \in Threads,
           DoRead(t) \/ Read(t) \/ Repost(t) \/ ReadFails(t)
    PROVE  Works
<1>1. UNCHANGED <<inbox, segments>> /\ UNCHANGED Signature!vars
    BY DEF DoRead, Read, Repost, ReadFails, writerVars, Signature!vars
<1>2. Arrived' = Arrived
    BY <1>1 DEF Arrived
<1>3. CASE DoRead(t) \/ Repost(t) \/ ReadFails(t)
    <2>1. /\ Readers!Next /\ OnePlace'
          /\ \A h \in InFlight' : h.kind = "hash" => h \in InFlight
        BY <1>3, DoReadMoves, RepostMoves, ReadFailsMoves
    <2>2. emitted' = emitted
        BY <1>3 DEF DoRead, Repost, ReadFails, readerVars
    <2>3. Owed'
        BY <1>2, <2>1, <2>2, OwedKept DEF IInv
    <2> QED
        BY <1>1, <2>1, <2>3, GoodStep
<1>4. CASE Read(t)
    <2>1. /\ Readers!Next /\ OnePlace' /\ emitted \subseteq emitted'
          /\ \E s \in emitted' \ emitted :
                 \A h \in InFlight' : h.kind = "hash" => h \in InFlight \/ h = HashTask(s)
        BY <1>4, ReadMoves
    <2>2. PICK s \in emitted' \ emitted :
              \A h \in InFlight' : h.kind = "hash" => h \in InFlight \/ h = HashTask(s)
        BY <2>1
    <2>3. RP!IInv' => Owed'
        <3>1. SUFFICES ASSUME RP!IInv' PROVE Owed'
            OBVIOUS
        <3>2. \A u, v \in emitted' : Hashed(u) = Hashed(v) => u = v
            BY <3>1, HashesApartNext DEF HashesApart
        <3>3. Hashed(s) \notin Arrived
            BY <2>1, <2>2, <3>2 DEF IInv, Owed
        <3>4. HashTask(s).segment = s
            BY DEF HashTask
        <3> QED
            BY <1>2, <2>1, <2>2, <3>3, <3>4 DEF IInv, Owed
    <2> QED
        BY <1>1, <2>1, <2>3, GoodStep
<1> QED
    BY <1>3, <1>4

LEMMA OtherWorks ==
    ASSUME IInv, [Next]_vars, NEW t \in Threads,
           NextWrite(t) \/ ReleaseStrand(t) \/ Throw(t) \/ Shutdown(t) \/ Leave(t)
    PROVE  Works
<1>1. /\ running[t].kind \in {"write", "strand", "throw", "caught", "idle"}
      /\ UNCHANGED readerVars /\ UNCHANGED writerVars
    BY KindsOfTasks DEF NextWrite, ReleaseStrand, Throw, Shutdown, Leave
<1>2. PICK next \in {Idle, WriteTask, Caught, Gone}, tasks \in SUBSET {WriteTask} :
          Finish(t, next, tasks)
    BY DEF NextWrite, ReleaseStrand, Throw, Shutdown, Leave
<1>3. \A h \in tasks \cup {next} : h.kind \notin Moving
    BY <1>2, KindsOfTasks DEF Moving, ReaderKinds
<1>4. running[t].kind \notin ReaderKinds
    BY <1>1 DEF ReaderKinds
<1>5. UNCHANGED Readers!vars /\ OnePlace' /\ InFlight' = InFlight \ {running[t]}
    BY <1>1, <1>2, <1>3, <1>4, OtherMoves
<1>6. UNCHANGED Signature!vars /\ Arrived' = Arrived /\ emitted' = emitted
    BY <1>1 DEF writerVars, readerVars, Signature!vars, Arrived
<1>7. Owed'
    BY <1>5, <1>6, OwedKept DEF IInv
<1> QED
    BY <1>5, <1>6, <1>7, GoodStep

\* A step that leaves handlers, readers and writer alone, or moves a handler from
\* the queue to a thread.
LEMMA QuietWorks ==
    ASSUME IInv, [Next]_vars, UNCHANGED <<readerVars, writerVars>>,
           OnePlace', InFlight' = InFlight
    PROVE  Works
<1>1. ReaderTasks' = {h \in InFlight' : h.kind \in ReaderKinds}
    BY DEF ReaderTasks, InFlight, Moving
<1>2. UNCHANGED Readers!vars
    BY <1>1, ReaderTasksInFlight DEF Readers!vars, readerVars
<1>3. UNCHANGED Signature!vars /\ Arrived' = Arrived /\ emitted' = emitted
    BY DEF writerVars, readerVars, Signature!vars, Arrived
<1>4. Owed'
    BY <1>3, OwedKept DEF IInv
<1> QED
    BY <1>2, <1>3, <1>4, GoodStep

LEMMA StepWorks == IInv /\ [Next]_vars => Works
<1> SUFFICES ASSUME IInv, [Next]_vars PROVE Works
    OBVIOUS
<1>1. CASE UNCHANGED vars
    BY <1>1, NothingMoves, QuietWorks DEF vars, IInv
<1>2. CASE StopContext \/ MainReturns \/ \E t \in Threads : OutOfMemory(t)
    <2>1. UNCHANGED <<readerVars, writerVars, posted, running>>
        BY <1>2 DEF StopContext, MainReturns, OutOfMemory
    <2> QED
        BY <2>1, NothingMoves, QuietWorks DEF IInv
<1>3. ASSUME NEW t \in Threads, Take(t) PROVE Works
    <2>1. UNCHANGED <<readerVars, writerVars>>
        BY <1>3 DEF Take
    <2> QED
        BY <1>3, <2>1, TakeMoves, QuietWorks DEF IInv, Control
<1>4. ASSUME NEW t \in Threads, Hash(t) \/ Write(t) PROVE Works
    BY <1>4, HashWorks, WriteWorks, GoodStep
<1> QED
    BY <1>1, <1>2, <1>3, <1>4, ReaderWorks, OtherWorks DEF Next, ThreadStep, Exited

LEMMA InitWorks == Init => IInv /\ Readers!Init /\ Signature!Init
<1> SUFFICES ASSUME Init PROVE IInv /\ Readers!Init /\ Signature!Init
    OBVIOUS
<1>1. /\ \A t \in Threads : running[t] = Idle
      /\ posted = {Readers!DoReadTask(b) : b \in Threads}
      /\ offset = [b \in Threads |-> 0] /\ position = [b \in Threads |-> 0]
      /\ emitted = {} /\ failed = {}
    BY DEF Init
<1>2. Control /\ Signature!Init
    BY InitControl DEF Init
<1>3. Idle.kind \notin Moving /\ \A b : Readers!DoReadTask(b).kind \in ReaderKinds
    BY KindsOfTasks DEF Moving, ReaderKinds
<1>4. OnePlace
    BY <1>1, <1>3 DEF OnePlace
<1>5. InFlight = posted /\ \A h \in InFlight : h.kind \in ReaderKinds
    BY <1>1, <1>3 DEF InFlight, Handlers, Moving
<1>6. Readers!Init
    BY <1>1, <1>5, ReaderTasksInFlight DEF Readers!Init, Readers!BlockIds, Threads
<1>7. Arrived = {}
    <2>1. inbox = <<>> /\ segments = <<>>
        BY <1>2 DEF Signature!Init
    <2>2. Range(<<>>) = {}
        BY DEF Range
    <2> QED
        BY <2>1, <2>2 DEF Arrived
<1>8. Owed
    BY <1>5, <1>7 DEF Owed, ReaderKinds
<1>9. RP!IInv
    BY <1>6, SameReaders, ReaderInputsHold, RP!InitHolds
<1>10. WP!IInv
    BY <1>2, SameWriter, WriterInputsHold, WP!InitIInv
<1> QED
    BY <1>2, <1>4, <1>6, <1>8, <1>9, <1>10 DEF IInv

LEMMA IInvHolds == Spec => []IInv
<1>1. IInv /\ [Next]_vars => IInv'
    BY StepWorks DEF Works
<1> QED
    BY <1>1, InitWorks, PTL DEF Spec

\* What the readers' handlers rely on, on any number of threads.
LEMMA ReadersKeepOrder == RP!IInv => OneTaskPerReader /\ ReadsInStep /\ ReadsThePlan
<1> SUFFICES ASSUME RP!IInv PROVE OneTaskPerReader /\ ReadsInStep /\ ReadsThePlan
    OBVIOUS
<1>1. RP!OneTaskPerReader /\ RP!ReadsInStep /\ RP!ReadsThePlan
    BY ReaderInputsHold, RP!OneTask, RP!InStepAlways, RP!PlanIsRead
<1>2. OneTaskPerReader
    BY <1>1 DEF OneTaskPerReader, Readers!OneTaskPerReader, RP!OneTaskPerReader
<1>3. ReadsInStep
    BY <1>1 DEF ReadsInStep, Readers!ReadsInStep, RP!ReadsInStep, Readers!GetBlock, RP!GetBlock
<1>4. ReadsThePlan
    BY <1>1 DEF ReadsThePlan, Readers!ReadsThePlan, RP!ReadsThePlan, Readers!GetBlock,
                RP!GetBlock, Readers!BlockIds, RP!BlockIds, Readers!PlanOf, RP!PlanOf,
                Readers!Segment, RP!Segment, Readers!SegmentSize, RP!SegmentSize
<1> QED
    BY <1>2, <1>3, <1>4

\* No reader has two handlers in the pool, whichever threads take them.
THEOREM ReadersDoOneThing == Spec => []OneTaskPerReader
<1>1. IInv => OneTaskPerReader
    BY ReadersKeepOrder DEF IInv
<1> QED
    BY <1>1, IInvHolds, PTL

\* The reads of a block are in step with its chunk numbers.
THEOREM ReadersStayInStep == Spec => []ReadsInStep
<1>1. IInv => ReadsInStep
    BY ReadersKeepOrder DEF IInv
<1> QED
    BY <1>1, IInvHolds, PTL

\* A block is read as planned, and all of it unless a read fails; an empty block
\* too, though it breaks the assertion in do_read.
THEOREM ReadersFollowPlan == Spec => []ReadsThePlan
<1>1. IInv => ReadsThePlan
    BY ReadersKeepOrder DEF IInv
<1> QED
    BY <1>1, IInvHolds, PTL

\* The writer's assertion "Should not exist" holds, whichever threads read, hash
\* and hand over.
THEOREM AssertionHolds == Spec => []NeverStoredTwice
<1>1. IInv => NeverStoredTwice
    <2> SUFFICES ASSUME IInv, inbox # <<>>
                 PROVE  ~Signature!HasKey(segments, Head(inbox))
        BY DEF NeverStoredTwice
    <2>1. ~WP!HasKey(segments, Head(inbox))
        BY WriterInputsHold, WP!HeadIsNew DEF IInv
    <2> QED
        BY <2>1 DEF WP!HasKey, Signature!HasKey, WP!LowerBound, Signature!LowerBound,
                    WP!KeyLess, Signature!KeyLess
<1> QED
    BY <1>1, IInvHolds, PTL

\* On the threads of the program the readers behave as BlockReader has them, though
\* their handlers are queued, taken and run among all the others'.
THEOREM ReadersImplemented == Spec => ReadersRefined
<1>1. IInv /\ [Next]_vars => [Readers!Next]_(Readers!vars)
    BY StepWorks DEF Works
<1> QED
    BY <1>1, InitWorks, IInvHolds, PTL DEF Spec, ReadersRefined

\* The writer behaves as Writer has it: every segment of the plan comes at most
\* once, and no other, whichever threads read and hash.
THEOREM WriterImplemented == Spec => WriterRefined
<1>1. IInv /\ [Next]_vars => [Signature!Next]_(Signature!vars)
    BY StepWorks DEF Works
<1> QED
    BY <1>1, InitWorks, IInvHolds, PTL DEF Spec, WriterRefined

-----------------------------------------------------------------------------
(* Reports and outcomes *)

\* A segment without a whole chunk is of the last block, which has one at most.
LEMMA OneBareTail ==
    ASSUME NEW h \in Planned, NEW k \in Planned, h.chunk_count = 0, k.chunk_count = 0
    PROVE  h = k
<1>1. ASSUME NEW g \in Planned, g.chunk_count = 0
      PROVE  /\ g.block_id = Len(Storage) - 1
             /\ \E s \in Plan(g.block_id) : g = Hashed(s) /\ s.chunk_count = 0
             /\ \A s, u \in Plan(g.block_id) : s.chunk_count = 0 /\ u.chunk_count = 0 => s = u
    <2> DEFINE b == g.block_id
    <2>1. b \in Threads /\ \E s \in Plan(b) : g = Hashed(s) /\ s.chunk_count = 0
        BY <1>1, PlannedSegment, HashedKeeps
    <2>2. /\ b \in RP!BlockIds /\ RP!Plan(b) = Plan(b)
          /\ RP!GetBlock(b) = Storage[b + 1]
        BY <2>1, SamePlans
    <2>3. ASSUME NEW s \in Plan(b), s.chunk_count = 0
          PROVE  /\ \A u \in Plan(b) : u.chunk_count = 0 => u = s
                 /\ TailSize(Storage[b + 1]) = 0 => ChunksCount(Storage[b + 1]) = 0
        BY <2>2, <2>3, ReaderInputsHold, RP!PlanBareTail
           DEF RP!TailSize, TailSize, RP!ChunksCount, ChunksCount
    <2>4. b = Len(Storage) - 1
        <3>1. TailSize(Storage[b + 1]) = 0 => ChunksCount(Storage[b + 1]) = 0
            BY <2>1, <2>3
        <3>2. \A i \in 1..(Len(Storage) - 1) :
                  ChunksCount(Storage[i]) # 0 /\ TailSize(Storage[i]) = 0
            BY WholeBlocks
        <3>3. b + 1 \notin 1..(Len(Storage) - 1)
            BY <3>1, <3>2
        <3>4. b \in 0..(Len(Storage) - 1) /\ Len(Storage) \in Nat
            BY <2>1, StorageTypes DEF Threads
        <3> HIDE DEF b
        <3> QED
            BY <3>3, <3>4
    <2> QED
        BY <2>1, <2>3, <2>4
<1> QED
    BY <1>1

Success == "success" \in Range(results)
Error == "error" \in Range(results)

\* What the reports go with: the writer reports twice only when a bare tail comes
\* after a success, and that is stored then.
Reported ==
    /\ results = <<>> => output = <<>>
    /\ Success => output # <<>>
    /\ \/ results = <<>>
       \/ results[1] = "error"
       \/ results = <<"success">>
       \/ /\ results = <<"success", "error">>
          /\ \E s \in Range(segments) : s \in Planned /\ s.chunk_count = 0

\* A handler appends a report or does not.
LEMMA Appended ==
    ASSUME WP!IInv, NEW r \in {"success", "error"}, results' = Append(results, r)
    PROVE  /\ results' # results /\ Last(results') = r
           /\ Range(results') = Range(results) \cup {r}
           /\ results = <<>> => results' = <<r>> /\ results'[1] = r
           /\ results # <<>> => results'[1] = results[1]
           /\ results' # <<>>
<1>1. results \in Seq({"success", "error"}) /\ Len(results) \in Nat
    BY WriterTypes, LenProperties
<1>2. /\ results' \in Seq({"success", "error"}) /\ Len(results') = Len(results) + 1
      /\ results'[Len(results) + 1] = r
      /\ \A i \in 1..Len(results) : results'[i] = results[i]
    BY <1>1, AppendProperties
<1>3. results # <<>> => 1 \in 1..Len(results)
    BY <1>1, EmptySeq
<1>4. Range(results') = Range(results) \cup {r}
    BY <1>1, AppendRange
<1>5. results = <<>> => results' = <<r>> /\ results'[1] = r
    BY <1>1, <1>2
<1>6. results' # results
    BY <1>1, <1>2
<1> QED
    BY <1>1, <1>2, <1>3, <1>4, <1>5, <1>6, EmptySeq DEF Last

\* What a handler of the strand does to the reports.
LEMMA HandleWorks ==
    ASSUME WP!IInv, Signature!Handle
    PROVE  /\ \/ results' = results /\ output' = output
              \/ /\ results = <<>> /\ results' = Append(results, "success")
                 /\ output' = segments'
              \/ results = <<>> /\ results' = Append(results, "error")
              \/ /\ results # <<>> /\ results' = Append(results, "error")
                 /\ output' = output /\ Head(inbox).chunk_count = 0
           /\ Head(inbox) \in Planned
           /\ Head(inbox) \notin Range(segments)
           /\ Range(segments') = Range(segments) \cup {Head(inbox)}
<1>1. WP!Handle
    BY SameWriter
<1>2. /\ Head(inbox) \in Planned
      /\ Head(inbox) \notin WP!Range(segments)
      /\ WP!Range(segments') = WP!Range(segments) \cup {Head(inbox)}
    BY <1>1, WriterInputsHold, WP!HandleStores
<1>3. \/ results' = results /\ output' = output
      \/ /\ results = <<>> /\ results' = Append(results, "success")
         /\ output' = segments'
      \/ results = <<>> /\ results' = Append(results, "error")
      \/ /\ results # <<>> /\ results' = Append(results, "error")
         /\ output' = output /\ Head(inbox).chunk_count = 0
    BY <1>1, WriterInputsHold, WP!HandleReports
<1> QED
    BY <1>2, <1>3 DEF WP!Range, Range

LEMMA TwoReports == Append(<<"success">>, "error") = <<"success", "error">>
<1> DEFINE S == {"success", "error"}
           one == <<"success">>
           two == <<"success", "error">>
<1>0. one \in Seq(S)
    OBVIOUS
<1>1. Len(one) = 1 /\ one[1] = "success"
    OBVIOUS
<1>2. two \in Seq(S) /\ Len(two) = 2 /\ two[1] = "success" /\ two[2] = "error"
    OBVIOUS
<1>3. "error" \in S
    OBVIOUS
<1> HIDE DEF S, one, two
<1>4. /\ Append(one, "error") \in Seq(S) /\ Len(Append(one, "error")) = 2
      /\ Append(one, "error")[1] = "success" /\ Append(one, "error")[2] = "error"
    <2>1. /\ Append(one, "error") \in Seq(S)
          /\ Len(Append(one, "error")) = Len(one) + 1
          /\ \A i \in 1..Len(one) : Append(one, "error")[i] = one[i]
          /\ Append(one, "error")[Len(one) + 1] = "error"
        BY <1>0, <1>3, AppendFacts
    <2>2. 1 \in 1..Len(one) /\ Len(one) + 1 = 2
        BY <1>1
    <2> QED
        BY <1>1, <2>1, <2>2
<1>5. \A i \in 1..2 : Append(one, "error")[i] = two[i]
    <2>1. \A i \in 1..2 : i = 1 \/ i = 2
        OBVIOUS
    <2> QED
        BY <1>2, <1>4, <2>1
<1>6. Append(one, "error") = two
    BY <1>2, <1>4, <1>5, SeqEqual
<1> QED
    BY <1>6 DEF one, two

LEMMA ReportedHolds ==
    ASSUME WP!IInv, Reported, [Signature!Next]_(Signature!vars)
    PROVE  /\ Reported'
           /\ Success => Success'
           /\ Error => Error'
<1>1. CASE UNCHANGED <<segments, output, results>>
    BY <1>1 DEF Reported, Success, Error
<1>2. CASE Signature!Handle
    <2> DEFINE s == Head(inbox)
    <2>1. s \in Planned /\ s \notin Range(segments)
          /\ Range(segments') = Range(segments) \cup {s}
        BY <1>2, HandleWorks
    <2> HIDE DEF s
    <2>2. CASE results' = results /\ output' = output
        BY <2>1, <2>2 DEF Reported, Success, Error
    <2>3. CASE results = <<>> /\ results' = Append(results, "success") /\ output' = segments'
        <3>1. results' = <<"success">> /\ results' # <<>> /\ Range(results') = Range(results) \cup {"success"}
            BY <2>3, Appended
        <3>2. output' # <<>>
            <4>1. Range(output') # {}
                BY <2>1, <2>3
            <4>2. Range(<<>>) = {}
                BY DEF Range
            <4> QED
                BY <4>1, <4>2
        <3> QED
            BY <3>1, <3>2 DEF Reported, Success, Error
    <2>4. CASE results = <<>> /\ results' = Append(results, "error")
        <3>1. /\ results'[1] = "error" /\ results' # <<>>
              /\ Range(results') = Range(results) \cup {"error"}
            BY <2>4, Appended
        <3>2. Range(results) = {}
            BY <2>4 DEF Range
        <3> QED
            BY <3>1, <3>2 DEF Reported, Success, Error
    <2>5. CASE /\ results # <<>> /\ results' = Append(results, "error")
               /\ output' = output /\ s.chunk_count = 0
        <3>1. /\ results'[1] = results[1] /\ results' # <<>>
              /\ Range(results') = Range(results) \cup {"error"}
            BY <2>5, Appended
        <3>2. results = <<"success">> => results' = <<"success", "error">>
            BY <2>5, TwoReports
        <3>3. results # <<"success", "error">>
                  \/ ~\E u \in Range(segments) : u \in Planned /\ u.chunk_count = 0
            BY <2>1, <2>5, OneBareTail
        <3> QED
            BY <2>1, <2>5, <3>1, <3>2, <3>3 DEF Reported, Success, Error
    <2> QED
        BY <1>2, <2>2, <2>3, <2>4, <2>5, HandleWorks DEF s
<1> QED
    BY <1>1, <1>2 DEF Signature!Next, Signature!Deliver, Signature!AllHandled, Signature!vars

Cause == failed # {} \/ Error

\* How the end comes about: only a success or an exception stops the context, only
\* an exception or a stopped context lets a thread go, and an exception has a cause.
Ends ==
    /\ stopped \in BOOLEAN /\ exception \in BOOLEAN /\ stoppers \in Nat
    /\ exit \in {"none", "success", "failure", "crashed"}
    /\ stopped \/ stoppers > 0 => exception \/ Success
    /\ \A t \in Threads : running[t].kind = "caught" => exception
    /\ \A t \in Threads : running[t].kind = "gone" => stopped \/ exception
    /\ exception => Cause
    /\ \A h \in Handlers : h.kind = "throw" => Cause
    /\ exit = "success" => Success
    /\ exit = "failure" => Cause

\* A handler ends.
LEMMA EndsFinish ==
    ASSUME Kinds, Ends, NEW t \in Threads, NEW next, NEW tasks, Finish(t, next, tasks),
           UNCHANGED <<stopped, exit>>,
           Success => Success', Cause => Cause',
           exception' \in BOOLEAN, exception => exception', exception' => Cause',
           stoppers' \in Nat, stoppers' > 0 => exception' \/ Success',
           next.kind = "caught" => exception',
           next.kind = "gone" => stopped \/ exception',
           \A h \in tasks \cup {next} : h.kind = "throw" => Cause'
    PROVE  Ends'
<1>1. /\ running'[t] = next
      /\ \A u \in Threads : u # t => running'[u] = running[u]
      /\ posted' = posted \cup tasks
    BY Finishes
<1>2. \A h \in Handlers' : h \in Handlers \/ h \in tasks \cup {next}
    BY <1>1 DEF Handlers, Threads
<1>3. \A h \in Handlers' : h.kind = "throw" => Cause'
    BY <1>2 DEF Ends
<1>4. \A u \in Threads : running'[u].kind = "caught" => exception'
    BY <1>1 DEF Ends
<1>5. \A u \in Threads : running'[u].kind = "gone" => stopped' \/ exception'
    BY <1>1 DEF Ends
<1> QED
    BY <1>3, <1>4, <1>5 DEF Ends, Threads

LEMMA StepGrows ==
    ASSUME IInv, Reported, [Next]_vars
    PROVE  /\ Reported' /\ (Success => Success') /\ (Error => Error')
           /\ Cause => Cause'
<1>1. [Signature!Next]_(Signature!vars) /\ [Readers!Next]_(Readers!vars)
    BY StepWorks DEF Works
<1>2. Reported' /\ (Success => Success') /\ (Error => Error')
    BY <1>1, ReportedHolds DEF IInv
<1>3. failed # {} => failed' # {}
    BY <1>1 DEF Readers!Next, Readers!vars, Readers!DoRead, Readers!RunTask, Readers!ReadLast,
                Readers!ReadSegment, Readers!Repost, Readers!ReadFails, Readers!AllEnded
<1> QED
    BY <1>2, <1>3 DEF Cause

\* Steps on a thread that leave stoppers and exception alone.
LEMMA EndsPlain ==
    ASSUME IInv, Reported, Ends, [Next]_vars, NEW t \in Threads,
           DoRead(t) \/ Read(t) \/ Repost(t) \/ Hash(t) \/ NextWrite(t) \/ ReleaseStrand(t)
    PROVE  Ends'
<1>1. UNCHANGED mainVars
    BY DEF DoRead, Read, Repost, Hash, NextWrite, ReleaseStrand
<1>2. PICK next, tasks :
          /\ Finish(t, next, tasks)
          /\ \A h \in tasks \cup {next} : h.kind \notin {"throw", "caught", "gone"}
    <2> DEFINE b == running[t].block_id
               segment == Readers!SegmentRead(running[t])
               next == IF running[t].kind # "read_segment" THEN Idle
                       ELSE Readers!Task("repost", b, 0)
    <2>1. CASE DoRead(t)
        <3>1. Readers!NextRead(b).kind \notin {"throw", "caught", "gone"}
            BY KindsOfTasks DEF ReadKinds, ReaderKinds
        <3> QED
            BY <2>1, <3>1, KindsOfTasks DEF DoRead
    <2>2. CASE Read(t)
        <3>1. Finish(t, next, {HashTask(segment)})
            BY <2>2 DEF Read
        <3> QED
            BY <3>1, KindsOfTasks
    <2>3. CASE Repost(t)
        BY <2>3, KindsOfTasks DEF Repost
    <2>4. CASE Hash(t) \/ NextWrite(t) \/ ReleaseStrand(t)
        <3>1. PICK nxt \in {Idle, WriteTask}, tsk \in SUBSET {WriteTask} : Finish(t, nxt, tsk)
            BY <2>4 DEF Hash, NextWrite, ReleaseStrand
        <3> QED
            BY <3>1, KindsOfTasks
    <2> QED
        BY <2>1, <2>2, <2>3, <2>4
<1>3. (Success => Success') /\ (Cause => Cause')
    BY StepGrows
<1>4. next.kind \notin {"caught", "gone"} /\ \A h \in tasks \cup {next} : h.kind # "throw"
    BY <1>2
<1>5. /\ stopped' = stopped /\ exit' = exit /\ exception' = exception /\ stoppers' = stoppers
      /\ Kinds
    BY <1>1 DEF mainVars, IInv, Control
<1>6. /\ exception \in BOOLEAN /\ stoppers \in Nat /\ (exception => Cause)
      /\ stoppers > 0 => exception \/ Success
    BY DEF Ends
<1> QED
    BY <1>2, <1>3, <1>4, <1>5, <1>6, EndsFinish

\* A read fails, or a handler throws, or its thread stops the context or leaves.
LEMMA EndsThrow ==
    ASSUME IInv, Reported, Ends, [Next]_vars, NEW t \in Threads,
           ReadFails(t) \/ Throw(t) \/ Shutdown(t) \/ Leave(t)
    PROVE  Ends'
<1>1. (Success => Success') /\ (Cause => Cause') /\ Kinds
    BY StepGrows DEF IInv, Control
<1>2. running[t] \in Handlers
    BY DEF Handlers
<1>3. /\ exception \in BOOLEAN /\ stoppers \in Nat /\ (exception => Cause)
      /\ stoppers > 0 => exception \/ Success
    BY DEF Ends
<1>4. CASE ReadFails(t)
    <2> DEFINE throw == ThrowTask(<<"read", running[t].block_id>>)
    <2>1. /\ Finish(t, Idle, {throw}) /\ failed' = failed \cup {running[t].block_id}
          /\ UNCHANGED mainVars
        BY <1>4 DEF ReadFails
    <2>2. Cause'
        BY <2>1 DEF Cause
    <2> HIDE DEF throw
    <2> QED
        BY <1>1, <1>3, <2>1, <2>2, KindsOfTasks, EndsFinish DEF mainVars
<1>5. CASE Throw(t)
    <2>1. /\ Finish(t, Caught, {}) /\ exception' = TRUE
          /\ UNCHANGED <<stopped, stoppers, exit>> /\ Cause
        BY <1>2, <1>5 DEF Throw, Ends
    <2> QED
        BY <1>1, <1>3, <2>1, KindsOfTasks, EndsFinish
<1>6. CASE Shutdown(t)
    <2>1. /\ Finish(t, Gone, {}) /\ stoppers' = stoppers + 1 /\ exception
          /\ UNCHANGED <<stopped, exception, exit>>
        BY <1>6, KindsOfTasks DEF Shutdown, Ends
    <2>2. stoppers' \in Nat
        BY <1>3, <2>1
    <2> QED
        BY <1>1, <1>3, <2>1, <2>2, KindsOfTasks, EndsFinish
<1>7. CASE Leave(t)
    <2>1. /\ Finish(t, Gone, {}) /\ stopped /\ UNCHANGED mainVars
        BY <1>7 DEF Leave
    <2> QED
        BY <1>1, <1>3, <2>1, KindsOfTasks, EndsFinish DEF mainVars
<1> QED
    BY <1>4, <1>5, <1>6, <1>7

\* The writer's callback: a success has the context stopped, an error throws.
LEMMA WriteReports ==
    ASSUME IInv, NEW t \in Threads, Write(t)
    PROVE  LET ok == results' # results /\ Last(results') = "success"
               error == results' # results /\ Last(results') = "error"
           IN  /\ stoppers' = stoppers + (IF ok THEN 1 ELSE 0)
               /\ ok => Success' /\ results = <<>> /\ results' # <<>>
               /\ error => Error'
<1>1. /\ \/ results' = results
         \/ results = <<>> /\ results' = Append(results, "success")
         \/ results' = Append(results, "error")
      /\ WP!IInv
    BY HandleWorks DEF Write, IInv
<1> DEFINE ok == results' # results /\ Last(results') = "success"
           error == results' # results /\ Last(results') = "error"
<1>2. stoppers' = stoppers + (IF ok THEN 1 ELSE 0)
    BY DEF Write
<1>3. CASE results' = results
    BY <1>2, <1>3
<1>4. CASE results = <<>> /\ results' = Append(results, "success")
    <2>1. /\ Last(results') = "success" /\ results' # <<>>
          /\ Range(results') = Range(results) \cup {"success"}
        BY <1>1, <1>4, Appended
    <2> QED
        BY <1>2, <1>4, <2>1 DEF Success
<1>5. CASE results' = Append(results, "error")
    <2>1. /\ Last(results') = "error"
          /\ Range(results') = Range(results) \cup {"error"}
        BY <1>1, <1>5, Appended
    <2> QED
        BY <1>2, <2>1 DEF Error
<1> QED
    BY <1>1, <1>3, <1>4, <1>5

LEMMA EndsWrite ==
    ASSUME IInv, Reported, Ends, [Next]_vars, NEW t \in Threads, Write(t)
    PROVE  Ends'
<1> DEFINE ok == results' # results /\ Last(results') = "success"
           error == results' # results /\ Last(results') = "error"
           tasks == IF error THEN {ThrowTask(<<"write", Len(results')>>)} ELSE {}
<1>1. (Success => Success') /\ (Cause => Cause') /\ Kinds
    BY StepGrows DEF IInv, Control
<1>2. /\ exception \in BOOLEAN /\ stoppers \in Nat /\ (exception => Cause)
      /\ stoppers > 0 => exception \/ Success
    BY DEF Ends
<1>3. /\ stoppers' = stoppers + (IF ok THEN 1 ELSE 0)
      /\ ok => Success'
      /\ error => Error'
    BY WriteReports
<1>4. Finish(t, StrandHeld, tasks) /\ UNCHANGED <<stopped, exception, exit>>
    BY DEF Write
<1>5. \A h \in tasks \cup {StrandHeld} : h.kind = "throw" => Cause'
    BY <1>3, KindsOfTasks DEF Cause
<1> HIDE DEF tasks, ok, error
<1>6. stoppers' \in Nat /\ (stoppers' > 0 => exception' \/ Success')
    <2>1. CASE ok
        BY <1>2, <1>3, <2>1
    <2>2. CASE ~ok
        BY <1>1, <1>2, <1>3, <1>4, <2>2
    <2> QED
        BY <2>1, <2>2
<1> QED
    BY <1>1, <1>2, <1>4, <1>5, <1>6, KindsOfTasks, EndsFinish

LEMMA EndsMain ==
    ASSUME IInv, Reported, Ends, [Next]_vars,
           \/ StopContext \/ MainReturns \/ UNCHANGED vars
           \/ \E t \in Threads : OutOfMemory(t)
           \/ \E t \in Threads : Take(t)
    PROVE  Ends'
<1>1. (Success => Success') /\ (Cause => Cause')
    BY StepGrows
<1>2. CASE \E t \in Threads : Take(t)
    <2>1. PICK t \in Threads : Take(t)
        BY <1>2
    <2>2. PICK h \in posted : posted' = posted \ {h} /\ running' = [running EXCEPT ![t] = h]
        BY <2>1 DEF Take
    <2>3. /\ running'[t] = h /\ \A u \in Threads : u # t => running'[u] = running[u]
          /\ h.kind \notin {"caught", "gone"}
        BY <2>2 DEF IInv, Control, Kinds, HandlerKinds, ReaderKinds
    <2>4. \A g \in Handlers' : g \in Handlers
        BY <2>2, <2>3 DEF Handlers, Threads
    <2>5. UNCHANGED mainVars
        BY <2>1 DEF Take
    <2>6. \A u \in Threads : /\ running'[u].kind = "caught" => running[u].kind = "caught"
                             /\ running'[u].kind = "gone" => running[u].kind = "gone"
        BY <2>3
    <2>7. \A g \in Handlers' : g.kind = "throw" => Cause'
        BY <1>1, <2>4 DEF Ends
    <2>8. /\ \A u \in Threads : running'[u].kind = "caught" => exception
          /\ \A u \in Threads : running'[u].kind = "gone" => stopped \/ exception
        BY <2>6 DEF Ends
    <2>9. UNCHANGED <<stopped, stoppers, exception, exit>>
        BY <2>5 DEF mainVars
    <2> QED
        BY <1>1, <2>7, <2>8, <2>9 DEF Ends, Threads
<1>3. CASE UNCHANGED vars \/ \E t \in Threads : OutOfMemory(t)
    <2>1. /\ UNCHANGED <<posted, running, stopped, stoppers, exception>>
          /\ exit' = exit \/ exit' = "crashed"
        BY <1>3 DEF vars, mainVars, OutOfMemory
    <2> QED
        BY <1>1, <2>1 DEF Ends, Handlers, Threads
<1>4. CASE StopContext
    <2>1. UNCHANGED <<posted, running, exception, exit>>
        BY <1>4 DEF StopContext
    <2>2. stopped' /\ stopped' \in BOOLEAN
        BY <1>4 DEF StopContext
    <2>3. stoppers' \in Nat /\ (exception \/ Success)
        BY <1>4 DEF StopContext, Ends
    <2> QED
        BY <1>1, <2>1, <2>2, <2>3 DEF Ends, Handlers, Threads
<1>5. CASE MainReturns
    <2>1. /\ UNCHANGED <<posted, running, stopped, stoppers, exception>>
          /\ exit' \in {IF exception THEN "failure" ELSE "success", "crashed"}
          /\ running[0].kind = "gone"
        BY <1>5, KindsOfTasks DEF MainReturns
    <2>2. 0 \in Threads
        BY StorageTypes DEF Threads
    <2>3. /\ exception => Cause
          /\ ~exception => Success
        BY <2>1, <2>2 DEF Ends
    <2> QED
        BY <1>1, <2>1, <2>3 DEF Ends, Handlers, Threads
<1> QED
    BY <1>2, <1>3, <1>4, <1>5

LEMMA EndsHolds ==
    ASSUME IInv, Reported, Ends, [Next]_vars
    PROVE  Ends'
BY EndsPlain, EndsThrow, EndsWrite, EndsMain DEF Next, ThreadStep, Exited

\* A thread has the context stopped once, when it is about to be gone; the writer
\* once, with its first report.
GoneThreads == {t \in Threads : running[t].kind = "gone"}
Credit == Cardinality(GoneThreads) + (IF results = <<>> THEN 0 ELSE 1)
StoppersFew == stoppers <= Credit

LEMMA CreditNat ==
    /\ IsFiniteSet(Threads) /\ Cardinality(Threads) = Len(Storage)
    /\ IsFiniteSet(GoneThreads) /\ Cardinality(GoneThreads) \in Nat
    /\ Cardinality(GoneThreads) <= Len(Storage)
    /\ Credit \in Nat /\ Credit <= Len(Storage) + 1
<1>1. Len(Storage) \in Nat
    BY StorageTypes
<1>2. IsFiniteSet(Threads) /\ Cardinality(Threads) = Len(Storage)
    <2>1. /\ IsFiniteSet(0..(Len(Storage) - 1))
          /\ Cardinality(0..(Len(Storage) - 1)) = IF 0 > Len(Storage) - 1 THEN 0
                                                  ELSE (Len(Storage) - 1) - 0 + 1
        BY <1>1, FS_Interval
    <2> QED
        BY <1>1, <2>1 DEF Threads
<1>3. GoneThreads \subseteq Threads
    BY DEF GoneThreads
<1>4. /\ IsFiniteSet(GoneThreads) /\ Cardinality(GoneThreads) \in Nat
      /\ Cardinality(GoneThreads) <= Cardinality(Threads)
    BY <1>2, <1>3, FS_Subset, FS_CardinalityType
<1> QED
    BY <1>1, <1>2, <1>4 DEF Credit

\* The threads that are gone stay gone, and a handler may end with one more.
LEMMA GoneGrows ==
    ASSUME Kinds, NEW t \in Threads, NEW next, NEW tasks, Finish(t, next, tasks),
           running[t].kind # "gone"
    PROVE  GoneThreads' = IF next.kind = "gone" THEN GoneThreads \cup {t} ELSE GoneThreads
BY Finishes DEF GoneThreads, Threads

LEMMA ResultsStay ==
    ASSUME IInv, [Next]_vars
    PROVE  results # <<>> => results' # <<>>
<1>1. [Signature!Next]_(Signature!vars)
    BY StepWorks DEF Works
<1>2. CASE Signature!Handle
    BY <1>2, HandleWorks, Appended DEF IInv
<1> QED
    BY <1>1, <1>2 DEF Signature!Next, Signature!Deliver, Signature!AllHandled, Signature!vars

LEMMA FewHolds ==
    ASSUME IInv, Reported, Ends, StoppersFew, [Next]_vars
    PROVE  StoppersFew'
<1>1. stoppers \in Nat /\ stoppers <= Credit /\ Credit \in Nat
    BY CreditNat DEF Ends, StoppersFew
<1>2. Cardinality(GoneThreads) \in Nat /\ IsFiniteSet(GoneThreads)
    BY CreditNat
<1>3. results # <<>> => results' # <<>>
    BY ResultsStay
<1>4. Kinds
    BY DEF IInv, Control
<1>5. ASSUME GoneThreads' = GoneThreads, stoppers' <= stoppers, stoppers' \in Nat
      PROVE  StoppersFew'
    <2>1. Cardinality(GoneThreads') = Cardinality(GoneThreads)
        BY <1>5
    <2>2. Credit' = Cardinality(GoneThreads) + (IF results' = <<>> THEN 0 ELSE 1)
        BY <2>1 DEF Credit
    <2>3. Credit <= Credit' /\ Credit' \in Nat
        BY <1>2, <1>3, <2>2 DEF Credit
    <2> QED
        BY <1>1, <1>5, <2>3 DEF StoppersFew
<1>6. ASSUME NEW t \in Threads, Take(t) PROVE StoppersFew'
    <2>1. PICK h \in posted : posted' = posted \ {h} /\ running' = [running EXCEPT ![t] = h]
        BY <1>6 DEF Take
    <2>2. running[t].kind # "gone" /\ h.kind # "gone"
        BY <1>4, <1>6, <2>1, KindsOfTasks DEF Take, Kinds, HandlerKinds, ReaderKinds
    <2>3. GoneThreads' = GoneThreads
        BY <1>4, <2>1, <2>2 DEF GoneThreads, Kinds, Threads
    <2> QED
        BY <1>1, <1>5, <1>6, <2>3 DEF Take, mainVars
<1>7. ASSUME NEW t \in Threads,
             \/ DoRead(t) \/ Read(t) \/ Repost(t) \/ ReadFails(t) \/ Hash(t)
             \/ NextWrite(t) \/ ReleaseStrand(t) \/ Throw(t)
      PROVE  StoppersFew'
    <2>1. running[t].kind # "gone" /\ stoppers' = stoppers
        BY <1>7, KindsOfTasks
           DEF DoRead, Read, Repost, ReadFails, Hash, NextWrite, ReleaseStrand, Throw,
               mainVars, ReadKinds, ReaderKinds
    <2>2. PICK next, tasks : Finish(t, next, tasks) /\ next.kind # "gone"
        <3> DEFINE repost == Readers!Task("repost", running[t].block_id, 0)
                   next == IF running[t].kind # "read_segment" THEN Idle ELSE repost
        <3>1. next.kind # "gone" /\ Idle.kind # "gone" /\ WriteTask.kind # "gone"
              /\ Caught.kind # "gone"
            BY KindsOfTasks
        <3>2. CASE Read(t)
            BY <3>1, <3>2 DEF Read
        <3>3. CASE ~Read(t)
            BY <1>7, <3>1, <3>3 DEF DoRead, Repost, ReadFails, Hash, NextWrite, ReleaseStrand, Throw
        <3> QED
            BY <3>2, <3>3
    <2>3. GoneThreads' = GoneThreads
        BY <1>4, <2>1, <2>2, GoneGrows
    <2> QED
        BY <1>1, <1>5, <2>1, <2>3
<1>8. ASSUME NEW t \in Threads, Shutdown(t) \/ Leave(t) PROVE StoppersFew'
    <2>1. /\ Finish(t, Gone, {}) /\ running[t].kind # "gone" /\ results' = results
          /\ stoppers' = stoppers \/ stoppers' = stoppers + 1
        BY <1>8, KindsOfTasks DEF Shutdown, Leave, mainVars, writerVars
    <2>2. GoneThreads' = GoneThreads \cup {t} /\ t \notin GoneThreads
        BY <1>4, <2>1, KindsOfTasks, GoneGrows DEF GoneThreads
    <2>3. Cardinality(GoneThreads') = Cardinality(GoneThreads) + 1
        BY <1>2, <2>2, FS_AddElement
    <2>4. Credit' = Credit + 1
        BY <1>2, <2>1, <2>3 DEF Credit
    <2> QED
        BY <1>1, <2>1, <2>4 DEF StoppersFew
<1>9. ASSUME NEW t \in Threads, Write(t) PROVE StoppersFew'
    <2> DEFINE ok == results' # results /\ Last(results') = "success"
    <2>1. /\ stoppers' = stoppers + (IF ok THEN 1 ELSE 0)
          /\ ok => results = <<>> /\ results' # <<>>
        BY <1>9, WriteReports
    <2>2. running[t].kind # "gone" /\ GoneThreads' = GoneThreads
        BY <1>4, <1>9, KindsOfTasks, GoneGrows DEF Write
    <2> HIDE DEF ok
    <2>3. CASE ok
        <3>1. Cardinality(GoneThreads') = Cardinality(GoneThreads)
            BY <2>2
        <3>2. Credit' = Cardinality(GoneThreads) + 1 /\ Credit = Cardinality(GoneThreads)
            BY <1>2, <2>1, <2>3, <3>1 DEF Credit
        <3> QED
            BY <1>1, <1>2, <2>1, <2>3, <3>2 DEF StoppersFew
    <2>4. CASE ~ok
        BY <1>1, <1>5, <2>1, <2>2, <2>4
    <2> QED
        BY <2>3, <2>4
<1>10. CASE StopContext \/ MainReturns \/ UNCHANGED vars \/ \E t \in Threads : OutOfMemory(t)
    <2>1. GoneThreads' = GoneThreads
        BY <1>10 DEF StopContext, MainReturns, vars, OutOfMemory, GoneThreads, Threads
    <2>2. stoppers' <= stoppers /\ stoppers' \in Nat
        BY <1>1, <1>10 DEF StopContext, MainReturns, vars, mainVars, OutOfMemory
    <2> QED
        BY <1>5, <2>1, <2>2
<1> QED
    BY <1>6, <1>7, <1>8, <1>9, <1>10 DEF Next, ThreadStep, Exited

Outcome == IInv /\ Reported /\ Ends /\ StoppersFew

LEMMA InitOutcome == Init => Outcome
<1> SUFFICES ASSUME Init PROVE Outcome
    OBVIOUS
<1>1. IInv
    BY InitWorks
<1>2. results = <<>> /\ output = <<>> /\ Range(results) = {}
    BY DEF Init, Signature!Init, Range
<1>3. Reported
    BY <1>2 DEF Reported, Success
<1>4. \A h \in Handlers : h.kind \in {"do_read", "idle"}
    BY KindsOfTasks DEF Init, Handlers
<1>5. \A t \in Threads : running[t].kind = "idle"
    BY KindsOfTasks DEF Init
<1>6. Ends
    <2>1. ~stopped /\ ~exception /\ stopped \in BOOLEAN /\ exception \in BOOLEAN
        BY DEF Init
    <2>2. stoppers \in Nat /\ ~(stoppers > 0) /\ exit = "none"
        BY DEF Init
    <2>3. \A h \in Handlers : h.kind # "throw"
        BY <1>4
    <2>4. \A t \in Threads : running[t].kind # "caught" /\ running[t].kind # "gone"
        BY <1>5
    <2> QED
        BY <2>1, <2>2, <2>3, <2>4 DEF Ends
<1>7. StoppersFew
    BY CreditNat DEF Init, StoppersFew
<1> QED
    BY <1>1, <1>3, <1>6, <1>7 DEF Outcome

LEMMA StepOutcome == Outcome /\ [Next]_vars => Outcome'
BY StepWorks, StepGrows, EndsHolds, FewHolds DEF Outcome, Works

LEMMA OutcomeHolds == Spec => []Outcome
BY InitOutcome, StepOutcome, PTL DEF Spec

\* Type correctness: in particular no more threads are started to stop the context
\* than there are threads and a success.
THEOREM TypeCorrect == Spec => []TypeOK
<1>1. Outcome => TypeOK
    <2> SUFFICES ASSUME Outcome PROVE TypeOK
        OBVIOUS
    <2>1. stoppers \in 0..(Len(Storage) + 1)
        BY CreditNat, StorageTypes DEF Outcome, Ends, StoppersFew
    <2> QED
        BY <2>1 DEF TypeOK, Outcome, Ends, IInv, Control, Kinds
<1> QED
    BY <1>1, OutcomeHolds, PTL

\* When the program has exited successfully the file lacks one planned segment at
\* most, and that has no whole chunk.
THEOREM SuccessLosesBareTail == Spec => []OnlyBareTailLost
<1>1. Outcome => OnlyBareTailLost
    <2> SUFFICES ASSUME Outcome, exit = "success"
                 PROVE  /\ Planned \ Range(output) \subseteq BareTails
                        /\ Cardinality(Planned \ Range(output)) <= 1
        BY DEF OnlyBareTailLost
    <2> DEFINE lost == Planned \ Range(output)
    <2>1. Success /\ WP!IInv
        BY DEF Outcome, Ends, IInv
    <2>2. \A s \in lost : s.chunk_count = 0
        <3>1. WP!OnlyBareTailMissing
            BY <2>1, WriterInputsHold, WP!MissingIsBare
        <3> QED
            BY <2>1, <3>1 DEF WP!OnlyBareTailMissing, WP!Range, Range, Success
    <2>3. \A s, u \in lost : s = u
        BY <2>2, OneBareTail
    <2> HIDE DEF lost
    <2>4. Cardinality(lost) <= 1
        <3>1. CASE lost = {}
            BY <3>1, FS_EmptySet
        <3>2. CASE lost # {}
            <4>1. PICK s \in lost : TRUE
                BY <3>2
            <4>2. lost = {s}
                BY <2>3, <4>1
            <4>3. Cardinality({s}) = 1
                BY FS_Singleton
            <4> QED
                BY <4>2, <4>3
        <3> QED
            BY <3>1, <3>2
    <2> QED
        BY <2>2, <2>4 DEF lost, BareTails
<1> QED
    BY <1>1, OutcomeHolds, PTL

\* The program fails only when a read or the write has failed, or when a bare tail
\* has come to the writer too late.
THEOREM FailureIsCaused == Spec => []FailureHasCause
<1>1. Outcome => FailureHasCause
    <2> SUFFICES ASSUME Outcome, exit = "failure", failed = {}
                 PROVE  \/ results # <<>> /\ results[1] = "error"
                        \/ results = <<"success", "error">> /\ BareTails # {}
        BY DEF FailureHasCause
    <2>1. Error
        BY DEF Outcome, Ends, Cause
    <2>2. results # <<>> /\ results # <<"success">>
        <3>1. Range(<<>>) = {} /\ Range(<<"success">>) = {"success"}
            BY DEF Range
        <3> QED
            BY <2>1, <3>1 DEF Error
    <2> QED
        BY <2>2 DEF Outcome, Reported, BareTails
<1> QED
    BY <1>1, OutcomeHolds, PTL

\* What the job's file has: nothing before the first report, every whole chunk
\* after a success.
LEMMA ContentsKnown ==
    ASSUME Outcome
    PROVE  /\ output = <<>> <=> Contents = "empty"
           /\ Contents \in {"empty", "partial", "complete"}
           /\ Success => Contents = "complete"
<1>1. Success => output # <<>>
    BY DEF Outcome, Reported
<1>2. Success => UNION {Signature!ChunksOf(s) : s \in Range(output)} = Signature!FullChunks
    <2>1. SUFFICES ASSUME Success
                   PROVE  UNION {Signature!ChunksOf(s) : s \in Range(output)} = Signature!FullChunks
        OBVIOUS
    <2>2. UNION {WP!ChunksOf(s) : s \in WP!Range(output)} = WP!FullChunks
        BY <2>1 DEF Outcome, IInv, WP!IInv, WP!CompleteOnSuccess, Success, Range, WP!Range
    <2>3. Signature!FullChunks = WP!FullChunks
        BY DEF Signature!FullChunks, WP!FullChunks, Signature!ChunksCount, WP!ChunksCount,
               Signature!GetBlock, WP!GetBlock, Signature!BlockIds, WP!BlockIds
    <2>4. \A s : Signature!ChunksOf(s) = WP!ChunksOf(s)
        BY DEF Signature!ChunksOf, WP!ChunksOf, Signature!ChunkIds, WP!ChunkIds
    <2>5. Range(output) = WP!Range(output)
        BY DEF Range, WP!Range
    <2> QED
        BY <2>2, <2>3, <2>4, <2>5
<1> QED
    BY <1>1, <1>2 DEF Contents

ContentsGood == Success => Contents = "complete"

LEMMA ContentsNext == Outcome' => ContentsGood'
<1>1. Outcome => ContentsGood
    BY ContentsKnown DEF ContentsGood
<1> QED
    BY <1>1, PTL

\* The output changes once, from nothing, and then the program goes on.
LEMMA OutputStep ==
    ASSUME Outcome, [Next]_vars, output' # output
    PROVE  output = <<>> /\ exit = "none" /\ exit' = exit
<1>1. \E t \in Threads : Write(t) /\ exit = "none"
    BY DEF Next, ThreadStep, StopContext, MainReturns, Exited, Take, DoRead, Read, Repost,
           ReadFails, Hash, Signature!Deliver, NextWrite, ReleaseStrand, Throw, Shutdown, Leave,
           OutOfMemory, vars, writerVars
<1>2. PICK t \in Threads : Write(t) /\ exit = "none"
    BY <1>1
<1>3. results = <<>>
    BY <1>2, HandleWorks DEF Write, Outcome, IInv
<1> QED
    BY <1>2, <1>3 DEF Write, Outcome, Reported

\* The program as a whole is a SignatureJob.
THEOREM JobImplemented == Spec => JobRefined
<1>1. Init => Job!Init
    <2>1. Init => output = <<>> /\ exit = "none"
        BY DEF Init, Signature!Init
    <2> QED
        BY <2>1 DEF Job!Init, Contents
<1>2. Outcome /\ Outcome' /\ [Next]_vars => [Job!Next]_(Job!vars)
    <2> SUFFICES ASSUME Outcome, Outcome', [Next]_vars PROVE [Job!Next]_(Job!vars)
        OBVIOUS
    <2> DEFINE status == IF exit = "none" THEN "running" ELSE exit
    <2>1. CASE output' # output
        <3>1. Contents = "empty" /\ exit = "none" /\ exit' = "none"
            BY <2>1, OutputStep, ContentsKnown
        <3>2. Contents' \in {"empty", "partial", "complete"}
            BY DEF Contents
        <3> QED
            BY <3>1, <3>2 DEF Job!Next, Job!Write, Job!vars
    <2>2. CASE output' = output
        <3>1. Contents' = Contents
            BY <2>2 DEF Contents
        <3>2. CASE exit' = exit
            BY <3>1, <3>2 DEF Job!vars
        <3>3. CASE exit' # exit
            <4>1. exit = "none"
                BY <3>3 DEF Next, ThreadStep, Exited, vars, mainVars
            <4>2. exit' \in {"success", "failure", "crashed"} /\ (exit' = "success" => Success')
                BY <3>3, <4>1 DEF Outcome, Ends
            <4>3. exit' = "success" => Contents = "complete"
                BY <3>1, <4>2, ContentsNext DEF ContentsGood
            <4> QED
                BY <3>1, <4>1, <4>2, <4>3 DEF Job!Next, Job!Succeed, Job!Fail, Job!vars
        <3> QED
            BY <3>2, <3>3
    <2> QED
        BY <2>1, <2>2
<1> QED
    BY <1>1, <1>2, OutcomeHolds, PTL DEF Spec, JobRefined, Job!Spec

=============================================================================
