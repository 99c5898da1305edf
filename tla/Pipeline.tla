------------------------------- MODULE Pipeline -------------------------------
(***************************************************************************)
(* The program (src/v2/main.cpp): readers, hasher and writer as handlers   *)
(* of one io_context, which a thread per block runs; thread 0 is main.     *)
(* The writer's success and any exception that leaves run() have the       *)
(* context stopped by a detached thread; main then looks for an exception  *)
(* and exits.  The other threads are never joined.                         *)
(*                                                                         *)
(* The io_context is external: a posted handler is run once, by some       *)
(* thread inside run(), in no promised order; a thread leaves run() when   *)
(* it finds the context stopped between two handlers, or by an exception.  *)
(***************************************************************************)
EXTENDS Blocks, FiniteSets, SequencesExt

CONSTANT
    WriteMayFail     \* whether the output stream may fail while it is open

\* All blocks but the last are made of whole chunks, one at least.
ASSUME PipelineInputs ==
    /\ Storage \in Seq([block_id : Nat, offset : Nat, size : 0..FileSize,
                       chunk_size : Nat \ {0}])
    /\ \A i \in 1..(Len(Storage) - 1) :
           ChunksCount(Storage[i]) > 0 /\ TailSize(Storage[i]) = 0
    /\ WriteMayFail \in BOOLEAN

VARIABLES
    offset, position,                            \* the readers
    inbox, segments, chunks_count, stream,
    output, results,                             \* the writer
    posted,          \* handlers queued in the io_context
    running,         \* what each thread is at
    stopped,         \* the context is stopped
    stoppers,        \* detached threads that have yet to stop it
    exception,       \* whether occurred_exception is set
    exit,            \* how the process ended, or "none"
    emitted, failed  \* history: segments and errors the readers called back with

readerVars == <<offset, position, emitted, failed>>
writerVars == <<inbox, segments, chunks_count, stream, output, results>>
mainVars == <<stopped, stoppers, exception, exit>>
vars == <<readerVars, writerVars, mainVars, posted, running>>

\* One thread per block; number 0 is the main thread.
Threads == 0..(Len(Storage) - 1)

-----------------------------------------------------------------------------
(* Handlers, and what else a thread can be at *)

ReaderKinds == {"do_read", "read_entire_block", "read_segment", "read_tail", "repost"}
ReadKinds == ReaderKinds \ {"do_read", "repost"}

HashTask(segment) == [kind |-> "hash", segment |-> segment]
ThrowTask(cause) == [kind |-> "throw", cause |-> cause]
WriteTask == [kind |-> "write"]      \* the writer's strand has a handler to run
StrandHeld == [kind |-> "strand"]    \* on the strand, between two of its handlers
Idle == [kind |-> "idle"]            \* in run(), without a handler
Caught == [kind |-> "caught"]        \* out of run(), exception stored
Gone == [kind |-> "gone"]            \* thread_worker has returned

Handlers == posted \cup {running[t] : t \in Threads}
ReaderTasks == {h \in Handlers : h.kind \in ReaderKinds}
StrandBusy == \E h \in Handlers : h.kind \in {"write", "strand"}

\* What the hasher makes of the segments the blocks are to be read in.
Planned ==
    UNION {{Hashed(s) : s \in PlanOf(Storage[i], SegmentHint)} : i \in DOMAIN Storage}

Readers == INSTANCE BlockReader WITH tasks <- ReaderTasks
Signature == INSTANCE Writer

-----------------------------------------------------------------------------

\* Everything is constructed and every reader has posted its first do_read.
Init ==
    /\ offset = [b \in Threads |-> 0]
    /\ position = [b \in Threads |-> 0]
    /\ emitted = {}
    /\ failed = {}
    /\ Signature!Init
    /\ posted = {Readers!DoReadTask(b) : b \in Threads}
    /\ running = [t \in Threads |-> Idle]
    /\ stopped = FALSE
    /\ stoppers = 0
    /\ exception = FALSE
    /\ exit = "none"

\* The handler of thread t ends; the thread is at `next' and `tasks' are posted.
Finish(t, next, tasks) ==
    /\ running' = [running EXCEPT ![t] = next]
    /\ posted' = posted \cup tasks

Take(t) ==
    /\ running[t] = Idle
    /\ ~stopped
    /\ \E h \in posted :
           /\ posted' = posted \ {h}
           /\ running' = [running EXCEPT ![t] = h]
    /\ UNCHANGED <<readerVars, writerVars, mainVars>>

-----------------------------------------------------------------------------
(* Handlers of the readers: the actions of BlockReader, on a thread *)

\* Mutants: the offset is not advanced; the next do_read is posted with the read.
DoReadInPlace(t) ==
    LET b == running[t].block_id
    IN  /\ running[t].kind = "do_read"
        /\ Finish(t, Idle, {Readers!NextRead(b)})
        /\ UNCHANGED <<readerVars, writerVars, mainVars>>

DoReadAhead(t) ==
    LET b == running[t].block_id
        more == Readers!NextRead(b).kind = "read_segment"
    IN  /\ running[t].kind = "do_read"
        /\ Readers!AdvanceOffset(b)
        /\ Finish(t, Idle, {Readers!NextRead(b)} \cup
                             (IF more THEN {Readers!DoReadTask(b)} ELSE {}))
        /\ UNCHANGED <<position, emitted, failed, writerVars, mainVars>>

DoRead(t) ==
    LET b == running[t].block_id
    IN  /\ running[t].kind = "do_read"
        /\ Readers!AdvanceOffset(b)
        /\ Finish(t, Idle, {Readers!NextRead(b)})
        /\ UNCHANGED <<position, emitted, failed, writerVars, mainVars>>

\* A read succeeds: the callback posts the hashing of its segment.
Read(t) ==
    LET task == running[t]
        segment == Readers!SegmentRead(task)
        last == task.kind # "read_segment"
        next == IF last THEN Idle ELSE Readers!Task("repost", task.block_id, 0)
    IN  /\ task.kind \in ReadKinds
        /\ emitted' = emitted \cup {segment}
        /\ Readers!AdvancePosition(task)
        /\ Finish(t, next, {HashTask(segment)})
        /\ UNCHANGED <<offset, failed, writerVars, mainVars>>

Repost(t) ==
    /\ running[t].kind = "repost"
    /\ Finish(t, Idle, {Readers!DoReadTask(running[t].block_id)})
    /\ UNCHANGED <<readerVars, writerVars, mainVars>>

\* A read fails: the callback posts a handler that throws.
ReadFails(t) ==
    LET b == running[t].block_id
    IN  /\ ReadMayFail
        /\ running[t].kind \in ReadKinds
        /\ failed' = failed \cup {b}
        /\ Finish(t, Idle, {ThrowTask(<<"read", b>>)})
        /\ UNCHANGED <<offset, position, emitted, writerVars, mainVars>>

-----------------------------------------------------------------------------
(* Hasher and writer *)

\* Mutants: every segment posts a handler of its own, as without a strand; the
\* remainder's hash passes for that of a whole chunk.
HashUnserialised(t) ==
    /\ running[t].kind = "hash"
    /\ Signature!Deliver(Hashed(running[t].segment))
    /\ Finish(t, Idle, {WriteTask})
    /\ UNCHANGED <<readerVars, mainVars>>

HashCountingTail(t) ==
    LET hashed == Hashed(running[t].segment)
    IN  /\ running[t].kind = "hash"
        /\ Signature!Deliver([hashed EXCEPT !.chunk_count = hashed.size])
        /\ Finish(t, Idle, IF StrandBusy THEN {} ELSE {WriteTask})
        /\ UNCHANGED <<readerVars, mainVars>>

\* The hash is handed to the writer, whose strand gets into the queue of the
\* context unless it is there or running already.
Hash(t) ==
    /\ running[t].kind = "hash"
    /\ Signature!Deliver(Hashed(running[t].segment))
    /\ Finish(t, Idle, IF StrandBusy THEN {} ELSE {WriteTask})
    /\ UNCHANGED <<readerVars, mainVars>>

\* Mutants: the context is not stopped; a success falls through to the error branch.
WriteWithoutStop(t) ==
    LET error == results' # results /\ Last(results') = "error"
    IN  /\ running[t] = WriteTask
        /\ Signature!Handle
        /\ Finish(t, StrandHeld,
                  IF error THEN {ThrowTask(<<"write", Len(results')>>)} ELSE {})
        /\ UNCHANGED <<readerVars, mainVars>>

WriteFallsThrough(t) ==
    LET reported == results' # results
        ok == reported /\ Last(results') = "success"
    IN  /\ running[t] = WriteTask
        /\ Signature!Handle
        /\ stoppers' = stoppers + (IF ok THEN 1 ELSE 0)
        /\ Finish(t, StrandHeld,
                  IF reported THEN {ThrowTask(<<"write", Len(results')>>)} ELSE {})
        /\ UNCHANGED <<readerVars, stopped, exception, exit>>

\* One handler of the strand.  The callback has the context stopped after a
\* success, and posts a handler that throws after an error.
Write(t) ==
    LET reported == results' # results
        ok == reported /\ Last(results') = "success"
        error == reported /\ Last(results') = "error"
    IN  /\ running[t] = WriteTask
        /\ Signature!Handle
        /\ stoppers' = stoppers + (IF ok THEN 1 ELSE 0)
        /\ Finish(t, StrandHeld,
                  IF error THEN {ThrowTask(<<"write", Len(results')>>)} ELSE {})
        /\ UNCHANGED <<readerVars, stopped, exception, exit>>

\* The strand may go on with a waiting handler at once ...
NextWrite(t) ==
    /\ running[t] = StrandHeld
    /\ inbox # <<>>
    /\ Finish(t, WriteTask, {})
    /\ UNCHANGED <<readerVars, writerVars, mainVars>>

\* ... or queue up again.
ReleaseStrand(t) ==
    /\ running[t] = StrandHeld
    /\ Finish(t, Idle, IF inbox = <<>> THEN {} ELSE {WriteTask})
    /\ UNCHANGED <<readerVars, writerVars, mainVars>>

-----------------------------------------------------------------------------
(* The end *)

\* Mutant: the exception is not kept.
ThrowAndForget(t) ==
    /\ running[t].kind = "throw"
    /\ Finish(t, Caught, {})
    /\ UNCHANGED <<readerVars, writerVars, mainVars>>

\* The handler throws: thread_worker stores the exception ...
Throw(t) ==
    /\ running[t].kind = "throw"
    /\ exception' = TRUE
    /\ Finish(t, Caught, {})
    /\ UNCHANGED <<readerVars, writerVars, stopped, stoppers, exit>>

\* Mutant: the thread has the context stopped again and again.
ShutdownRepeatedly(t) ==
    /\ running[t] = Caught
    /\ stoppers' = stoppers + 1
    /\ UNCHANGED <<readerVars, writerVars, stopped, exception, exit, posted, running>>

\* ... then has the context stopped, and returns.
Shutdown(t) ==
    /\ running[t] = Caught
    /\ stoppers' = stoppers + 1
    /\ Finish(t, Gone, {})
    /\ UNCHANGED <<readerVars, writerVars, stopped, exception, exit>>

\* run() returns on a stopped context.
Leave(t) ==
    /\ running[t] = Idle
    /\ stopped
    /\ Finish(t, Gone, {})
    /\ UNCHANGED <<readerVars, writerVars, mainVars>>

\* Memory or threads run out: an exception in a noexcept function, be it the
\* handler, the catch clause or shutdown_context, is std::terminate.
OutOfMemory(t) ==
    /\ running[t].kind \notin {"idle", "strand", "throw", "gone"}
    /\ exit' = "crashed"
    /\ UNCHANGED <<readerVars, writerVars, stopped, stoppers, exception, posted, running>>

\* A detached thread stops the context.
StopContext ==
    /\ stoppers > 0
    /\ stoppers' = stoppers - 1
    /\ stopped' = TRUE
    /\ UNCHANGED <<readerVars, writerVars, exception, exit, posted, running>>

\* Threads that still use what main is about to destroy.
Dangling == stoppers > 0 \/ \E t \in Threads : running[t] # Gone

\* Mutant: main does not look for an exception.
MainReturnsBlindly ==
    /\ running[0] = Gone
    /\ \/ exit' = "success"
       \/ Dangling /\ exit' = "crashed"
    /\ UNCHANGED <<readerVars, writerVars, stopped, stoppers, exception, posted, running>>

\* Main is out of run() and looks for an exception.  Whatever it finds, using
\* the destroyed context, readers, hasher or writer is undefined behaviour.
MainReturns ==
    /\ running[0] = Gone
    /\ \/ exit' = (IF exception THEN "failure" ELSE "success")
       \/ Dangling /\ exit' = "crashed"
    /\ UNCHANGED <<readerVars, writerVars, stopped, stoppers, exception, posted, running>>

\* The process is gone.
Exited == exit # "none" /\ UNCHANGED vars

ThreadStep(t) ==
    /\ exit = "none"
    /\ \/ Take(t) \/ DoRead(t) \/ Read(t) \/ Repost(t) \/ ReadFails(t)
       \/ Hash(t) \/ Write(t) \/ NextWrite(t) \/ ReleaseStrand(t)
       \/ Throw(t) \/ Shutdown(t) \/ Leave(t) \/ OutOfMemory(t)

Next ==
    \/ \E t \in Threads : ThreadStep(t)
    \/ exit = "none" /\ StopContext
    \/ exit = "none" /\ MainReturns
    \/ Exited

\* Every thread is scheduled: the workers, the detached ones and main.
Spec ==
    /\ Init
    /\ [][Next]_vars
    /\ \A t \in Threads : WF_vars(ThreadStep(t))
    /\ WF_vars(exit = "none" /\ StopContext)
    /\ WF_vars(exit = "none" /\ MainReturns)

-----------------------------------------------------------------------------
(* Properties *)

HandlerKinds == ReaderKinds \cup {"hash", "throw", "write"}

\* Type invariant: what is posted, what the threads are at, how main stands.
TypeOK ==
    /\ \A h \in posted : h.kind \in HandlerKinds
    /\ \A t \in Threads :
           running[t].kind \in HandlerKinds \cup {"strand", "idle", "caught", "gone"}
    /\ stopped \in BOOLEAN
    /\ stoppers \in 0..(Len(Storage) + 1)
    /\ exception \in BOOLEAN
    /\ exit \in {"none", "success", "failure", "crashed"}

BareTails == {s \in Planned : s.chunk_count = 0}

\* A successful exit can leave out one segment at most, and only a bare tail:
\* everything with a whole chunk has been read, hashed and written by then.
OnlyBareTailLost ==
    exit = "success" =>
        /\ Planned \ Range(output) \subseteq BareTails
        /\ Cardinality(Planned \ Range(output)) <= 1

\* A failure has a cause that failed, with one exception: a bare tail that
\* comes to the writer after it has finished makes a successful job fail.
FailureHasCause ==
    exit = "failure" =>
        \/ failed # {}
        \/ results # <<>> /\ results[1] = "error"
        \/ results = <<"success", "error">> /\ BareTails # {}

\* The threads use the writer one at a time, whoever posts to its strand, and
\* a segment in its queue is never forgotten.
StrandIsServed ==
    /\ Cardinality({t \in Threads : running[t].kind \in {"write", "strand"}}) <= 1
    /\ inbox # <<>> => StrandBusy

\* What keeps a reader's offset and descriptor from races on the pool, and its
\* chunks in order (module BlockReader).
OneTaskPerReader == Readers!OneTaskPerReader
ReadsInStep == Readers!ReadsInStep
ReadsThePlan == Readers!ReadsThePlan

\* The assertion "Should not exist": when a handler of the writer runs, its
\* segment's key is not in the map, because no reader has read a segment twice
\* and none was handed over twice.
NeverStoredTwice ==
    \A t \in Threads :
        running[t] = WriteTask /\ inbox # <<>> => ~Signature!HasKey(segments, Head(inbox))

\* On the threads the readers behave as BlockReader has them, ...
ReadersRefined == Readers!Init /\ [][Readers!Next]_(Readers!vars)

\* ... the writer as Writer has it, ...
WriterRefined == Signature!Init /\ [][Signature!Next]_(Signature!vars)

\* ... and the program as a whole as SignatureJob promises.
Contents ==
    IF output = <<>> THEN "empty"
    ELSE IF UNION {Signature!ChunksOf(s) : s \in Range(output)} = Signature!FullChunks
         THEN "complete" ELSE "partial"

Job == INSTANCE SignatureJob
           WITH contents <- Contents,
                status <- IF exit = "none" THEN "running" ELSE exit

JobRefined == Job!Spec

\* The program ends, whatever fails and in whatever order things happen.
Terminates == <>(exit # "none")

-----------------------------------------------------------------------------
(* What the documentation says and the code does not do. *)

\* README.md, V2: the hashes are written to the output file "when the hashing
\* of all segments/blocks is finished".
AllSegmentsWritten == exit = "success" => Planned \subseteq Range(output)

=============================================================================
