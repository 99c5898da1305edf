------------------------------- MODULE Startup -------------------------------
(***************************************************************************)
(* The second version from its command line to the start of the pool, and  *)
(* the way out (src/v2: arguments.cpp, main.cpp and the constructors of    *)
(* block_file_t, writer_t and block_reader_t).  Main is alone until it     *)
(* creates threads; what is hard is what a failure half way leaves behind, *)
(* and that the paths may name the same file.                              *)
(*                                                                         *)
(* What the pool computes is one step here (RunPool): module Pipeline.     *)
(* External: the file system, with files that names point to and that      *)
(* descriptors keep, and symbolic links; open(2), which takes the lowest   *)
(* descriptor; vector.                                                     *)
(***************************************************************************)
EXTENDS Arguments, Partition, FiniteSetsExt

CONSTANTS
    Requests,      \* command lines: [input, output, text]
    Directories,   \* what the names may point to at the start
    CoreCounts,    \* values of hardware_concurrency()
    FileSize,      \* bytes in a file
    NoPath         \* the option is not given

(***************************************************************************)
(* A name is an entry of a directory, however a path is spelled.  It points *)
(* to a file, a folder or nothing, or it is a link to another name.  Bound: *)
(* a path follows two links at most.                                        *)
(***************************************************************************)
Follow(names, path) == IF names[path] \in DOMAIN names THEN names[path] ELSE path

Target(names, path) == Follow(names, Follow(names, path))

\* Where a path gets by its links.
Leads(names, path) == names[Target(names, path)]

\* The paths given are names the file system can be asked for; a file that is not
\* there yet ("fresh") has no name.
ASSUME StartupInputs ==
    /\ \A r \in Requests, d \in Directories :
           {r.input, r.output} \ {NoPath} \subseteq DOMAIN d
    /\ \A r \in Requests :
           r.text = NoText \/ r.text.number \in Int \cup {NotANumber}
    /\ \A d \in Directories :
           /\ d \in [DOMAIN d -> {"input", "old", "folder", "none"} \cup DOMAIN d]
           /\ DOMAIN d \cap {"input", "old", "fresh", "folder", "none"} = {}
           /\ \A p \in DOMAIN d : Leads(d, p) \notin DOMAIN d
    /\ CoreCounts \subseteq Nat
    /\ \E most \in CoreCounts : \A n \in CoreCounts : n <= most
    /\ FileSize \in Nat

VARIABLES
    request, cores,
    pathSteals,    \* path( std::string && ) leaves its argument empty
    before,        \* history: what the names pointed to at the start
    directory,     \* what they point to now: a file, "folder", "none", or a name
    contents,      \* of each file
    open,          \* what each descriptor of the process refers to, or "none"
    stage,         \* what main is at
    chunk_size,
    block_count,
    exists,        \* local of writer_t's constructor
    stream,        \* the writer's descriptor, or -1
    capacity,      \* of the vector block_readers
    buffer,        \* where its elements are: it is moved when it grows
    readers,       \* the vector: each reader's descriptor
    posted,        \* posted handlers: the reader that `this' points to
    threads,       \* threads created
    signed,        \* history: contents of the file that was read
    exit           \* how the process ended, or "none"

fileVars == <<directory, contents>>
readerVars == <<capacity, buffer, readers, posted>>
givenVars == <<request, cores, pathSteals, before>>
vars == <<givenVars, fileVars, open, stage, chunk_size, block_count, exists, stream,
          readerVars, threads, signed, exit>>

Files == {"input", "old", "fresh"}
Originals == [f \in Files |-> CASE f = "input" -> "data"
                                [] f = "old" -> "old signature"
                                [] f = "fresh" -> "nothing"]

Descriptors == DOMAIN open
Free == {d \in Descriptors : open[d] = "none"}

\* Standard input may be closed; there are descriptors enough, but open(2) may
\* fail nevertheless.
Init ==
    /\ request \in Requests
    /\ cores \in CoreCounts
    /\ pathSteals \in BOOLEAN
    /\ before \in Directories
    /\ directory = before
    /\ contents = Originals
    /\ \E stdin \in {"none", "terminal"} :
           open = [d \in 0..(3 + Max(CoreCounts)) |->
                      CASE d = 0 -> stdin
                        [] d \in {1, 2} -> "terminal"
                        [] OTHER -> "none"]
    /\ stage = "parse"
    /\ chunk_size = 0
    /\ block_count = 0
    /\ exists = FALSE
    /\ stream = -1
    /\ capacity = 0
    /\ buffer = 0
    /\ readers = <<>>
    /\ posted = {}
    /\ threads = 0
    /\ signed = "nothing"
    /\ exit = "none"

\* An exception is on its way to main's catch clauses.
Throw(at) ==
    /\ stage = at
    /\ stage' = "failed"
    /\ UNCHANGED <<givenVars, fileVars, open, chunk_size, block_count, exists, stream,
                   readerVars, threads, signed, exit>>

-----------------------------------------------------------------------------
(* parser_t and arguments_t *)

CanParse ==
    /\ request.input # NoPath
    /\ request.output # NoPath
    /\ request.text # NoText => Castable(request.text.number)

Parse ==
    /\ stage = "parse"
    /\ CanParse
    /\ chunk_size' = IF request.text = NoText THEN DefaultChunk ELSE ParseChunkSize(request.text)
    /\ stage' = "check"
    /\ UNCHANGED <<givenVars, fileVars, open, block_count, exists, stream,
                   readerVars, threads, signed, exit>>

ParseFails == ~CanParse /\ Throw("parse")

\* The constructor makes absolute what it has moved from.  If that is empty,
\* the path becomes the current directory, which is not a regular file.
InputIsRegular == ~pathSteals /\ Leads(directory, request.input) \in Files

\* Mutant: one of the limits is enough.
CheckArgumentsLoosely ==
    /\ stage = "check"
    /\ InputIsRegular
    /\ ~(chunk_size < MinChunk /\ chunk_size > MaxChunk)
    /\ stage' = "layout"
    /\ UNCHANGED <<givenVars, fileVars, open, chunk_size, block_count, exists, stream,
                   readerVars, threads, signed, exit>>

CheckArguments ==
    /\ stage = "check"
    /\ InputIsRegular
    /\ ~(chunk_size < MinChunk \/ chunk_size > MaxChunk)
    /\ stage' = "layout"
    /\ UNCHANGED <<givenVars, fileVars, open, chunk_size, block_count, exists, stream,
                   readerVars, threads, signed, exit>>

\* One of these checks does not hold, or a call they make reports an error.
CheckFails == Throw("check")

-----------------------------------------------------------------------------
(* block_file_t: module BlockFile, of which the block count is needed here *)

LayOut ==
    /\ stage = "layout"
    /\ cores > 0
    /\ block_count' = FittingCount(FileSize, cores, chunk_size)
    /\ stage' = "exists"
    /\ UNCHANGED <<givenVars, fileVars, open, chunk_size, exists, stream,
                   readerVars, threads, signed, exit>>

SizeFails == Throw("layout")

DivisionTraps ==
    /\ stage = "layout"
    /\ cores = 0
    /\ exit' = "crashed"
    /\ UNCHANGED <<givenVars, fileVars, open, stage, chunk_size, block_count, exists, stream,
                   readerVars, threads, signed>>

-----------------------------------------------------------------------------
(* writer_t *)

\* The error code is not looked at: after an error nothing is taken to exist.
CheckOutput ==
    /\ stage = "exists"
    /\ exists' \in {Leads(directory, request.output) # "none", FALSE}
    /\ stage' = IF exists' THEN "remove" ELSE "open"
    /\ UNCHANGED <<givenVars, fileVars, open, chunk_size, block_count, stream,
                   readerVars, threads, signed, exit>>

\* Mutant: what is there is left to be truncated.
KeepOutput ==
    /\ stage = "remove"
    /\ stage' = "open"
    /\ UNCHANGED <<givenVars, fileVars, open, chunk_size, block_count, exists, stream,
                   readerVars, threads, signed, exit>>

\* The name is removed, not what it links to; an empty directory can be, too.
RemoveOutput ==
    /\ stage = "remove"
    /\ directory' = [directory EXCEPT ![request.output] = "none"]
    /\ stage' = "open"
    /\ UNCHANGED <<givenVars, contents, open, chunk_size, block_count, exists, stream,
                   readerVars, threads, signed, exit>>

RemoveFails == Throw("remove")

\* Mutant: the readers get the lowest descriptors.
OpenOutputAfterReaders ==
    /\ stage = "open"
    /\ Leads(directory, request.output) # "folder"
    /\ LET name == Target(directory, request.output)
           file == IF directory[name] = "none" THEN "fresh" ELSE directory[name]
       IN  /\ directory' = [directory EXCEPT ![name] = file]
           /\ contents' = [contents EXCEPT ![file] = "nothing"]
           /\ open' = [open EXCEPT ![Max(Free)] = file]
    /\ stream' = Max(Free)
    /\ stage' = "reserve"
    /\ UNCHANGED <<givenVars, chunk_size, block_count, exists,
                   readerVars, threads, signed, exit>>

\* A new file is made, where a link leads that leads nowhere, or one that is
\* there is truncated.
OpenOutput ==
    /\ stage = "open"
    /\ Leads(directory, request.output) # "folder"
    /\ LET name == Target(directory, request.output)
           file == IF directory[name] = "none" THEN "fresh" ELSE directory[name]
       IN  /\ directory' = [directory EXCEPT ![name] = file]
           /\ contents' = [contents EXCEPT ![file] = "nothing"]
           /\ open' = [open EXCEPT ![Min(Free)] = file]
    /\ stream' = Min(Free)
    /\ stage' = "reserve"
    /\ UNCHANGED <<givenVars, chunk_size, block_count, exists,
                   readerVars, threads, signed, exit>>

OpenFails == Throw("open")

-----------------------------------------------------------------------------
(* The readers *)

\* Mutant: the vector is left to grow.
ReserveNothing ==
    /\ stage = "reserve"
    /\ stage' = "readers"
    /\ UNCHANGED <<givenVars, fileVars, open, chunk_size, block_count, exists, stream,
                   readerVars, threads, signed, exit>>

Reserve ==
    /\ stage = "reserve"
    /\ capacity' = block_count
    /\ stage' = "readers"
    /\ UNCHANGED <<givenVars, fileVars, open, chunk_size, block_count, exists, stream,
                   buffer, readers, posted, threads, signed, exit>>

ReserveFails == Throw("reserve")

\* A reader is emplaced, which opens the input, and posts do_read.  A full
\* vector moves its elements.  (posix_fadvise can only be logged to fail.)
Emplace(path) ==
    /\ stage = "readers"
    /\ Len(readers) < block_count
    /\ Leads(directory, path) # "none"
    /\ open' = [open EXCEPT ![Min(Free)] = Leads(directory, path)]
    /\ IF Len(readers) < capacity
       THEN UNCHANGED <<capacity, buffer>>
       ELSE capacity' = Max({1, 2 * capacity}) /\ buffer' = buffer + 1
    /\ readers' = Append(readers, Min(Free))
    /\ posted' = posted \cup {[buffer |-> buffer', index |-> Len(readers')]}
    /\ UNCHANGED <<givenVars, fileVars, stage, chunk_size, block_count, exists, stream,
                   threads, signed, exit>>

\* Mutant: the paths are confused.
EmplaceReaderOfOutput == Emplace(request.output)

EmplaceReader == Emplace(request.input)

EmplaceFails == Len(readers) < block_count /\ Throw("readers")

StartPool ==
    /\ stage = "readers"
    /\ Len(readers) = block_count
    /\ stage' = "threads"
    /\ UNCHANGED <<givenVars, fileVars, open, chunk_size, block_count, exists, stream,
                   readerVars, threads, signed, exit>>

-----------------------------------------------------------------------------
(* The pool, and the way out *)

Output(text) == [contents EXCEPT ![open[stream]] = text]
Outcomes == {contents, Output("part"), Output("signature")}

CreateThread ==
    /\ stage = "threads"
    /\ threads < block_count - 1
    /\ threads' = threads + 1
    /\ UNCHANGED <<givenVars, fileVars, open, stage, chunk_size, block_count, exists, stream,
                   readerVars, signed, exit>>

\* The threads there are are already at work.
CreateThreadFails ==
    /\ stage = "threads"
    /\ threads < block_count - 1
    /\ contents' \in IF threads = 0 THEN {contents} ELSE Outcomes
    /\ stage' = "failed"
    /\ UNCHANGED <<givenVars, directory, open, chunk_size, block_count, exists, stream,
                   readerVars, threads, signed, exit>>

\* Main works in the pool itself until it is done, or something has failed,
\* or the process is gone.
RunPool ==
    /\ stage = "threads"
    /\ threads = block_count - 1
    /\ signed' = contents[open[readers[1]]]
    /\ contents' \in Outcomes
    /\ \/ contents' = Output("signature") /\ stage' = "written" /\ UNCHANGED exit
       \/ stage' = "failed" /\ UNCHANGED exit
       \/ exit' = "crashed" /\ UNCHANGED stage
    /\ UNCHANGED <<givenVars, directory, open, chunk_size, block_count, exists, stream,
                   readerVars, threads>>

\* The destructors of the readers and of the stream.
ClosedByReaders == {readers[i] : i \in DOMAIN readers} \ {0}

Close == ClosedByReaders \cup (IF stream = -1 THEN {} ELSE {stream})

\* Scopes are left, an exception is caught, main returns.  Threads may still be
\* using what is destroyed.
Unwind ==
    /\ stage \in {"written", "failed"}
    /\ open' = [d \in Descriptors |-> IF d \in Close THEN "none" ELSE open[d]]
    /\ \/ exit' = IF stage = "written" THEN "success" ELSE "failure"
       \/ threads > 0 /\ exit' = "crashed"
    /\ UNCHANGED <<givenVars, fileVars, stage, chunk_size, block_count, exists, stream,
                   readerVars, threads, signed>>

Main ==
    \/ Parse \/ ParseFails \/ CheckArguments \/ CheckFails
    \/ LayOut \/ SizeFails \/ DivisionTraps
    \/ CheckOutput \/ RemoveOutput \/ RemoveFails \/ OpenOutput \/ OpenFails
    \/ Reserve \/ ReserveFails \/ EmplaceReader \/ EmplaceFails \/ StartPool
    \/ CreateThread \/ CreateThreadFails \/ RunPool \/ Unwind

Exited == exit # "none" /\ UNCHANGED vars

Next == (exit = "none" /\ Main) \/ Exited

Spec == Init /\ [][Next]_vars

-----------------------------------------------------------------------------
(* Properties *)

\* Type invariant.
TypeOK ==
    /\ request \in Requests /\ cores \in CoreCounts /\ before \in Directories
    /\ directory \in [DOMAIN before -> Files \cup {"folder", "none"} \cup DOMAIN before]
    /\ contents \in [Files -> {"data", "old signature", "nothing", "part", "signature"}]
    /\ \A d \in Descriptors : open[d] \in Files \cup {"folder", "terminal", "none"}
    /\ stage \in {"parse", "check", "layout", "exists", "remove", "open", "reserve",
                  "readers", "threads", "written", "failed"}
    /\ chunk_size \in 0..(Word - 1)
    /\ block_count \in 0..cores
    /\ stream \in Descriptors \cup {-1}
    /\ Len(readers) <= block_count /\ \A i \in DOMAIN readers : readers[i] \in Descriptors
    /\ threads \in 0..cores
    /\ exit \in {"none", "success", "failure", "crashed"}

Accepted == stage \notin {"parse", "check", "failed"}

\* A chunk size that is worked with is within the limits and is what was asked
\* for, unless that has a sign or does not fit 64 bits.  (Then its remainder is
\* accepted if it is within the limits.)
ChunkSizeAsAsked ==
    Accepted =>
        /\ chunk_size \in MinChunk..MaxChunk
        /\ request.text # NoText /\ Requested(request.text) \in 0..(Word - 1) =>
               chunk_size = Requested(request.text)

\* The program's documentation allows sizes within the limits, and no others:
\* README.md:10.
DocumentedSizesOnly ==
    Accepted /\ request.text # NoText => Requested(request.text) \in MinChunk..MaxChunk

ValidPaths ==
    /\ request.input # NoPath /\ request.output # NoPath
    /\ Leads(before, request.input) \in Files

\* A command line that is refused changes nothing on disk: all checks, also of the
\* size as the program computes it, are made before the old signature is deleted.
RefusedTouchesNothing ==
    ~ValidPaths \/ chunk_size \notin MinChunk..MaxChunk =>
        directory = before /\ contents = Originals

\* The output's name is the input's or one that the input's links lead over, and is
\* removed, or it leads to the same file and its existence could not be told.
OutputHitsInput ==
    \/ request.output \in {request.input, Follow(before, request.input),
                          Target(before, request.input)}
    \/ Leads(before, request.output) = Leads(before, request.input) /\ ~exists

\* Nothing happens to the input, whatever fails and wherever the output goes: it
\* may be a second name of the input or a link to it, if it is found to exist.
InputSurvives ==
    ValidPaths /\ ~OutputHitsInput =>
        /\ Leads(directory, request.input) = Leads(before, request.input)
        /\ contents[Leads(before, request.input)] = Originals[Leads(before, request.input)]

\* A success has read the file that the input's path led to at the start, as it
\* was then.
InputIsSigned ==
    exit = "success" /\ ~OutputHitsInput =>
        signed = Originals[Leads(before, request.input)]

\* The pool starts as module Pipeline has it: a reader per block, a thread per
\* block but main's, every reader with an open descriptor of its own on the
\* same file, and one handler posted for it.
StartsThePool ==
    stage = "threads" =>
        /\ Len(readers) = block_count /\ block_count \in 1..cores
        /\ posted = {[buffer |-> buffer, index |-> i] : i \in 1..block_count}
        /\ \A i, j \in DOMAIN readers :
               /\ open[readers[i]] = open[readers[1]] /\ open[readers[i]] \in Files
               /\ readers[i] = readers[j] => i = j
               /\ readers[i] # stream

\* Main closes what it has opened on every way out.  A reader does not close
\* descriptor 0; it never has it, because the stream is opened first.
NothingLeftOpen ==
    exit \in {"success", "failure"} =>
        \A d \in Descriptors : open[d] \in {"none", "terminal"}

=============================================================================
