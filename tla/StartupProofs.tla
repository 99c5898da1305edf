----------------------------- MODULE StartupProofs -----------------------------
(***************************************************************************)
(* Proofs about Startup, for any command lines, names, core counts and     *)
(* multipliers: what a way out leaves behind, and how the pool starts.     *)
(***************************************************************************)
EXTENDS Startup, WellFoundedInduction, PartitionTheorems

-----------------------------------------------------------------------------
(* The parts of the inductive invariant *)

\* Before the stream is opened, and with it open.
Early == {"parse", "check", "layout", "exists", "remove", "open"}
Late == {"reserve", "readers", "threads", "written"}

Types ==
    /\ request \in Requests /\ cores \in CoreCounts /\ before \in Directories
    /\ stage \in Early \cup Late \cup {"failed"}
    /\ exit \in {"none", "success", "failure", "crashed"}
    /\ exists \in BOOLEAN
    /\ chunk_size \in 0..(Word - 1)
    /\ block_count \in 0..cores
    /\ stage \in Late \cup {"exists", "remove", "open"} => block_count > 0
    /\ threads \in 0..cores
    /\ stage \in Early \cup {"reserve", "readers"} => threads = 0

\* What the arguments are once the command line is parsed, and once it is checked.
Size == IF request.text = NoText THEN DefaultChunk ELSE ParseChunkSize(request.text)

Parsed ==
    /\ stage = "check" \/ Accepted => CanParse /\ chunk_size = Size
    /\ Accepted => Leads(before, request.input) \in Files /\ chunk_size \in MinChunk..MaxChunk

\* The name the stream is opened under, past links if the path was not removed, and
\* the file it writes to: a new one if there is none left.
OutputName == IF exists THEN request.output ELSE Target(before, request.output)

OutputFile == IF exists \/ before[OutputName] = "none" THEN "fresh" ELSE before[OutputName]

\* What may have happened to the files.
Untouched == directory = before /\ contents = Originals

Removed ==
    /\ exists
    /\ directory = [before EXCEPT ![request.output] = "none"]
    /\ contents = Originals

Opened ==
    /\ OutputFile # "folder"
    /\ directory = [before EXCEPT ![OutputName] = OutputFile]
    /\ \E text \in {"nothing", "part", "signature"} :
           contents = [Originals EXCEPT ![OutputFile] = text]

\* After a failure too the files are as they were, or the checks were passed.
Valid == ValidPaths /\ chunk_size \in MinChunk..MaxChunk

Disk ==
    /\ stage \in {"parse", "check", "layout", "exists"} => Untouched /\ ~exists
    /\ stage = "remove" => Untouched /\ exists
    /\ stage = "open" => IF exists THEN Removed ELSE Untouched
    /\ stage \in Late => Opened
    /\ stage = "failed" =>
           IF stream = -1 THEN Untouched \/ (Removed /\ Valid) ELSE Opened /\ Valid

\* The descriptors: the stream has the lowest that was free, the readers the next.
Top == 3 + Max(CoreCounts)
Slot(i) == IF stream = 0 THEN 2 + i ELSE 3 + i

Fresh(stdin) ==
    [d \in 0..Top |-> CASE d = 0 -> stdin
                        [] d \in {1, 2} -> "terminal"
                        [] OTHER -> "none"]

InUse ==
    [d \in 0..Top |-> IF d = stream THEN OutputFile
                      ELSE IF d <= 2 THEN "terminal"
                      ELSE IF d <= Slot(Len(readers)) THEN Leads(directory, request.input)
                      ELSE "none"]

Unwound == exit # "none" /\ stage \in {"written", "failed"}

Slots ==
    /\ stream \in {-1, 0, 3}
    /\ stage \in Early => stream = -1
    /\ stage \in Late => stream # -1
    /\ DOMAIN open = 0..Top
    /\ ~Unwound => IF stream = -1 THEN \E stdin \in {"none", "terminal"} : open = Fresh(stdin)
                                  ELSE open = InUse

\* The vector of readers and the handlers posted for them.
Vector ==
    /\ Len(readers) \in 0..block_count
    /\ readers = [i \in 1..Len(readers) |-> Slot(i)]
    /\ stream = -1 \/ stage = "reserve" => readers = <<>>
    /\ stage \in {"threads", "written"} => Len(readers) = block_count
    /\ stage \in {"readers", "threads"} => capacity = block_count
    /\ buffer = 0
    /\ posted = {[buffer |-> 0, index |-> i] : i \in 1..Len(readers)}

\* What the pool has read.
Read ==
    /\ stage = "written" /\ ~OutputHitsInput => signed = Originals[Leads(before, request.input)]
    /\ exit = "success" => stage = "written"

\* What has been closed when main returns.
Closed ==
    /\ exit \in {"success", "failure"} => Unwound
    /\ Unwound => \A d \in Descriptors : open[d] \in {"none", "terminal"}

IInv == Types /\ Parsed /\ Disk /\ Slots /\ Vector /\ Read /\ Closed

-----------------------------------------------------------------------------
(* What the command line and the operators of the model give *)

LEMMA MostCores == Max(CoreCounts) \in Nat /\ \A n \in CoreCounts : n <= Max(CoreCounts)
<1>1. PICK most \in CoreCounts : \A n \in CoreCounts : n <= most
    BY StartupInputs
<1>2. \E m \in CoreCounts : \A n \in CoreCounts : m >= n
    BY <1>1, StartupInputs
<1>3. Max(CoreCounts) \in CoreCounts /\ \A n \in CoreCounts : Max(CoreCounts) >= n
    BY <1>2 DEF Max
<1> QED
    BY <1>3, StartupInputs

\* The names there are at the start, and where they lead.
LEMMA NamesTyped ==
    ASSUME Types
    PROVE  /\ before \in [DOMAIN before -> {"input", "old", "folder", "none"} \cup DOMAIN before]
           /\ DOMAIN before \cap {"input", "old", "fresh", "folder", "none"} = {}
           /\ \A p \in DOMAIN before :
                  /\ Follow(before, p) \in DOMAIN before /\ Target(before, p) \in DOMAIN before
                  /\ Leads(before, p) \in {"input", "old", "folder", "none"}
<1>1. /\ before \in [DOMAIN before -> {"input", "old", "folder", "none"} \cup DOMAIN before]
      /\ DOMAIN before \cap {"input", "old", "fresh", "folder", "none"} = {}
      /\ \A p \in DOMAIN before : Leads(before, p) \notin DOMAIN before
    BY StartupInputs DEF Types
<1>2. \A p \in DOMAIN before : Follow(before, p) \in DOMAIN before
    BY DEF Follow
<1>3. \A p \in DOMAIN before : Target(before, p) \in DOMAIN before
    BY <1>2 DEF Target
<1> QED
    BY <1>1, <1>2, <1>3 DEF Leads

\* The names on a command line that can be parsed.
LEMMA NamesKnown ==
    ASSUME Types, CanParse
    PROVE  request.input \in DOMAIN before /\ request.output \in DOMAIN before
BY StartupInputs DEF Types, CanParse

\* A path that leads to a file still leads to one when a name is given a file, and
\* to the same if that name is none of those it leads over.
LEMMA NameChanged ==
    ASSUME NEW D, NEW n \in [D -> {"input", "old", "folder", "none"} \cup D],
           D \cap {"input", "old", "fresh", "folder", "none"} = {},
           NEW p \in D, Follow(n, p) \in D, Target(n, p) \in D, Leads(n, p) \in Files,
           NEW q \in D, NEW f \in Files \cup {"none"}
    PROVE  /\ f \in Files => Leads([n EXCEPT ![q] = f], p) \in Files
           /\ q \notin {p, Follow(n, p), Target(n, p)} =>
                  Leads([n EXCEPT ![q] = f], p) = Leads(n, p)
<1> DEFINE m == [n EXCEPT ![q] = f]
           first == Follow(n, p)
           last == Target(n, p)
<1>1. DOMAIN n = D /\ DOMAIN m = D /\ f \notin D /\ \A r \in D : r # q => m[r] = n[r]
    BY DEF Files
<1>2. \A r \in D : r # q => Follow(m, r) = Follow(n, r)
    BY <1>1 DEF Follow
<1>3. m[q] = f /\ Follow(m, q) = q
    BY <1>1 DEF Follow
<1>4. last = Follow(n, first) /\ n[last] \in Files
    BY DEF Target, Leads
<1>5. Follow(n, last) = last
    BY <1>1, <1>4 DEF Follow, Files
<1> HIDE DEF m
<1>6. CASE q \notin {p, first, last}
    <2>1. Target(m, p) = last
        BY <1>2, <1>4, <1>6 DEF Target
    <2> QED
        BY <1>1, <1>4, <1>6, <2>1 DEF Leads, m
<1>7. CASE q \in {p, first, last}
    <2>1. CASE q = p
        BY <1>3, <2>1 DEF Leads, Target, m
    <2>2. CASE q # p /\ q = first
        <3>1. Target(m, p) = q
            BY <1>2, <1>3, <2>2 DEF Target
        <3> QED
            BY <1>3, <1>7, <3>1 DEF Leads, m
    <2>3. CASE q # p /\ q # first /\ q = last
        <3>1. Target(m, p) = q
            BY <1>2, <1>4, <2>3 DEF Target
        <3> QED
            BY <1>3, <1>7, <3>1 DEF Leads, m
    <2> QED
        BY <1>7, <2>1, <2>2, <2>3
<1> QED
    BY <1>6, <1>7

\* A size that was asked for and fits is what the text is parsed to.
LEMMA ParsedAsRequested ==
    ASSUME NEW text, text.number \in Int, Requested(text) \in 0..(Word - 1)
    PROVE  ParseChunkSize(text) = Requested(text)
<1> DEFINE f == FactorOf(text)
           n == text.number
<1>1. f \in Nat \ {0} /\ Word \in Nat \ {0}
    BY ArgumentInputs DEF FactorOf
<1>2. f * n \in 0..(Word - 1)
    BY DEF Requested
<1> HIDE DEF f
<1>3. n \in Int
    OBVIOUS
<1> HIDE DEF n
<1>4. n >= 0 /\ n <= f * n
    <2>1. n < 0 => f * n < 0
        BY <1>1, <1>3
    <2>2. n >= 0 => n <= f * n
        BY <1>1, <1>3
    <2> QED
        BY <1>1, <1>2, <1>3, <2>1, <2>2
<1>5. n \in 0..(Word - 1)
    BY <1>1, <1>2, <1>3, <1>4
<1>6. n % Word = n /\ (f * n) % Word = f * n
    BY <1>1, <1>2, <1>5
<1> QED
    BY <1>6 DEF ParseChunkSize, ParseDigits, Requested, f, n

LEMMA SizeTyped ==
    ASSUME Types, CanParse
    PROVE  Size \in 0..(Word - 1)
<1>1. CASE request.text = NoText
    BY <1>1, ArgumentInputs DEF Size
<1>2. CASE request.text # NoText
    <2>1. request.text.number \in Int
        BY <1>2, StartupInputs DEF Types, CanParse, Castable
    <2> DEFINE f == FactorOf(request.text)
               n == request.text.number
    <2>2. f \in Nat /\ Word \in Nat \ {0}
        BY ArgumentInputs DEF FactorOf
    <2> HIDE DEF f, n
    <2>3. n % Word \in Nat
        BY <2>1, <2>2 DEF n
    <2>4. f * (n % Word) \in Nat
        BY <2>2, <2>3, NatTimes
    <2>5. (f * (n % Word)) % Word \in 0..(Word - 1)
        BY <2>2, <2>4
    <2> QED
        BY <1>2, <2>5 DEF Size, ParseChunkSize, ParseDigits, f, n
<1> QED
    BY <1>1, <1>2

\* What main works with after its checks comes from a valid command line.
LEMMA AcceptedIsValid ==
    ASSUME Types, Parsed, Accepted
    PROVE  Valid
BY DEF Parsed, CanParse, Valid, ValidPaths

\* What the command line says does not change.
LEMMA GivenKept ==
    ASSUME UNCHANGED givenVars
    PROVE  /\ UNCHANGED <<request, cores, pathSteals, before>>
           /\ CanParse' = CanParse /\ Size' = Size
           /\ UNCHANGED chunk_size => Valid' = Valid
BY DEF givenVars, CanParse, Size, Valid, ValidPaths

LEMMA OutputKept ==
    ASSUME UNCHANGED givenVars, UNCHANGED exists
    PROVE  OutputName' = OutputName /\ OutputFile' = OutputFile
<1>1. OutputName' = OutputName
    BY DEF givenVars, OutputName, Target, Follow
<1> QED
    BY <1>1 DEF givenVars, OutputFile

LEMMA FilesKept ==
    ASSUME UNCHANGED givenVars, UNCHANGED exists, UNCHANGED fileVars
    PROVE  Untouched' = Untouched /\ Removed' = Removed /\ Opened' = Opened
BY OutputKept DEF givenVars, fileVars, Untouched, Removed, Opened

\* The lowest free descriptor.
LEMMA LowestFree ==
    ASSUME NEW m \in Free, \A d \in Free : m <= d, DOMAIN open \subseteq Int
    PROVE  Min(Free) = m
<1>1. \E x \in Free : \A d \in Free : x =< d
    OBVIOUS
<1>2. Min(Free) \in Free /\ \A d \in Free : Min(Free) =< d
    BY <1>1 DEF Min
<1>3. Min(Free) \in Int /\ m \in Int /\ Min(Free) <= m /\ m <= Min(Free)
    BY <1>2 DEF Free, Descriptors
<1> QED
    BY <1>3

-----------------------------------------------------------------------------
(* Every step keeps the invariant *)

LEMMA InitHolds == Init => IInv
<1> SUFFICES ASSUME Init PROVE IInv
    OBVIOUS
<1>1. Types
    <2>1. cores \in Nat /\ Word \in Nat \ {0}
        BY ArgumentInputs, StartupInputs DEF Init
    <2>2. 0 \in 0..(Word - 1) /\ 0 \in 0..cores
        BY <2>1
    <2> QED
        BY <2>2 DEF Init, Types, Early, Late
<1>2. Parsed
    BY DEF Init, Parsed, Accepted
<1>3. Disk
    BY DEF Init, Disk, Untouched, Late
<1>4. Slots
    BY MostCores DEF Init, Slots, Early, Late, Fresh, Top, Unwound
<1>5. Vector
    BY StartupInputs DEF Init, Vector
<1>6. Read /\ Closed
    BY DEF Init, Read, Closed, Unwound
<1> QED
    BY <1>1, <1>2, <1>3, <1>4, <1>5, <1>6 DEF IInv

\* An exception leaves everything as it is.
LEMMA ThrowHolds ==
    ASSUME IInv, exit = "none", NEW at \in Early \cup {"reserve", "readers"}, Throw(at)
    PROVE  IInv'
<1> USE DEF IInv
<1>1. /\ stage = at /\ stage' = "failed"
      /\ UNCHANGED <<givenVars, fileVars, open, chunk_size, block_count, exists, stream,
                     readerVars, threads, signed, exit>>
    BY DEF Throw
<1>2. Types'
    BY <1>1 DEF Types, givenVars, Early, Late
<1>3. Parsed'
    BY <1>1 DEF Parsed, Accepted
<1>4. stage \in {"parse", "check"} \/ Valid
    BY <1>1, AcceptedIsValid DEF Accepted, Types, Early, Late
<1>5. Disk'
    <2>1. /\ UNCHANGED <<stream, exists>> /\ OutputFile' = OutputFile
          /\ Untouched' = Untouched /\ Removed' = Removed /\ Opened' = Opened /\ Valid' = Valid
        BY <1>1, GivenKept, OutputKept, FilesKept
    <2>2. IF stream = -1 THEN Untouched \/ (Removed /\ Valid) ELSE Opened /\ Valid
        BY <1>1, <1>4 DEF Disk, Slots, Early, Late
    <2> QED
        BY <1>1, <2>1, <2>2 DEF Disk, Late
<1>6. Slots'
    <2>1. /\ Top' = Top /\ UNCHANGED <<open, stream, exit>>
          /\ InUse' = InUse /\ \A stdin : Fresh(stdin)' = Fresh(stdin)
        BY <1>1, OutputKept DEF Top, InUse, Fresh, Slot, Leads, Target, Follow, givenVars, fileVars, readerVars
    <2>2. ~Unwound
        BY DEF Unwound
    <2> QED
        BY <1>1, <2>1, <2>2 DEF Slots, Early, Late
<1>7. Vector'
    BY <1>1 DEF Vector, readerVars, Slot
<1>8. Read' /\ Closed'
    BY <1>1 DEF Read, Closed, Unwound
<1> QED
    BY <1>2, <1>3, <1>5, <1>6, <1>7, <1>8

\* Steps that leave the files, the descriptors and the readers alone.
Quiet == UNCHANGED <<givenVars, fileVars, open, exists, stream, readerVars>>

LEMMA QuietKeeps ==
    ASSUME Quiet
    PROVE  /\ UNCHANGED <<request, cores, pathSteals, before, directory, contents, open, exists,
                          stream, capacity, buffer, readers, posted>>
           /\ CanParse' = CanParse /\ Size' = Size /\ (UNCHANGED chunk_size => Valid' = Valid)
           /\ OutputFile' = OutputFile /\ Untouched' = Untouched /\ Removed' = Removed
           /\ Opened' = Opened /\ InUse' = InUse /\ Top' = Top
           /\ \A i : Slot(i)' = Slot(i)
           /\ \A stdin : Fresh(stdin)' = Fresh(stdin)
BY GivenKept, OutputKept, FilesKept
   DEF Quiet, fileVars, readerVars, givenVars, InUse, Leads, Target, Follow, Top, Slot, Fresh

LEMMA ParseHolds ==
    ASSUME IInv, exit = "none", Parse
    PROVE  IInv'
<1> USE DEF IInv
<1>1. /\ stage = "parse" /\ CanParse /\ chunk_size' = Size /\ stage' = "check"
      /\ Quiet /\ UNCHANGED <<block_count, threads, signed, exit>>
    BY DEF Parse, Quiet, Size
<1>2. Types'
    BY <1>1, QuietKeeps, SizeTyped DEF Types, Early, Late
<1>3. Parsed'
    BY <1>1, QuietKeeps DEF Parsed, Accepted
<1>4. Disk'
    BY <1>1, QuietKeeps DEF Disk, Late
<1>5. Slots'
    BY <1>1, QuietKeeps DEF Slots, Early, Late, Unwound
<1>6. Vector'
    BY <1>1, QuietKeeps DEF Vector, Slots, Early
<1>7. Read' /\ Closed'
    BY <1>1 DEF Read, Closed, Unwound
<1> QED
    BY <1>2, <1>3, <1>4, <1>5, <1>6, <1>7

LEMMA CheckArgumentsHolds ==
    ASSUME IInv, exit = "none", CheckArguments
    PROVE  IInv'
<1> USE DEF IInv
<1>1. /\ stage = "check" /\ stage' = "layout"
      /\ Quiet /\ UNCHANGED <<chunk_size, block_count, threads, signed, exit>>
    BY DEF CheckArguments, Quiet
<1>2. Types'
    BY <1>1, QuietKeeps DEF Types, Early, Late
<1>3. Leads(before, request.input) \in Files /\ chunk_size \in MinChunk..MaxChunk
    BY <1>1, ArgumentInputs DEF CheckArguments, InputIsRegular, Disk, Untouched, Types
<1>4. Parsed'
    BY <1>1, <1>3, QuietKeeps DEF Parsed, Accepted
<1>5. Disk'
    BY <1>1, QuietKeeps DEF Disk, Late
<1>6. Slots'
    BY <1>1, QuietKeeps DEF Slots, Early, Late, Unwound
<1>7. Vector'
    BY <1>1, QuietKeeps DEF Vector, Slots, Early
<1>8. Read' /\ Closed'
    BY <1>1 DEF Read, Closed, Unwound
<1> QED
    BY <1>2, <1>4, <1>5, <1>6, <1>7, <1>8

\* The number of blocks is between one and the number of cores.
LEMMA LayOutHolds ==
    ASSUME IInv, exit = "none", LayOut
    PROVE  IInv'
<1> USE DEF IInv
<1>1. /\ stage = "layout" /\ cores > 0 /\ stage' = "exists"
      /\ block_count' = FittingCount(FileSize, cores, chunk_size)
      /\ Quiet /\ UNCHANGED <<chunk_size, threads, signed, exit>>
    BY DEF LayOut, Quiet
<1>2. block_count' \in 1..cores
    <2>1. cores \in Nat \ {0} /\ FileSize \in Nat /\ chunk_size \in Nat \ {0}
        BY <1>1, StartupInputs, ArgumentInputs DEF Types, Parsed, Accepted
    <2> QED
        BY <1>1, <2>1, FittingCountExists
<1>3. Types'
    BY <1>1, <1>2, QuietKeeps, StartupInputs DEF Types, Early, Late
<1>4. Parsed'
    BY <1>1, QuietKeeps DEF Parsed, Accepted
<1>5. Disk'
    BY <1>1, QuietKeeps DEF Disk, Late
<1>6. Slots'
    BY <1>1, QuietKeeps DEF Slots, Early, Late, Unwound
<1>7. Vector'
    <2>1. readers' = <<>> /\ stream' = -1
        BY <1>1, QuietKeeps DEF Vector, Slots, Early
    <2> QED
        BY <1>1, <1>2, <2>1, QuietKeeps DEF Vector
<1>8. Read' /\ Closed'
    BY <1>1 DEF Read, Closed, Unwound
<1> QED
    BY <1>3, <1>4, <1>5, <1>6, <1>7, <1>8

LEMMA DivisionTrapsHolds ==
    ASSUME IInv, exit = "none", DivisionTraps
    PROVE  IInv'
<1> USE DEF IInv
<1>1. /\ stage = "layout" /\ exit' = "crashed"
      /\ Quiet /\ UNCHANGED <<stage, chunk_size, block_count, threads, signed>>
    BY DEF DivisionTraps, Quiet
<1>2. Types' /\ Parsed' /\ Disk'
    BY <1>1, QuietKeeps DEF Types, Parsed, Disk, Accepted
<1>3. Slots'
    BY <1>1, QuietKeeps DEF Slots, Unwound
<1>4. Vector'
    BY <1>1, QuietKeeps DEF Vector
<1>5. Read' /\ Closed'
    BY <1>1 DEF Read, Closed, Unwound
<1> QED
    BY <1>2, <1>3, <1>4, <1>5

LEMMA CheckOutputHolds ==
    ASSUME IInv, exit = "none", CheckOutput
    PROVE  IInv'
<1> USE DEF IInv
<1>1. /\ stage = "exists" /\ exists' \in BOOLEAN
      /\ stage' = IF exists' THEN "remove" ELSE "open"
      /\ UNCHANGED <<givenVars, fileVars, open, chunk_size, block_count, stream,
                     readerVars, threads, signed, exit>>
    BY DEF CheckOutput
<1>2. Types'
    BY <1>1 DEF Types, givenVars, Early, Late
<1>3. Parsed'
    BY <1>1, GivenKept DEF Parsed, Accepted
<1>4. Disk'
    BY <1>1, GivenKept DEF Disk, Untouched, fileVars, Late
<1>5. Slots'
    BY <1>1, GivenKept DEF Slots, Early, Late, Unwound, Fresh, Top
<1>6. Vector'
    BY <1>1 DEF Vector, Slots, readerVars, Slot, Early
<1>7. Read' /\ Closed'
    BY <1>1 DEF Read, Closed, Unwound
<1> QED
    BY <1>2, <1>3, <1>4, <1>5, <1>6, <1>7

LEMMA RemoveOutputHolds ==
    ASSUME IInv, exit = "none", RemoveOutput
    PROVE  IInv'
<1> USE DEF IInv
<1>1. /\ stage = "remove" /\ stage' = "open"
      /\ directory' = [directory EXCEPT ![request.output] = "none"]
      /\ UNCHANGED <<givenVars, contents, open, chunk_size, block_count, exists, stream,
                     readerVars, threads, signed, exit>>
    BY DEF RemoveOutput
<1>2. Types'
    BY <1>1 DEF Types, givenVars, Early, Late
<1>3. Parsed'
    BY <1>1, GivenKept DEF Parsed, Accepted
<1>4. Disk'
    BY <1>1, GivenKept DEF Disk, Untouched, Removed, Late
<1>5. Slots'
    BY <1>1, GivenKept DEF Slots, Early, Late, Unwound, Fresh, Top
<1>6. Vector'
    BY <1>1 DEF Vector, Slots, readerVars, Slot, Early
<1>7. Read' /\ Closed'
    BY <1>1 DEF Read, Closed, Unwound
<1> QED
    BY <1>2, <1>3, <1>4, <1>5, <1>6, <1>7

\* Where the output is, and where the input's path leads once it is open.
LEMMA OutputTyped ==
    ASSUME Types, request.output \in DOMAIN before
    PROVE  /\ OutputName \in DOMAIN before
           /\ OutputFile # "folder" => OutputFile \in Files
           /\ ~exists => before[OutputName] \in {"input", "old", "folder", "none"}
<1>1. OutputName \in DOMAIN before
    BY NamesTyped DEF OutputName
<1>2. ~exists => before[OutputName] \in {"input", "old", "folder", "none"}
    BY NamesTyped DEF OutputName, Leads
<1> QED
    BY <1>1, <1>2 DEF OutputFile, Files

LEMMA OutputKnown ==
    ASSUME Types, Parsed, Accepted
    PROVE  /\ request.input \in DOMAIN before /\ request.output \in DOMAIN before
           /\ OutputName \in DOMAIN before
           /\ OutputFile \in Files \cup {"folder"}
<1>1. request.input \in DOMAIN before /\ request.output \in DOMAIN before
    BY NamesKnown DEF Parsed
<1> QED
    BY <1>1, OutputTyped

LEMMA InputLeads ==
    ASSUME Types, Opened, ValidPaths, request.output \in DOMAIN before
    PROVE  /\ Leads(directory, request.input) \in Files
           /\ ~OutputHitsInput =>
                  /\ Leads(directory, request.input) = Leads(before, request.input)
                  /\ OutputFile # Leads(before, request.input)
<1>1. /\ request.input \in DOMAIN before /\ Leads(before, request.input) \in Files
      /\ Leads(before, request.input) \in {"input", "old", "folder", "none"}
    BY NamesTyped, StartupInputs DEF ValidPaths, Types
<1>2. OutputName \in DOMAIN before
    BY OutputTyped
<1>3. ~exists => before[OutputName] \in {"input", "old", "folder", "none"}
    BY OutputTyped
<1>4. OutputFile \in Files
    BY OutputTyped DEF Opened
<1>5. /\ Leads(directory, request.input) \in Files
      /\ OutputName \notin {request.input, Follow(before, request.input),
                             Target(before, request.input)} =>
             Leads(directory, request.input) = Leads(before, request.input)
    <2>1. /\ before \in [DOMAIN before -> {"input", "old", "folder", "none"} \cup DOMAIN before]
          /\ DOMAIN before \cap {"input", "old", "fresh", "folder", "none"} = {}
          /\ Follow(before, request.input) \in DOMAIN before
          /\ Target(before, request.input) \in DOMAIN before
        BY <1>1, NamesTyped
    <2> DEFINE after == [before EXCEPT ![OutputName] = OutputFile]
    <2>2. /\ Leads(after, request.input) \in Files
          /\ OutputName \notin {request.input, Follow(before, request.input),
                                 Target(before, request.input)} =>
                 Leads(after, request.input) = Leads(before, request.input)
        BY <1>1, <1>2, <1>4, <2>1, NameChanged
    <2>3. directory = after
        BY DEF Opened
    <2> QED
        BY <2>2, <2>3
<1>6. ASSUME ~OutputHitsInput
      PROVE  /\ OutputName \notin {request.input, Follow(before, request.input),
                                   Target(before, request.input)}
             /\ OutputFile # Leads(before, request.input)
    <2>1. CASE exists
        BY <1>1, <1>6, <2>1 DEF OutputName, OutputFile, OutputHitsInput, Files
    <2>2. CASE ~exists
        <3>1. before[OutputName] # Leads(before, request.input)
            BY <1>6, <2>2 DEF OutputHitsInput, OutputName, Leads
        <3>2. OutputName # Target(before, request.input)
            BY <3>1 DEF Leads
        <3>3. \A p \in {request.input, Follow(before, request.input)} :
                  p = Target(before, request.input) \/ before[p] \in DOMAIN before
            BY DEF Target, Follow
        <3>4. before[OutputName] \notin DOMAIN before
            BY <1>3, <2>2, NamesTyped
        <3> QED
            BY <1>1, <2>2, <3>1, <3>2, <3>3, <3>4 DEF OutputFile, Files
    <2> QED
        BY <2>1, <2>2
<1> QED
    BY <1>5, <1>6

\* The stream gets the lowest free descriptor: 0 if standard input is closed.
LEMMA OpenOutputHolds ==
    ASSUME IInv, exit = "none", OpenOutput
    PROVE  IInv'
<1> USE DEF IInv
<1> DEFINE name == Target(directory, request.output)
           file == IF directory[name] = "none" THEN "fresh" ELSE directory[name]
<1>1. /\ stage = "open" /\ stage' = "reserve" /\ Leads(directory, request.output) # "folder"
      /\ stream' = Min(Free)
      /\ UNCHANGED <<givenVars, chunk_size, block_count, exists,
                     readerVars, threads, signed, exit>>
    BY DEF OpenOutput
<1>2. /\ directory' = [directory EXCEPT ![name] = file]
      /\ contents' = [contents EXCEPT ![file] = "nothing"]
      /\ open' = [open EXCEPT ![Min(Free)] = file]
    BY DEF OpenOutput
<1>3. /\ request.output \in DOMAIN before /\ OutputName \in DOMAIN before
      /\ OutputFile # "folder" => OutputFile \in Files
    BY <1>1, OutputKnown DEF Accepted
<1>4. /\ file = OutputFile /\ file \in Files /\ contents = Originals
      /\ [directory EXCEPT ![name] = file] = [before EXCEPT ![OutputName] = file]
    <2>1. CASE exists
        <3>1. Removed
            BY <1>1, <2>1 DEF Disk
        <3>2. directory[request.output] = "none" /\ "none" \notin DOMAIN directory
            BY <1>3, <3>1, NamesTyped DEF Removed
        <3>3. name = request.output
            BY <3>2 DEF Target, Follow
        <3> QED
            BY <1>3, <2>1, <3>1, <3>2, <3>3 DEF Removed, OutputName, OutputFile, Files
    <2>2. CASE ~exists
        <3>1. Untouched /\ name = OutputName
            BY <1>1, <2>2 DEF Disk, Untouched, OutputName
        <3>2. file = OutputFile /\ OutputFile # "folder"
            BY <1>1, <2>2, <3>1 DEF Untouched, OutputFile, Leads
        <3> QED
            BY <1>3, <3>1, <3>2 DEF Untouched
    <2> QED
        BY <2>1, <2>2
<1> HIDE DEF file, name
<1>5. Types'
    BY <1>1 DEF Types, givenVars, Early, Late
<1>6. Parsed'
    BY <1>1, GivenKept DEF Parsed, Accepted
<1>7. PICK stdin \in {"none", "terminal"} : open = Fresh(stdin)
    BY <1>1 DEF Slots, Early, Unwound
<1>8. readers = <<>> /\ readers' = <<>>
    BY <1>1 DEF Vector, Slots, Early, readerVars
<1>9. DOMAIN open = 0..Top /\ Top \in Nat /\ Top >= 3
    BY MostCores DEF Slots, Top
<1>10. /\ open[0] = stdin /\ open[1] = "terminal" /\ open[2] = "terminal"
       /\ \A d \in 3..Top : open[d] = "none"
    BY <1>7, <1>9 DEF Fresh
<1>11. stream' = IF stdin = "none" THEN 0 ELSE 3
    <2>1. \A d \in Free : d = 0 \/ d >= 3
        BY <1>9, <1>10 DEF Free, Descriptors
    <2>2. CASE stdin = "none"
        <3>1. 0 \in Free /\ \A d \in Free : 0 <= d
            BY <1>9, <1>10, <2>2 DEF Free, Descriptors
        <3> QED
            BY <1>1, <1>9, <2>2, <3>1, LowestFree
    <2>3. CASE stdin = "terminal"
        <3>1. 3 \in Free /\ \A d \in Free : 3 <= d
            BY <1>9, <1>10, <2>1, <2>3 DEF Free, Descriptors
        <3> QED
            BY <1>1, <1>9, <2>3, <3>1, LowestFree
    <2> QED
        BY <2>2, <2>3
<1>12. /\ OutputFile' = OutputFile /\ OutputName' = OutputName /\ Top' = Top
       /\ UNCHANGED <<request, before, exists>>
    BY <1>1, GivenKept, OutputKept DEF Top
<1>13. Disk'
    <2>1. Opened'
        BY <1>2, <1>4, <1>12 DEF Opened, Files
    <2> QED
        BY <1>1, <2>1 DEF Disk, Late
<1>14. Slots'
    <2>1. open' = [open EXCEPT ![stream'] = OutputFile]
        BY <1>1, <1>2, <1>4
    <2>2. Slot(Len(readers))' = IF stream' = 0 THEN 2 ELSE 3
        BY <1>8 DEF Slot
    <2>3. InUse' = [d \in 0..Top |-> IF d = stream' THEN OutputFile
                      ELSE IF d <= 2 THEN "terminal"
                      ELSE IF d <= Slot(Len(readers))' THEN Leads(directory', request.input)
                      ELSE "none"]
        BY <1>12 DEF InUse
    <2>4. ASSUME NEW d \in 0..Top PROVE open'[d] = InUse'[d]
        BY <1>9, <1>10, <1>11, <2>1, <2>2, <2>3, <2>4
    <2>5. open' = InUse'
        <3>1. open' = [d \in 0..Top |-> open'[d]]
            <4>1. open = [d \in DOMAIN open |-> open[d]]
                BY <1>7 DEF Fresh
            <4> QED
                BY <1>9, <2>1, <4>1
        <3>2. InUse' = [d \in 0..Top |-> InUse'[d]]
            BY <2>3
        <3> QED
            BY <2>4, <3>1, <3>2
    <2>6. DOMAIN open' = 0..Top'
        BY <1>9, <1>12, <2>1
    <2> QED
        BY <1>1, <1>11, <2>5, <2>6 DEF Slots, Early, Late, Unwound
<1>15. Vector'
    <2>1. posted = {} /\ posted' = {} /\ buffer' = 0 /\ UNCHANGED block_count
        BY <1>1, <1>8 DEF Vector, readerVars
    <2> QED
        BY <1>1, <1>8, <2>1 DEF Vector, Slot
<1>16. Read' /\ Closed'
    BY <1>1 DEF Read, Closed, Unwound
<1> QED
    BY <1>5, <1>6, <1>13, <1>14, <1>15, <1>16

LEMMA ReserveHolds ==
    ASSUME IInv, exit = "none", Reserve
    PROVE  IInv'
<1> USE DEF IInv
<1>1. /\ stage = "reserve" /\ stage' = "readers" /\ capacity' = block_count
      /\ UNCHANGED <<givenVars, fileVars, open, chunk_size, block_count, exists, stream,
                     buffer, readers, posted, threads, signed, exit>>
    BY DEF Reserve
<1>2. Types'
    BY <1>1 DEF Types, givenVars, Early, Late
<1>3. Parsed'
    BY <1>1, GivenKept DEF Parsed, Accepted
<1>4. Disk'
    <2>1. Opened
        BY <1>1 DEF Disk, Late
    <2>2. Opened'
        BY <1>1, <2>1, FilesKept
    <2> QED
        BY <1>1, <2>2 DEF Disk, Late
<1>5. Slots'
    <2>1. Top' = Top /\ InUse' = InUse
        BY <1>1, GivenKept, OutputKept DEF Top, InUse, Slot, Leads, Target, Follow, fileVars
    <2> QED
        BY <1>1, <2>1 DEF Slots, Early, Late, Unwound
<1>6. Vector'
    BY <1>1 DEF Vector, Slot
<1>7. Read' /\ Closed'
    BY <1>1 DEF Read, Closed, Unwound
<1> QED
    BY <1>2, <1>3, <1>4, <1>5, <1>6, <1>7

\* A reader gets the descriptor behind those in use; the vector has room for it.
LEMMA EmplaceReaderHolds ==
    ASSUME IInv, exit = "none", EmplaceReader
    PROVE  IInv'
<1> USE DEF IInv
<1> DEFINE n == Len(readers)
<1>1. /\ stage = "readers" /\ n < block_count
      /\ open' = [open EXCEPT ![Min(Free)] = Leads(directory, request.input)]
      /\ readers' = Append(readers, Min(Free))
      /\ UNCHANGED <<givenVars, fileVars, stage, chunk_size, block_count, exists, stream,
                     threads, signed, exit>>
    BY DEF EmplaceReader, Emplace
<1>2. n \in Nat /\ block_count \in Nat /\ cores \in Nat /\ block_count <= cores
    BY StartupInputs DEF Types, Vector
<1>3. n < capacity /\ UNCHANGED <<capacity, buffer>>
    BY <1>1 DEF EmplaceReader, Emplace, Vector
<1>4. readers = [i \in 1..n |-> Slot(i)]
    BY DEF Vector
<1>5. /\ DOMAIN open = 0..Top /\ open = InUse /\ stream \in {0, 3}
      /\ Top \in Nat /\ Slot(n) \in Nat /\ Slot(n) + 1 = Slot(n + 1) /\ Slot(n + 1) <= Top
      /\ Slot(n + 1) >= 3 /\ Slot(n + 1) # stream
    BY <1>1, <1>2, MostCores DEF Slots, Late, Unwound, Top, Slot, Types
<1>6. Min(Free) = Slot(n + 1)
    <2>1. open[Slot(n + 1)] = "none"
        BY <1>5 DEF InUse
    <2>2. Slot(n + 1) \in Free
        BY <1>5, <2>1 DEF Free, Descriptors
    <2>3. Leads(directory, request.input) # "none" /\ OutputFile # "none"
        BY <1>1, OutputKnown DEF EmplaceReader, Emplace, Accepted, Files
    <2>4. \A d \in Free : Slot(n + 1) <= d
        BY <1>5, <2>3 DEF Free, Descriptors, InUse
    <2> QED
        BY <1>5, <2>2, <2>4, LowestFree
<1>7. /\ Len(readers') = n + 1
      /\ readers' = [i \in 1..(n + 1) |-> Slot(i)]
    <2>1. readers \in Seq(Int)
        BY <1>2, <1>4, <1>5 DEF Slot
    <2> QED
        BY <1>1, <1>2, <1>4, <1>6, <2>1
<1> HIDE DEF n
<1>8. Types'
    BY <1>1 DEF Types, givenVars
<1>9. Parsed'
    BY <1>1, GivenKept DEF Parsed, Accepted
<1>10. /\ OutputFile' = OutputFile /\ Top' = Top /\ \A i : Slot(i)' = Slot(i)
       /\ UNCHANGED <<request, before, exists, directory, contents, stream>>
    BY <1>1, GivenKept, OutputKept DEF Top, Slot, fileVars
<1>11. Disk'
    <2>1. Opened'
        BY <1>1, FilesKept DEF Disk, Late
    <2> QED
        BY <1>1, <2>1 DEF Disk, Late
<1>12. Slots'
    <2>1. open' = [open EXCEPT ![Slot(n + 1)] = Leads(directory, request.input)]
        BY <1>1, <1>6
    <2>2. InUse' = [d \in 0..Top |-> IF d = stream THEN OutputFile
                      ELSE IF d <= 2 THEN "terminal"
                      ELSE IF d <= Slot(n + 1) THEN Leads(directory, request.input)
                      ELSE "none"]
        BY <1>7, <1>10 DEF InUse
    <2>3. InUse' = open'
        <3>1. ASSUME NEW d \in 0..Top PROVE open'[d] = InUse'[d]
            <4>1. open[d] = InUse[d] /\ (d <= Slot(n + 1) <=> d <= Slot(n) \/ d = Slot(n + 1))
                BY <1>5
            <4> QED
                BY <1>5, <2>1, <2>2, <4>1 DEF InUse, n
        <3>2. open' = [d \in 0..Top |-> open'[d]] /\ InUse' = [d \in 0..Top |-> InUse'[d]]
            BY <1>5, <2>1, <2>2 DEF InUse
        <3> QED
            BY <3>1, <3>2
    <2> QED
        BY <1>1, <1>5, <1>10, <2>1, <2>3 DEF Slots, Early, Late, Unwound
<1>13. Vector'
    <2>1. posted' = posted \cup {[buffer |-> 0, index |-> n + 1]}
        BY <1>3, <1>7 DEF EmplaceReader, Emplace, Vector
    <2>2. posted' = {[buffer |-> 0, index |-> i] : i \in 1..(n + 1)}
        <3>1. 1..(n + 1) = (1..n) \cup {n + 1}
            BY <1>2 DEF n
        <3>2. posted = {[buffer |-> 0, index |-> i] : i \in 1..n}
            BY DEF Vector, n
        <3> QED
            BY <2>1, <3>1, <3>2
    <2>3. n + 1 \in 0..block_count
        BY <1>1, <1>2 DEF n
    <2> QED
        BY <1>1, <1>3, <1>5, <1>7, <1>10, <2>2, <2>3 DEF Vector
<1>14. Read' /\ Closed'
    BY <1>1 DEF Read, Closed, Unwound
<1> QED
    BY <1>8, <1>9, <1>11, <1>12, <1>13, <1>14

LEMMA StartPoolHolds ==
    ASSUME IInv, exit = "none", StartPool
    PROVE  IInv'
<1> USE DEF IInv
<1>1. /\ stage = "readers" /\ stage' = "threads" /\ Len(readers) = block_count
      /\ Quiet /\ UNCHANGED <<chunk_size, block_count, threads, signed, exit>>
    BY DEF StartPool, Quiet
<1>2. Types'
    BY <1>1, QuietKeeps DEF Types, Early, Late
<1>3. Parsed'
    BY <1>1, QuietKeeps DEF Parsed, Accepted
<1>4. Disk'
    BY <1>1, QuietKeeps DEF Disk, Late
<1>5. Slots'
    BY <1>1, QuietKeeps DEF Slots, Early, Late, Unwound
<1>6. Vector'
    BY <1>1, QuietKeeps DEF Vector, Slots, Late
<1>7. Read' /\ Closed'
    BY <1>1 DEF Read, Closed, Unwound
<1> QED
    BY <1>2, <1>3, <1>4, <1>5, <1>6, <1>7

LEMMA CreateThreadHolds ==
    ASSUME IInv, exit = "none", CreateThread
    PROVE  IInv'
<1> USE DEF IInv
<1>1. /\ stage = "threads" /\ threads' = threads + 1 /\ threads < block_count - 1
      /\ Quiet /\ UNCHANGED <<stage, chunk_size, block_count, signed, exit>>
    BY DEF CreateThread, Quiet
<1>2. Types'
    <2>1. cores \in Nat
        BY StartupInputs DEF Types
    <2> QED
        BY <1>1, <2>1, QuietKeeps DEF Types, Early
<1>3. Parsed' /\ Disk'
    BY <1>1, QuietKeeps DEF Parsed, Accepted, Disk
<1>4. Slots'
    BY <1>1, QuietKeeps DEF Slots, Unwound
<1>5. Vector'
    BY <1>1, QuietKeeps DEF Vector
<1>6. Read' /\ Closed'
    BY <1>1 DEF Read, Closed, Unwound
<1> QED
    BY <1>2, <1>3, <1>4, <1>5, <1>6

\* While the stream is open only the file it writes to changes.
Writing ==
    /\ contents' \in Outcomes
    /\ UNCHANGED <<givenVars, directory, open, chunk_size, block_count, exists, stream,
                   readerVars, threads>>

LEMMA WritingKeeps ==
    ASSUME IInv, exit = "none", stage = "threads", Writing
    PROVE  /\ Opened' /\ open = InUse /\ open' = InUse'
           /\ Top' = Top /\ OutputFile' = OutputFile /\ OutputFile \in Files
           /\ UNCHANGED <<request, cores, pathSteals, before, directory, exists, stream,
                          capacity, buffer, readers, posted>>
           /\ \A i : Slot(i)' = Slot(i)
<1> USE DEF IInv
<1>1. /\ UNCHANGED <<request, cores, pathSteals, before, directory, exists, stream,
                     capacity, buffer, readers, posted, open>>
      /\ Top' = Top /\ InUse' = InUse /\ OutputFile' = OutputFile /\ \A i : Slot(i)' = Slot(i)
    BY GivenKept, OutputKept DEF Writing, readerVars, Top, Slot, InUse, Leads, Target, Follow
<1>2. open = InUse /\ stream \in {0, 3} /\ Top \in Nat /\ Top >= 3
    BY MostCores DEF Slots, Late, Unwound, Top
<1>3. open[stream] = OutputFile
    BY <1>2 DEF InUse
<1>4. OutputFile \in Files
    BY OutputKnown DEF Accepted, Disk, Late, Opened
<1>5. Opened
    BY DEF Disk, Late
<1>6. PICK text \in {"nothing", "part", "signature"} :
          contents = [Originals EXCEPT ![OutputFile] = text]
    BY <1>5 DEF Opened
<1>7. \E other \in {"nothing", "part", "signature"} :
          contents' = [Originals EXCEPT ![OutputFile] = other]
    BY <1>3, <1>4, <1>6 DEF Writing, Outcomes, Output
<1>8. Opened'
    BY <1>1, <1>5, <1>7, OutputKept DEF Opened, Writing
<1> QED
    BY <1>1, <1>2, <1>4, <1>8

LEMMA CreateThreadFailsHolds ==
    ASSUME IInv, exit = "none", CreateThreadFails
    PROVE  IInv'
<1> USE DEF IInv
<1>1. /\ stage = "threads" /\ stage' = "failed"
      /\ Writing /\ UNCHANGED <<signed, exit>>
    BY DEF CreateThreadFails, Writing, Outcomes
<1>2. Valid' = Valid /\ Valid
    BY <1>1, GivenKept, AcceptedIsValid DEF Accepted, Writing
<1>3. Types'
    BY <1>1, WritingKeeps DEF Writing, Types, Early, Late
<1>4. Parsed'
    BY <1>1 DEF Parsed, Accepted
<1>5. Disk'
    BY <1>1, <1>2, WritingKeeps DEF Disk, Slots, Late
<1>6. Slots'
    <2>1. stream # -1 /\ open' = open
        BY <1>1 DEF Slots, Late, Writing
    <2> QED
        BY <1>1, <2>1, WritingKeeps DEF Slots, Early, Late
<1>7. Vector'
    BY <1>1, WritingKeeps DEF Vector, Writing, Slots, Late
<1>8. Read' /\ Closed'
    BY <1>1 DEF Read, Closed, Unwound
<1> QED
    BY <1>3, <1>4, <1>5, <1>6, <1>7, <1>8

\* What the pool reads is the input as it was, unless the output is that file.
LEMMA PoolReadsInput ==
    ASSUME IInv, exit = "none", stage = "threads", ~OutputHitsInput
    PROVE  contents[open[readers[1]]] = Originals[Leads(before, request.input)]
<1> USE DEF IInv
<1>1. open = InUse /\ stream \in {0, 3}
    BY DEF Slots, Late, Unwound
<1>2. block_count \in Nat \ {0} /\ Len(readers) = block_count /\ block_count <= cores /\ cores \in Nat
    BY StartupInputs DEF Types, Vector, Late
<1>3. readers[1] = Slot(1)
    BY <1>2 DEF Vector
<1>4. Slot(1) \in 0..Top /\ Slot(1) # stream /\ ~(Slot(1) <= 2) /\ Slot(1) <= Slot(Len(readers))
    BY <1>1, <1>2, MostCores DEF Slot, Top, Types
<1>5. open[readers[1]] = Leads(directory, request.input)
    BY <1>1, <1>3, <1>4 DEF InUse
<1>6. ValidPaths /\ request.output \in DOMAIN before
    BY AcceptedIsValid, OutputKnown DEF Accepted, Valid
<1>7. Opened
    BY DEF Disk, Late
<1>8. /\ Leads(directory, request.input) = Leads(before, request.input)
      /\ OutputFile # Leads(before, request.input)
    BY <1>6, <1>7, InputLeads
<1>9. Leads(before, request.input) \in Files
    BY <1>6 DEF ValidPaths
<1> QED
    BY <1>5, <1>7, <1>8, <1>9 DEF Opened, Originals, Files
LEMMA RunPoolHolds ==
    ASSUME IInv, exit = "none", RunPool
    PROVE  IInv'
<1> USE DEF IInv
<1>1. /\ stage = "threads" /\ Writing
      /\ signed' = contents[open[readers[1]]]
      /\ \/ stage' = "written" /\ UNCHANGED exit
         \/ stage' = "failed" /\ UNCHANGED exit
         \/ exit' = "crashed" /\ UNCHANGED stage
    BY DEF RunPool, Writing
<1>2. Valid' = Valid /\ Valid
    BY <1>1, GivenKept, AcceptedIsValid DEF Accepted, Writing
<1>3. Types'
    BY <1>1, WritingKeeps DEF Writing, Types, Early, Late
<1>4. Parsed'
    <2>1. UNCHANGED <<request, cores, before, chunk_size>> /\ CanParse' = CanParse /\ Size' = Size
        BY <1>1, GivenKept DEF Writing
    <2> QED
        BY <1>1, <2>1 DEF Parsed, Accepted
<1>5. Disk'
    BY <1>1, <1>2, WritingKeeps DEF Disk, Slots, Late
<1>6. Slots'
    <2>1. stream # -1 /\ open' = open
        BY <1>1 DEF Slots, Late, Writing
    <2> QED
        BY <1>1, <2>1, WritingKeeps DEF Slots, Early, Late
<1>7. Vector'
    BY <1>1, WritingKeeps DEF Vector, Writing, Slots, Late
<1>8. Read'
    <2>1. OutputHitsInput' = OutputHitsInput /\ UNCHANGED <<request, before>>
        BY <1>1, WritingKeeps DEF OutputHitsInput
    <2> QED
        BY <1>1, <2>1, PoolReadsInput DEF Read
<1>9. Closed'
    BY <1>1 DEF Closed, Unwound
<1> QED
    BY <1>3, <1>4, <1>5, <1>6, <1>7, <1>8, <1>9

\* All that main has opened is closed: the stream has a descriptor, and no reader
\* has descriptor 0.
LEMMA UnwindHolds ==
    ASSUME IInv, exit = "none", Unwind
    PROVE  IInv'
<1> USE DEF IInv
<1>1. /\ stage \in {"written", "failed"}
      /\ open' = [d \in Descriptors |-> IF d \in Close THEN "none" ELSE open[d]]
      /\ \/ exit' = IF stage = "written" THEN "success" ELSE "failure"
         \/ exit' = "crashed"
      /\ UNCHANGED <<givenVars, fileVars, stage, chunk_size, block_count, exists, stream,
                     readerVars, threads, signed>>
    BY DEF Unwind
<1>2. /\ OutputFile' = OutputFile /\ Top' = Top /\ \A i : Slot(i)' = Slot(i)
      /\ Untouched' = Untouched /\ Removed' = Removed /\ Opened' = Opened /\ Valid' = Valid
      /\ UNCHANGED <<request, cores, before, exists, directory, contents, stream,
                     capacity, buffer, readers, posted>>
    BY <1>1, GivenKept, OutputKept, FilesKept DEF Top, Slot, fileVars, readerVars
<1>3. Types' /\ Parsed'
    BY <1>1, <1>2, GivenKept DEF Types, Parsed, Accepted, Early, Late
<1>4. Disk'
    BY <1>1, <1>2 DEF Disk
<1>5. Slots'
    BY <1>1, <1>2 DEF Slots, Unwound, Descriptors, Early
<1>6. Vector'
    BY <1>1, <1>2 DEF Vector
<1>7. Read'
    BY <1>1, <1>2 DEF Read, OutputHitsInput
<1>8. \A d \in Descriptors' : open'[d] \in {"none", "terminal"}
    <2>1. CASE stream = -1
        <3>1. \A d \in 0..Top : open[d] \in {"none", "terminal"}
            BY <2>1 DEF Slots, Fresh, Unwound
        <3> QED
            BY <1>1, <3>1 DEF Slots, Descriptors
    <2>2. CASE stream # -1
        <3> DEFINE n == Len(readers)
        <3>1. /\ stream \in {0, 3} /\ open = InUse /\ DOMAIN open = 0..Top
              /\ n \in Nat /\ readers = [i \in 1..n |-> Slot(i)]
            BY <2>2, StartupInputs DEF Slots, Unwound, Vector, Types
        <3> HIDE DEF n
        <3>2. stream \in Close /\ \A i \in 1..n : Slot(i) \in Close
            <4>1. \A i \in 1..n : Slot(i) # 0
                BY <3>1 DEF Slot
            <4> QED
                BY <2>2, <3>1, <4>1 DEF Close, ClosedByReaders
        <3>3. ASSUME NEW d \in 0..Top, d \notin Close
              PROVE  open[d] \in {"none", "terminal"}
            <4>1. d # stream
                BY <3>2, <3>3
            <4>2. d <= 2 \/ d > Slot(n)
                <5>1. d \in Int
                    BY <3>3
                <5>2. ASSUME ~(d <= 2), ~(d > Slot(n)) PROVE FALSE
                    <6>1. \E i \in 1..n : d = Slot(i)
                        <7>1. CASE stream = 0
                            <8>1. d - 2 \in 1..n /\ d = Slot(d - 2)
                                BY <3>1, <5>1, <5>2, <7>1 DEF Slot
                            <8> QED
                                BY <8>1
                        <7>2. CASE stream = 3
                            <8>1. d - 3 \in 1..n /\ d = Slot(d - 3)
                                BY <3>1, <4>1, <5>1, <5>2, <7>2 DEF Slot
                            <8> QED
                                BY <8>1
                        <7> QED
                            BY <3>1, <7>1, <7>2
                    <6> QED
                        BY <3>2, <3>3, <6>1
                <5> QED
                    BY <3>1, <5>1, <5>2 DEF Slot
            <4>3. d <= 2 \/ ~(d <= Slot(n))
                BY <3>1, <3>3, <4>2 DEF Slot
            <4> QED
                BY <3>1, <3>3, <4>1, <4>3 DEF InUse, n
        <3> QED
            BY <1>1, <3>1, <3>3 DEF Descriptors
    <2> QED
        BY <2>1, <2>2
<1>9. Closed'
    BY <1>1, <1>8 DEF Closed, Unwound
<1> QED
    BY <1>3, <1>4, <1>5, <1>6, <1>7, <1>9

LEMMA StepHolds == IInv /\ [Next]_vars => IInv'
<1> SUFFICES ASSUME IInv, [Next]_vars PROVE IInv'
    OBVIOUS
<1>1. CASE UNCHANGED vars
    <2>1. Quiet /\ UNCHANGED <<stage, chunk_size, block_count, threads, signed, exit>>
        BY <1>1 DEF vars, Quiet
    <2>2. Types' /\ Parsed' /\ Disk'
        BY <2>1, QuietKeeps DEF IInv, Types, Parsed, Disk, Accepted
    <2>3. Slots' /\ Vector'
        BY <2>1, QuietKeeps DEF IInv, Slots, Vector, Unwound
    <2>4. Read' /\ Closed'
        BY <2>1, QuietKeeps DEF IInv, Read, OutputHitsInput, Closed, Unwound, Descriptors
    <2> QED
        BY <2>2, <2>3, <2>4 DEF IInv
<1>2. ASSUME exit = "none",
             ParseFails \/ CheckFails \/ SizeFails \/ RemoveFails \/ OpenFails \/ ReserveFails
             \/ EmplaceFails
      PROVE  IInv'
    BY <1>2, ThrowHolds
       DEF ParseFails, CheckFails, SizeFails, RemoveFails, OpenFails, ReserveFails, EmplaceFails, Early
<1> QED
    BY <1>1, <1>2, ParseHolds, CheckArgumentsHolds, LayOutHolds, DivisionTrapsHolds,
       CheckOutputHolds, RemoveOutputHolds, OpenOutputHolds, ReserveHolds, EmplaceReaderHolds,
       StartPoolHolds, CreateThreadHolds, CreateThreadFailsHolds, RunPoolHolds, UnwindHolds
       DEF Next, Main, Exited

LEMMA IInvHolds == Spec => []IInv
BY InitHolds, StepHolds, PTL DEF Spec

-----------------------------------------------------------------------------
(* What follows from the invariant *)

\* Type correctness, for any command lines, names and core counts.
THEOREM TypeCorrect == Spec => []TypeOK
<1>1. ASSUME IInv
      PROVE  /\ directory \in [DOMAIN before -> Files \cup {"folder", "none"} \cup DOMAIN before]
             /\ contents \in [Files -> {"data", "old signature", "nothing", "part", "signature"}]
    <2>1. before \in [DOMAIN before -> {"input", "old", "folder", "none"} \cup DOMAIN before]
        BY <1>1, NamesTyped DEF IInv
    <2>2. Untouched \/ Removed \/ (Opened /\ Valid)
        BY <1>1, AcceptedIsValid DEF IInv, Disk, Types, Early, Late, Accepted
    <2>3. Originals \in [Files -> {"data", "old signature", "nothing"}]
        BY DEF Originals, Files
    <2>4. CASE Untouched \/ Removed
        BY <2>1, <2>3, <2>4 DEF Untouched, Removed, Files
    <2>5. CASE Opened /\ Valid
        <3>1. OutputFile \in Files
            <4>1. request.output \in DOMAIN before
                BY <1>1, <2>5, StartupInputs DEF IInv, Types, Valid, ValidPaths
            <4> QED
                BY <1>1, <2>5, <4>1, OutputTyped DEF IInv, Opened
        <3> QED
            BY <2>1, <2>3, <2>5, <3>1 DEF Opened, Files
    <2> QED
        BY <2>2, <2>4, <2>5
<1>2. ASSUME IInv, NEW d \in Descriptors
      PROVE  open[d] \in Files \cup {"folder", "terminal", "none"}
    <2>1. DOMAIN open = 0..Top /\ d \in 0..Top
        BY <1>2 DEF IInv, Slots, Descriptors
    <2>2. CASE Unwound
        BY <1>2, <2>2 DEF IInv, Closed
    <2>3. CASE ~Unwound /\ stream = -1
        BY <1>2, <2>1, <2>3 DEF IInv, Slots, Fresh
    <2>4. CASE ~Unwound /\ stream # -1
        <3>1. open = InUse
            BY <1>2, <2>4 DEF IInv, Slots
        <3>2. Valid /\ Opened
            BY <1>2, <2>4, AcceptedIsValid DEF IInv, Disk, Slots, Types, Early, Late, Accepted
        <3>3. request.output \in DOMAIN before /\ ValidPaths
            BY <1>2, <3>2, StartupInputs DEF IInv, Types, Valid, ValidPaths
        <3>4. OutputFile \in Files
            BY <1>2, <3>2, <3>3, OutputTyped DEF IInv, Opened
        <3>5. Leads(directory, request.input) \in Files
            BY <1>2, <3>2, <3>3, InputLeads DEF IInv
        <3> QED
            BY <2>1, <3>1, <3>4, <3>5 DEF InUse
    <2> QED
        BY <2>2, <2>3, <2>4
<1>3. ASSUME IInv
      PROVE  /\ stream \in Descriptors \cup {-1}
             /\ Len(readers) <= block_count
             /\ \A i \in DOMAIN readers : readers[i] \in Descriptors
    <2>1. DOMAIN open = 0..Top /\ Top \in Nat /\ Top >= 3 /\ stream \in {-1, 0, 3}
        BY <1>3, MostCores DEF IInv, Slots, Top
    <2>2. /\ block_count \in Nat /\ block_count <= Max(CoreCounts) /\ Max(CoreCounts) \in Nat
          /\ Len(readers) \in 0..block_count /\ readers = [i \in 1..Len(readers) |-> Slot(i)]
        BY <1>3, MostCores, StartupInputs DEF IInv, Vector, Types
    <2>3. \A i \in 1..Len(readers) : Slot(i) \in 0..Top
        BY <2>1, <2>2 DEF Slot, Top
    <2> QED
        BY <2>1, <2>2, <2>3 DEF Descriptors
<1>4. IInv => TypeOK
    BY <1>1, <1>2, <1>3 DEF IInv, Types, TypeOK, Early, Late
<1> QED
    BY <1>4, IInvHolds, PTL

\* A chunk size that main works with is within the limits and is the one asked
\* for, if that is a number of bytes; for any units and any word.
THEOREM SizesAreAsAsked == Spec => []ChunkSizeAsAsked
<1>1. ASSUME IInv, Accepted
      PROVE  /\ chunk_size \in MinChunk..MaxChunk
             /\ request.text # NoText /\ Requested(request.text) \in 0..(Word - 1) =>
                    chunk_size = Requested(request.text)
    <2>1. CanParse /\ chunk_size = Size /\ chunk_size \in MinChunk..MaxChunk /\ Types
        BY <1>1 DEF IInv, Parsed
    <2>2. ASSUME request.text # NoText, Requested(request.text) \in 0..(Word - 1)
          PROVE  chunk_size = Requested(request.text)
        <3>1. request.text.number \in Int
            BY <2>1, <2>2, StartupInputs DEF Types, CanParse, Castable
        <3> QED
            BY <2>1, <2>2, <3>1, ParsedAsRequested DEF Size
    <2> QED
        BY <2>1, <2>2
<1>2. IInv => ChunkSizeAsAsked
    BY <1>1 DEF ChunkSizeAsAsked
<1> QED
    BY <1>2, IInvHolds, PTL

\* A command line that is refused, for its paths or for the size that the program
\* makes of its text, changes nothing on disk.
THEOREM RefusalIsHarmless == Spec => []RefusedTouchesNothing
<1>1. ASSUME IInv, ~Valid PROVE Untouched
    <2>1. ~Accepted
        BY <1>1, AcceptedIsValid DEF IInv
    <2>2. stage \in {"parse", "check", "failed"}
        BY <2>1 DEF Accepted
    <2> QED
        BY <1>1, <2>2 DEF IInv, Disk
<1>2. IInv => RefusedTouchesNothing
    BY <1>1 DEF RefusedTouchesNothing, Valid, Untouched
<1> QED
    BY <1>2, IInvHolds, PTL

\* Whatever fails, and wherever the output goes, the input stays what it was and
\* where its path leads, unless the output is the input or on its way.
THEOREM InputIsSafe == Spec => []InputSurvives
<1>1. ASSUME IInv, ValidPaths, ~OutputHitsInput
      PROVE  /\ Leads(directory, request.input) = Leads(before, request.input)
             /\ contents[Leads(before, request.input)] = Originals[Leads(before, request.input)]
    <2>1. /\ request.input \in DOMAIN before /\ request.output \in DOMAIN before
          /\ Leads(before, request.input) \in Files
        BY <1>1, StartupInputs DEF IInv, Types, ValidPaths
    <2>2. Untouched \/ Removed \/ Opened
        BY <1>1 DEF IInv, Disk, Types, Early, Late
    <2>3. CASE Untouched
        BY <2>3 DEF Untouched
    <2>4. CASE Removed
        <3>1. request.output \notin {request.input, Follow(before, request.input),
                                     Target(before, request.input)}
            BY <1>1 DEF OutputHitsInput
        <3>2. Leads(directory, request.input) = Leads(before, request.input)
            <4>1. /\ before \in [DOMAIN before ->
                                     {"input", "old", "folder", "none"} \cup DOMAIN before]
                  /\ DOMAIN before \cap {"input", "old", "fresh", "folder", "none"} = {}
                  /\ Follow(before, request.input) \in DOMAIN before
                  /\ Target(before, request.input) \in DOMAIN before
                BY <1>1, <2>1, NamesTyped DEF IInv
            <4>2. Leads([before EXCEPT ![request.output] = "none"], request.input)
                      = Leads(before, request.input)
                BY <2>1, <3>1, <4>1, NameChanged
            <4> QED
                BY <2>4, <4>2 DEF Removed
        <3> QED
            BY <2>4, <3>2 DEF Removed
    <2>5. CASE Opened
        <3>1. /\ Leads(directory, request.input) = Leads(before, request.input)
              /\ OutputFile # Leads(before, request.input)
            BY <1>1, <2>1, <2>5, InputLeads DEF IInv
        <3> QED
            BY <2>1, <2>5, <3>1 DEF Opened, Originals, Files
    <2> QED
        BY <2>2, <2>3, <2>4, <2>5
<1>2. IInv => InputSurvives
    BY <1>1 DEF InputSurvives
<1> QED
    BY <1>2, IInvHolds, PTL

\* A success has signed the file that the input's path led to, as it was.
THEOREM SignatureIsOfInput == Spec => []InputIsSigned
<1>1. IInv => InputIsSigned
    BY DEF IInv, Read, InputIsSigned
<1> QED
    BY <1>1, IInvHolds, PTL

\* The pool starts with a reader per block, each with a descriptor of its own on
\* the input and a handler that points to it.
THEOREM PoolStartsRight == Spec => []StartsThePool
<1>1. ASSUME IInv, stage = "threads"
      PROVE  /\ Len(readers) = block_count /\ block_count \in 1..cores
             /\ posted = {[buffer |-> buffer, index |-> i] : i \in 1..block_count}
             /\ \A i, j \in DOMAIN readers :
                    /\ open[readers[i]] = open[readers[1]] /\ open[readers[i]] \in Files
                    /\ readers[i] = readers[j] => i = j
                    /\ readers[i] # stream
    <2> USE <1>1 DEF IInv
    <2>1. /\ Len(readers) = block_count /\ block_count \in 1..cores /\ cores \in Nat
          /\ cores <= Max(CoreCounts) /\ Max(CoreCounts) \in Nat
          /\ posted = {[buffer |-> buffer, index |-> i] : i \in 1..block_count}
          /\ readers = [i \in 1..block_count |-> Slot(i)]
        BY StartupInputs, MostCores DEF Types, Vector, Late
    <2>2. stream \in {0, 3} /\ open = InUse
        BY DEF Slots, Late, Unwound
    <2>3. \A i \in 1..block_count :
              /\ Slot(i) \in 0..Top /\ Slot(i) # stream /\ ~(Slot(i) <= 2)
              /\ Slot(i) <= Slot(Len(readers))
        BY <2>1, <2>2 DEF Slot, Top
    <2>4. \A i \in 1..block_count : open[readers[i]] = Leads(directory, request.input)
        BY <2>1, <2>2, <2>3 DEF InUse
    <2>5. Leads(directory, request.input) \in Files
        <3>1. ValidPaths /\ request.output \in DOMAIN before
            BY AcceptedIsValid, OutputKnown DEF Accepted, Valid
        <3>2. Opened
            BY DEF Disk, Late
        <3> QED
            BY <3>1, <3>2, InputLeads
    <2>6. \A i, j \in 1..block_count : Slot(i) = Slot(j) => i = j
        BY <2>1 DEF Slot
    <2> QED
        BY <2>1, <2>3, <2>4, <2>5, <2>6
<1>2. IInv => StartsThePool
    BY <1>1 DEF StartsThePool
<1> QED
    BY <1>2, IInvHolds, PTL

\* Every way out closes what was opened.
THEOREM AllIsClosed == Spec => []NothingLeftOpen
<1>1. IInv => NothingLeftOpen
    BY DEF IInv, Closed, NothingLeftOpen
<1> QED
    BY <1>1, IInvHolds, PTL

=============================================================================
