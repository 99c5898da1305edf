----------------------- MODULE ThreadedSignatureProofs -----------------------
(***************************************************************************)
(* Proofs about ThreadedSignature for every set of files, every number of  *)
(* threads and every chunk size.                                           *)
(***************************************************************************)
EXTENDS ThreadedSignature, PartitionTheorems, SequenceTheorems

-----------------------------------------------------------------------------
(* The inductive invariant *)

\* Only created threads do anything, and there are blocks for them.
CreatedOnly == \A t \in Threads : thread[t] # "none" => t < core_index

\* A thread that has not begun has hashed nothing.
NothingYet == \A t \in Threads : thread[t] \in {"none", "started"} => hash[t] = <<>>

\* A thread at work has a prefix of its block's hashes, and stands at the end
\* of the last chunk it hashed.
HashedSoFar ==
    \A t \in Threads : thread[t] = "hashing" =>
        /\ Len(hash[t]) <= ExpectedLength(BlockOf(t))
        /\ \A k \in 1..Len(hash[t]) : hash[t][k] = HashesOf(BlockOf(t))[k]
        /\ Len(hash[t]) <= ChunksCount(BlockOf(t))
             => current_chunk[t] = BlockOf(t).offset + Len(hash[t]) * ChunkSize

\* A thread that is done has left all hashes of its block in its slot.
SlotsComplete ==
    \A t \in Threads : thread[t] = "done" => signature[t] = HashesOf(BlockOf(t))

\* Past the join there is a thread per block, and all are done.
Joined ==
    /\ stage = "map" => storage = <<>>
    /\ stage = "join" => core_index = Len(storage)
    /\ stage \in {"check", "write", "written"} =>
           /\ core_index = Len(storage)
           /\ \A t \in 0..(core_index - 1) : thread[t] = "done"

\* The output file is new only after the write.
WriteIsLast ==
    /\ stage \notin {"written", "failed"} => file # "new"
    /\ stage = "written" => file = "new" /\ output = Complete
    /\ exit = "success" => stage = "written"

IInv ==
    /\ TypeOK /\ CreatedOnly /\ NothingYet /\ HashedSoFar
    /\ SlotsComplete /\ Joined /\ WriteIsLast

-----------------------------------------------------------------------------
(* Facts about a block *)

\* A block has a natural number of hashes: its chunks, and one more if bytes
\* are left over.
LEMMA BlockFacts ==
    ASSUME NEW b \in JobBlock
    PROVE  /\ b.offset \in Nat
           /\ ChunksCount(b) \in Nat /\ TailSize(b) \in Nat
           /\ ExpectedLength(b) \in Nat
           /\ ExpectedLength(b) = IF TailSize(b) > 0 THEN ChunksCount(b) + 1
                                                     ELSE ChunksCount(b)
<1>1. b.offset \in Nat /\ b.size \in Nat /\ b.chunk_size = ChunkSize /\ ChunkSize \in Nat \ {0}
  BY JobInputs DEF JobBlock
<1>2. ChunksCount(b) \in Nat /\ TailSize(b) \in Nat
  <2>1. b.size \div ChunkSize \in Nat /\ b.size % ChunkSize \in Nat
    BY <1>1
  <2> QED
    BY <1>1, <2>1 DEF ChunksCount, TailSize
<1> QED
  BY <1>1, <1>2 DEF ExpectedLength

\* The hashes of a block are a sequence of that length.
LEMMA HashesOfBlock ==
    ASSUME NEW b \in JobBlock
    PROVE  /\ HashesOf(b) \in Seq(HashType)
           /\ Len(HashesOf(b)) = ExpectedLength(b)
           /\ \A k \in 1..ExpectedLength(b) :
                  HashesOf(b)[k] =
                      Hash(b.offset + (k - 1) * ChunkSize,
                           IF k <= ChunksCount(b) THEN ChunkSize ELSE TailSize(b))
<1> DEFINE h(k) == Hash(b.offset + (k - 1) * ChunkSize,
                        IF k <= ChunksCount(b) THEN ChunkSize ELSE TailSize(b))
           n == ExpectedLength(b)
<1>1. n \in Nat
  BY BlockFacts
<1>2. ASSUME NEW k \in 1..n PROVE h(k) \in HashType
  <2>1. k - 1 \in Nat /\ ChunkSize \in Nat \ {0}
    BY JobInputs, <1>1
  <2>2. (k - 1) * ChunkSize \in Nat
    BY <2>1, NatTimes
  <2>3. b.offset + (k - 1) * ChunkSize \in Nat
    BY <2>2, BlockFacts
  <2>4. (IF k <= ChunksCount(b) THEN ChunkSize ELSE TailSize(b)) \in Nat \ {0}
    BY <2>1, BlockFacts
  <2> QED
    BY <2>3, <2>4 DEF Hash, HashType
<1>3. HashesOf(b) = [k \in 1..n |-> h(k)]
  BY DEF HashesOf
<1> HIDE DEF h, n
<1>4. [k \in 1..n |-> h(k)] \in Seq(HashType) /\ Len([k \in 1..n |-> h(k)]) = n
  BY <1>1, <1>2
<1>5. \A k \in 1..n : HashesOf(b)[k] = h(k)
  BY <1>3
<1> QED
  BY <1>3, <1>4, <1>5 DEF h, n

\* The block of a created thread.
LEMMA BlockOfCreated ==
    ASSUME TypeOK, CreatedOnly, NEW t \in Threads, thread[t] # "none"
    PROVE  /\ BlockOf(t) \in JobBlock
           /\ t + 1 \in 1..Len(storage)
<1>1. /\ t \in Nat /\ t < core_index /\ core_index \in Nat
      /\ core_index <= Len(storage) /\ Len(storage) \in Nat
  <2>1. Len(storage) \in Nat
    BY LenProperties DEF TypeOK
  <2> QED
    BY <2>1, JobInputs DEF TypeOK, CreatedOnly, Threads
<1>2. t + 1 \in 1..Len(storage)
  BY <1>1
<1> QED
  BY <1>2 DEF BlockOf, TypeOK

-----------------------------------------------------------------------------
(* The invariant is inductive *)

LEMMA InitIInv == Init => IInv
<1>1. SUFFICES ASSUME Init PROVE IInv
  OBVIOUS
<1>2. \A t \in Threads : thread[t] = "none" /\ hash[t] = <<>>
  BY <1>1 DEF Init
<1>3. TypeOK
  <2>1. <<>> \in Seq(JobBlock) /\ Len(<<>>) = 0 /\ <<>> \in Seq(HashType)
    OBVIOUS
  <2> QED
    BY <1>1, <2>1, JobInputs DEF Init, TypeOK
<1>4. CreatedOnly /\ NothingYet /\ HashedSoFar /\ SlotsComplete
  BY <1>2 DEF CreatedOnly, NothingYet, HashedSoFar, SlotsComplete
<1>5. Joined /\ WriteIsLast
  BY <1>1 DEF Init, Joined, WriteIsLast
<1> QED
  BY <1>3, <1>4, <1>5 DEF IInv

\* A step that leaves the threads and their results alone keeps what is known
\* of them.
LEMMA PassiveKeeps ==
    ASSUME IInv, UNCHANGED <<storage, core_index, threadVars>>
    PROVE  CreatedOnly' /\ NothingYet' /\ HashedSoFar' /\ SlotsComplete'
<1>1. /\ storage' = storage /\ core_index' = core_index /\ thread' = thread
      /\ current_chunk' = current_chunk /\ hash' = hash /\ signature' = signature
  BY DEF threadVars
<1>2. CreatedOnly' /\ NothingYet'
  BY <1>1 DEF IInv, CreatedOnly, NothingYet
<1>3. HashedSoFar'
  BY <1>1 DEF IInv, HashedSoFar, BlockOf
<1>4. SlotsComplete'
  BY <1>1 DEF IInv, SlotsComplete, BlockOf
<1> QED
  BY <1>2, <1>3, <1>4

\* The signature to be written depends on the blocks only.
LEMMA CompleteKept ==
    ASSUME storage' = storage
    PROVE  Complete' = Complete
  BY DEF Complete

\* What main writes after the join is the complete signature.
LEMMA AllHashesComplete ==
    ASSUME IInv, stage = "write"
    PROVE  AllHashes = Complete
<1>1. core_index = Len(storage) /\ \A t \in 0..(core_index - 1) : thread[t] = "done"
  BY DEF IInv, Joined
<1>2. Len(storage) \in Nat /\ Len(storage) <= Cores
  BY LenProperties DEF IInv, TypeOK
<1>3. ASSUME NEW i \in 1..Len(storage)
      PROVE  signature[i - 1] = HashesOf(storage[i])
  <2>1. i - 1 \in Threads /\ i - 1 \in 0..(core_index - 1) /\ (i - 1) + 1 = i
    BY <1>1, <1>2, JobInputs DEF Threads
  <2>2. thread[i - 1] = "done"
    BY <1>1, <2>1
  <2>3. signature[i - 1] = HashesOf(BlockOf(i - 1))
    BY <2>1, <2>2 DEF IInv, SlotsComplete
  <2> QED
    BY <2>1, <2>3 DEF BlockOf
<1>4. [i \in 1..Len(storage) |-> signature[i - 1]]
        = [i \in 1..Len(storage) |-> HashesOf(storage[i])]
  BY <1>3
<1> QED
  BY <1>4 DEF AllHashes, Complete

\* Steps of main that do not create anything, and steps that end the process.
Passive ==
    \/ MappingFails \/ CreateThreadFails \/ StartJoining \/ JoinAll
    \/ CheckOutput \/ DeleteFails \/ Write \/ OpenFails \/ WriteFails
    \/ Return \/ Exited
    \/ \E t \in Threads : ResizeFails(t) \/ ReadTraps(t)

LEMMA PassiveStep ==
    ASSUME IInv, Passive, exit = "none" \/ Exited
    PROVE  IInv'
<1>1. UNCHANGED <<file_size, storage, core_index, threadVars>>
  BY DEF Passive, MappingFails, CreateThreadFails, StartJoining, JoinAll, CheckOutput,
         DeleteFails, Write, OpenFails, WriteFails, Return, Exited, ResizeFails,
         ReadTraps, vars
<1>2. CreatedOnly' /\ NothingYet' /\ HashedSoFar' /\ SlotsComplete'
  BY <1>1, PassiveKeeps
<1>3. TypeOK'
  <2>1. /\ stage' \in {"map", "create", "join", "check", "write", "written", "failed"}
        /\ file' \in {"absent", "old", "new"}
        /\ exit' \in {"none", "success", "failure", "crashed"}
    BY DEF IInv, TypeOK, Passive, MappingFails, CreateThreadFails, StartJoining, JoinAll,
           CheckOutput, DeleteFails, Write, OpenFails, WriteFails, Return, Exited,
           ResizeFails, ReadTraps, vars, fileVars
  <2>2. /\ file_size' = file_size /\ storage' = storage /\ core_index' = core_index
        /\ thread' = thread /\ current_chunk' = current_chunk /\ hash' = hash
        /\ signature' = signature
    BY <1>1 DEF threadVars
  <2> QED
    BY <2>1, <2>2 DEF IInv, TypeOK
<1>4. Joined'
  <2>1. storage' = storage /\ core_index' = core_index /\ thread' = thread
    BY <1>1 DEF threadVars
  <2>2. CASE stage' = stage
    BY <2>1, <2>2 DEF IInv, Joined
  <2>3. CASE stage' # stage
    BY <2>1, <2>3 DEF IInv, Joined, Passive, MappingFails, CreateThreadFails,
           StartJoining, JoinAll, CheckOutput, DeleteFails, Write, OpenFails, WriteFails,
           Return, Exited, ResizeFails, ReadTraps, vars
  <2> QED
    BY <2>2, <2>3
<1>5. WriteIsLast'
  <2>1. Complete' = Complete
    BY <1>1, CompleteKept
  <2>2. CASE Write
    <3>1. AllHashes = Complete
      BY <2>2, AllHashesComplete DEF Write
    <3> QED
      BY <2>1, <2>2, <3>1 DEF IInv, WriteIsLast, Write
  <2>3. CASE Return
    BY <2>1, <2>3 DEF IInv, WriteIsLast, Return, fileVars
  <2>4. CASE Exited
    BY <2>1, <2>4 DEF IInv, WriteIsLast, Exited, vars, fileVars
  <2>5. CASE CheckOutput
    BY <2>5 DEF IInv, WriteIsLast, CheckOutput
  <2>6. CASE WriteFails
    BY <2>6 DEF IInv, WriteIsLast, WriteFails
  <2>7. CASE CreateThreadFails \/ (\E t \in Threads : ResizeFails(t) \/ ReadTraps(t))
    BY <2>1, <2>7 DEF IInv, WriteIsLast, CreateThreadFails, ResizeFails, ReadTraps, fileVars
  <2>8. CASE MappingFails \/ StartJoining \/ JoinAll \/ DeleteFails \/ OpenFails
    BY <2>8 DEF IInv, WriteIsLast, MappingFails, StartJoining, JoinAll, DeleteFails,
           OpenFails, fileVars
  <2> QED
    BY <2>2, <2>3, <2>4, <2>5, <2>6, <2>7, <2>8 DEF Passive
<1> QED
  BY <1>2, <1>3, <1>4, <1>5 DEF IInv

LEMMA MapFileStep ==
    ASSUME IInv, MapFile, exit = "none"
    PROVE  IInv'
<1>1. storage = <<>> /\ core_index = 0 /\ file_size \in Nat
  <2>1. storage = <<>>
    BY DEF IInv, Joined, MapFile
  <2> QED
    BY <2>1, JobInputs DEF IInv, TypeOK
<1>2. \A t \in Threads : thread[t] = "none"
  BY <1>1, JobInputs DEF IInv, TypeOK, CreatedOnly, Threads
<1>3. Word \in Nat \ {0}
  <2>1. file_size + Cores * (ChunkSize + 1) + Readable < Word
    BY WordIsFarAway DEF IInv, TypeOK
  <2>2. Cores * (ChunkSize + 1) \in Nat
    BY JobInputs, NatTimes
  <2> QED
    BY <1>1, <2>1, <2>2, JobInputs, WordIsFarAway
<1>4. storage' \in Seq(JobBlock) /\ Len(storage') \in 1..Cores
  BY <1>1, <1>3, SplitIsTyped, JobInputs DEF MapFile, JobBlock
<1>5. TypeOK'
  <2>1. core_index' \in 0..Len(storage')
    BY <1>1, <1>4, JobInputs DEF MapFile
  <2> QED
    BY <1>4, <2>1, JobInputs DEF IInv, TypeOK, MapFile, threadVars, fileVars
<1>6. CreatedOnly' /\ NothingYet' /\ HashedSoFar' /\ SlotsComplete'
  <2>1. \A t \in Threads : thread'[t] = "none" /\ hash'[t] = hash[t]
    BY <1>2 DEF MapFile, threadVars
  <2> QED
    BY <1>2, <2>1 DEF IInv, CreatedOnly, NothingYet, HashedSoFar, SlotsComplete
<1>7. Joined' /\ WriteIsLast'
  BY DEF IInv, Joined, WriteIsLast, MapFile, fileVars
<1> QED
  BY <1>5, <1>6, <1>7 DEF IInv

LEMMA CreateThreadStep ==
    ASSUME IInv, CreateThread, exit = "none"
    PROVE  IInv'
<1>1. /\ Len(storage) \in Nat /\ Len(storage) <= Cores /\ Cores \in Nat
      /\ core_index \in Nat /\ core_index < Len(storage)
  BY LenProperties, JobInputs DEF IInv, TypeOK, CreateThread
<1>2. core_index \in Threads
  BY <1>1 DEF Threads
<1>3. /\ thread' = [thread EXCEPT ![core_index] = "started"]
      /\ core_index' = core_index + 1
      /\ storage' = storage /\ current_chunk' = current_chunk
      /\ hash' = hash /\ signature' = signature
  BY DEF CreateThread
<1>4. thread[core_index] = "none"
  BY <1>1, <1>2 DEF IInv, TypeOK, CreatedOnly
<1>5. \A t \in Threads : thread'[t] = IF t = core_index THEN "started" ELSE thread[t]
  BY <1>3 DEF IInv, TypeOK
<1>6. TypeOK'
  <2>1. thread' \in [Threads -> {"none", "started", "hashing", "done"}]
    BY <1>3 DEF IInv, TypeOK
  <2>2. core_index' \in 0..Len(storage')
    BY <1>1, <1>3
  <2> QED
    BY <1>3, <2>1, <2>2 DEF IInv, TypeOK, CreateThread, fileVars
<1>7. CreatedOnly'
  <2>1. SUFFICES ASSUME NEW t \in Threads, thread'[t] # "none" PROVE t < core_index'
    BY DEF CreatedOnly
  <2>2. t \in Nat
    BY <1>1 DEF Threads
  <2> QED
    BY <1>1, <1>3, <1>5, <2>1, <2>2 DEF IInv, CreatedOnly
<1>8. NothingYet'
  BY <1>3, <1>4, <1>5 DEF IInv, NothingYet
<1>9. HashedSoFar' /\ SlotsComplete'
  BY <1>3, <1>5 DEF IInv, HashedSoFar, SlotsComplete, BlockOf
<1>10. Joined' /\ WriteIsLast'
  BY DEF IInv, Joined, WriteIsLast, CreateThread, fileVars
<1> QED
  BY <1>6, <1>7, <1>8, <1>9, <1>10 DEF IInv

\* Steps of a thread leave main's variables alone.
LEMMA ThreadKeeps ==
    ASSUME IInv, NEW t \in Threads, Resize(t) \/ HashPiece(t) \/ Store(t)
    PROVE  /\ UNCHANGED <<file_size, stage, storage, core_index, file, output, exit>>
           /\ thread[t] # "none" /\ BlockOf(t) \in JobBlock /\ t + 1 \in 1..Len(storage)
           /\ \A u \in Threads : thread[u] = "none" => thread'[u] = "none"
           /\ \A u \in Threads : u # t =>
                  /\ thread'[u] = thread[u] /\ current_chunk'[u] = current_chunk[u]
                  /\ hash'[u] = hash[u] /\ signature'[u] = signature[u]
<1>1. thread[t] # "none"
  BY DEF Resize, HashPiece, HasMore, Store
<1>2. BlockOf(t) \in JobBlock /\ t + 1 \in 1..Len(storage)
  BY <1>1, BlockOfCreated DEF IInv
<1>3. UNCHANGED <<file_size, stage, storage, core_index, file, output, exit>>
  BY DEF Resize, HashPiece, Store, fileVars
<1>4. \A u \in Threads : u # t =>
          /\ thread'[u] = thread[u] /\ current_chunk'[u] = current_chunk[u]
          /\ hash'[u] = hash[u] /\ signature'[u] = signature[u]
  BY DEF IInv, TypeOK, Resize, HashPiece, Store
<1> QED
  BY <1>1, <1>2, <1>3, <1>4

\* Whatever thread t does, what main knows and the other threads' parts of the
\* invariant are kept.
LEMMA OthersKeep ==
    ASSUME IInv, NEW t \in Threads, Resize(t) \/ HashPiece(t) \/ Store(t)
    PROVE  /\ CreatedOnly' /\ Joined' /\ WriteIsLast'
           /\ \A u \in Threads : u # t =>
                  /\ thread'[u] \in {"none", "started"} => hash'[u] = <<>>
                  /\ thread'[u] = "hashing" =>
                        /\ Len(hash'[u]) <= ExpectedLength(BlockOf(u)')
                        /\ \A k \in 1..Len(hash'[u]) : hash'[u][k] = HashesOf(BlockOf(u)')[k]
                        /\ Len(hash'[u]) <= ChunksCount(BlockOf(u)')
                             => current_chunk'[u]
                                  = BlockOf(u)'.offset + Len(hash'[u]) * ChunkSize
                  /\ thread'[u] = "done" => signature'[u] = HashesOf(BlockOf(u)')
<1>1. UNCHANGED <<file_size, stage, storage, core_index, file, output, exit>>
  BY ThreadKeeps
<1>2. CreatedOnly'
  BY <1>1, ThreadKeeps DEF IInv, CreatedOnly
<1>3. Joined'
  <2>1. thread[t] # "done"
    BY DEF Resize, HashPiece, HasMore, Store
  <2>2. \A u \in 0..(core_index - 1) : u \in Threads
    BY LenProperties, JobInputs DEF IInv, TypeOK, Threads
  <2>3. \A u \in 0..(core_index - 1) : thread[u] = "done" => thread'[u] = "done"
    BY <2>1, <2>2, ThreadKeeps
  <2> QED
    BY <1>1, <2>3 DEF IInv, Joined
<1>4. WriteIsLast'
  BY <1>1, CompleteKept DEF IInv, WriteIsLast
<1>5. ASSUME NEW u \in Threads, u # t
      PROVE  /\ thread'[u] = thread[u] /\ current_chunk'[u] = current_chunk[u]
             /\ hash'[u] = hash[u] /\ signature'[u] = signature[u]
             /\ BlockOf(u)' = BlockOf(u)
  BY <1>1, <1>5, ThreadKeeps DEF BlockOf
<1> QED
  BY <1>2, <1>3, <1>4, <1>5 DEF IInv, NothingYet, HashedSoFar, SlotsComplete

LEMMA ResizeStep ==
    ASSUME IInv, NEW t \in Threads, Resize(t)
    PROVE  IInv'
<1> DEFINE b == BlockOf(t)
<1>1. /\ thread[t] = "started"
      /\ thread' = [thread EXCEPT ![t] = "hashing"]
      /\ current_chunk' = [current_chunk EXCEPT ![t] = b.offset]
      /\ hash' = hash /\ signature' = signature
  BY DEF Resize
<1>2. b \in JobBlock /\ BlockOf(t)' = b
  BY ThreadKeeps DEF BlockOf
<1>3. thread'[t] = "hashing" /\ hash'[t] = <<>> /\ current_chunk'[t] = b.offset
  BY <1>1 DEF IInv, TypeOK, NothingYet
<1>4. b.offset \in Nat /\ ExpectedLength(b) \in Nat /\ ChunkSize \in Nat
  BY <1>2, BlockFacts, JobInputs
<1> HIDE DEF b
<1>5. TypeOK'
  <2>1. /\ thread' \in [Threads -> {"none", "started", "hashing", "done"}]
        /\ current_chunk' \in [Threads -> Nat]
    BY <1>1, <1>4 DEF IInv, TypeOK
  <2> QED
    BY <1>1, <2>1, ThreadKeeps DEF IInv, TypeOK
<1>6. NothingYet'
  BY <1>3, OthersKeep DEF NothingYet
<1>7. HashedSoFar'
  <2>1. Len(hash'[t]) = 0 /\ current_chunk'[t] = b.offset + Len(hash'[t]) * ChunkSize
    BY <1>3, <1>4
  <2> QED
    BY <1>2, <1>4, <2>1, OthersKeep DEF HashedSoFar
<1>8. SlotsComplete'
  BY <1>3, OthersKeep DEF SlotsComplete
<1> QED
  BY <1>5, <1>6, <1>7, <1>8, OthersKeep DEF IInv

LEMMA HashPieceStep ==
    ASSUME IInv, NEW t \in Threads, HashPiece(t)
    PROVE  IInv'
<1> DEFINE b == BlockOf(t)
           n == Len(hash[t])
           piece == PieceSize(t)
           new == Hash(current_chunk[t], piece)
<1>1. /\ thread[t] = "hashing" /\ n < ExpectedLength(b)
      /\ hash' = [hash EXCEPT ![t] = Append(hash[t], new)]
      /\ current_chunk' = [current_chunk EXCEPT ![t] = current_chunk[t] + piece]
      /\ thread' = thread /\ signature' = signature
  BY DEF HashPiece, HasMore
<1>2. b \in JobBlock /\ BlockOf(t)' = b
  BY ThreadKeeps DEF BlockOf
<1>3. /\ b.offset \in Nat /\ ChunksCount(b) \in Nat /\ TailSize(b) \in Nat
      /\ ExpectedLength(b) \in Nat
      /\ ExpectedLength(b) = IF TailSize(b) > 0 THEN ChunksCount(b) + 1 ELSE ChunksCount(b)
      /\ ChunkSize \in Nat \ {0}
  BY <1>2, BlockFacts, JobInputs
<1>4. /\ hash[t] \in Seq(HashType) /\ n \in Nat /\ current_chunk[t] \in Nat
      /\ n <= ChunksCount(b) => current_chunk[t] = b.offset + n * ChunkSize
      /\ \A k \in 1..n : hash[t][k] = HashesOf(b)[k]
  BY <1>1, LenProperties DEF IInv, TypeOK, HashedSoFar
<1>5. piece = IF n < ChunksCount(b) THEN ChunkSize ELSE TailSize(b)
  BY DEF PieceSize
<1> HIDE DEF b, n, piece
<1>6. n <= ChunksCount(b) /\ piece \in Nat \ {0}
  BY <1>1, <1>3, <1>4, <1>5
<1>7. new = HashesOf(b)[n + 1]
  <2>1. n + 1 \in 1..ExpectedLength(b) /\ (n + 1) - 1 = n
    <3>1. n \in Nat /\ ExpectedLength(b) \in Nat /\ n < ExpectedLength(b)
      BY <1>1, <1>3, <1>4
    <3> QED
      BY <3>1
  <2>2. piece = IF n + 1 <= ChunksCount(b) THEN ChunkSize ELSE TailSize(b)
    BY <1>3, <1>4, <1>5
  <2> QED
    BY <1>2, <1>4, <1>6, <2>1, <2>2, HashesOfBlock
<1>8. new \in HashType /\ current_chunk[t] + piece \in Nat
  BY <1>4, <1>6 DEF Hash, HashType
<1> HIDE DEF new
<1>9. /\ Append(hash[t], new) \in Seq(HashType)
      /\ Len(Append(hash[t], new)) = n + 1
      /\ \A k \in 1..n : Append(hash[t], new)[k] = hash[t][k]
      /\ Append(hash[t], new)[n + 1] = new
  BY <1>4, <1>8, AppendProperties DEF n
<1>10. /\ hash'[t] = Append(hash[t], new)
       /\ current_chunk'[t] = current_chunk[t] + piece
  BY <1>1 DEF IInv, TypeOK
<1>11. TypeOK'
  <2>1. /\ hash' \in [Threads -> Seq(HashType)]
        /\ current_chunk' \in [Threads -> Nat]
    BY <1>1, <1>8, <1>9 DEF IInv, TypeOK
  <2> QED
    BY <1>1, <2>1, ThreadKeeps DEF IInv, TypeOK
<1>12. NothingYet'
  BY <1>1, OthersKeep DEF NothingYet
<1>13. HashedSoFar'
  <2>1. Len(hash'[t]) <= ExpectedLength(b)
    BY <1>1, <1>3, <1>4, <1>9, <1>10
  <2>2. \A k \in 1..Len(hash'[t]) : hash'[t][k] = HashesOf(b)[k]
    <3>1. TAKE k \in 1..Len(hash'[t])
    <3>2. k \in 1..n \/ k = n + 1
      BY <1>4, <1>9, <1>10
    <3> QED
      BY <1>4, <1>7, <1>9, <1>10, <3>2
  <2>3. Len(hash'[t]) <= ChunksCount(b)
          => current_chunk'[t] = b.offset + Len(hash'[t]) * ChunkSize
    <3>1. SUFFICES ASSUME n + 1 <= ChunksCount(b)
                   PROVE  current_chunk'[t] = b.offset + (n + 1) * ChunkSize
      BY <1>9, <1>10
    <3>2. piece = ChunkSize
      BY <1>3, <1>4, <1>5, <3>1
    <3>3. (n + 1) * ChunkSize = n * ChunkSize + ChunkSize /\ n * ChunkSize \in Nat
      BY <1>3, <1>4, NatTimes
    <3>4. current_chunk'[t] = (b.offset + n * ChunkSize) + ChunkSize
      BY <1>4, <1>6, <1>10, <3>2
    <3>5. b.offset \in Nat /\ ChunkSize \in Nat
      BY <1>3
    <3> QED
      BY <3>3, <3>4, <3>5
  <2> QED
    BY <1>2, <2>1, <2>2, <2>3, OthersKeep DEF HashedSoFar
<1>14. SlotsComplete'
  BY <1>1, OthersKeep DEF SlotsComplete
<1> QED
  BY <1>11, <1>12, <1>13, <1>14, OthersKeep DEF IInv

LEMMA StoreStep ==
    ASSUME IInv, NEW t \in Threads, Store(t)
    PROVE  IInv'
<1> DEFINE b == BlockOf(t)
<1>1. /\ thread[t] = "hashing" /\ ~(Len(hash[t]) < ExpectedLength(b))
      /\ thread' = [thread EXCEPT ![t] = "done"]
      /\ signature' = [signature EXCEPT ![t] = hash[t]]
      /\ current_chunk' = current_chunk /\ hash' = hash
  BY DEF Store, HasMore
<1>2. b \in JobBlock /\ BlockOf(t)' = b
  BY ThreadKeeps DEF BlockOf
<1>3. hash[t] = HashesOf(b)
  <2>1. /\ hash[t] \in Seq(HashType) /\ Len(hash[t]) \in Nat
        /\ Len(hash[t]) <= ExpectedLength(b)
        /\ \A k \in 1..Len(hash[t]) : hash[t][k] = HashesOf(b)[k]
    BY <1>1, LenProperties DEF IInv, TypeOK, HashedSoFar
  <2>2. ExpectedLength(b) \in Nat
    BY <1>2, BlockFacts
  <2>3. Len(hash[t]) = ExpectedLength(b)
    BY <1>1, <2>1, <2>2
  <2>4. HashesOf(b) \in Seq(HashType) /\ Len(HashesOf(b)) = ExpectedLength(b)
    BY <1>2, HashesOfBlock
  <2> HIDE DEF b
  <2> QED
    BY <2>1, <2>3, <2>4, SeqEqual
<1>4. thread'[t] = "done" /\ signature'[t] = hash[t]
  BY <1>1 DEF IInv, TypeOK
<1> HIDE DEF b
<1>5. TypeOK'
  <2>1. /\ thread' \in [Threads -> {"none", "started", "hashing", "done"}]
        /\ signature' \in [Threads -> Seq(HashType)]
    BY <1>1 DEF IInv, TypeOK
  <2> QED
    BY <1>1, <2>1, ThreadKeeps DEF IInv, TypeOK
<1>6. NothingYet' /\ HashedSoFar'
  BY <1>4, OthersKeep DEF NothingYet, HashedSoFar
<1>7. SlotsComplete'
  BY <1>2, <1>3, <1>4, OthersKeep DEF SlotsComplete
<1> QED
  BY <1>5, <1>6, <1>7, OthersKeep DEF IInv

LEMMA NextIInv == IInv /\ [Next]_vars => IInv'
<1>1. SUFFICES ASSUME IInv, [Next]_vars PROVE IInv'
  OBVIOUS
<1>2. CASE MainStep
  <2>1. exit = "none"
    BY <1>2 DEF MainStep
  <2>2. CASE MapFile
    BY <1>1, <2>1, <2>2, MapFileStep
  <2>3. CASE CreateThread
    BY <1>1, <2>1, <2>3, CreateThreadStep
  <2>4. CASE ~MapFile /\ ~CreateThread
    <3>1. Passive
      BY <1>2, <2>4 DEF MainStep, Passive
    <3> QED
      BY <1>1, <2>1, <3>1, PassiveStep
  <2> QED
    BY <2>2, <2>3, <2>4
<1>3. ASSUME NEW t \in Threads, ThreadStep(t) PROVE IInv'
  <2>1. exit = "none"
    BY <1>3 DEF ThreadStep
  <2>2. CASE Resize(t)
    BY <1>1, <2>2, ResizeStep
  <2>3. CASE HashPiece(t)
    BY <1>1, <2>3, HashPieceStep
  <2>4. CASE Store(t)
    BY <1>1, <2>4, StoreStep
  <2>5. CASE ResizeFails(t) \/ ReadTraps(t)
    BY <1>1, <2>1, <2>5, PassiveStep DEF Passive
  <2> QED
    BY <1>3, <2>2, <2>3, <2>4, <2>5 DEF ThreadStep
<1>4. CASE Exited
  BY <1>1, <1>4, PassiveStep DEF Passive
<1>5. CASE UNCHANGED vars
  <2>1. /\ UNCHANGED <<storage, core_index, threadVars>>
        /\ UNCHANGED <<file_size, stage, file, output, exit>>
    BY <1>5 DEF vars, fileVars
  <2>2. CreatedOnly' /\ NothingYet' /\ HashedSoFar' /\ SlotsComplete'
    BY <1>1, <2>1, PassiveKeeps
  <2>3. TypeOK' /\ Joined' /\ WriteIsLast'
    BY <1>1, <2>1, CompleteKept DEF IInv, TypeOK, Joined, WriteIsLast, threadVars
  <2> QED
    BY <2>2, <2>3 DEF IInv
<1> QED
  BY <1>1, <1>2, <1>3, <1>4, <1>5 DEF Next

THEOREM SpecIInv == Spec => []IInv
  BY InitIInv, NextIInv, PTL DEF Spec

-----------------------------------------------------------------------------
(* What has been read *)

\* Once there are blocks, they are the split of this file.
BlocksAreSplit ==
    storage = <<>> \/ storage = Split(file_size, Cores, ChunkSize, Word)

\* Every hash a thread has is of bytes that could be read, and those are the
\* hashes it leaves in its slot.
ReadableOnly ==
    \A t \in Threads :
        /\ \A k \in 1..Len(hash[t]) : hash[t][k].from + hash[t][k].size <= Readable
        /\ thread[t] = "done" => signature[t] = hash[t]

Reached == BlocksAreSplit /\ ReadableOnly

LEMMA InitReached == Init => Reached
<1>1. SUFFICES ASSUME Init PROVE Reached
  OBVIOUS
<1>2. \A t \in Threads : hash[t] = <<>> /\ thread[t] = "none"
  BY <1>1 DEF Init
<1> QED
  BY <1>1, <1>2 DEF Init, Reached, BlocksAreSplit, ReadableOnly

LEMMA NextReached == IInv /\ Reached /\ [Next]_vars => Reached'
<1>1. SUFFICES ASSUME IInv, Reached, [Next]_vars PROVE Reached'
  OBVIOUS
<1>2. CASE UNCHANGED <<thread, hash, signature>>
  <2>1. ReadableOnly'
    BY <1>1, <1>2 DEF Reached, ReadableOnly
  <2>2. BlocksAreSplit'
    <3>1. CASE MapFile
      BY <3>1 DEF BlocksAreSplit, MapFile
    <3>2. CASE ~MapFile
      BY <1>1, <3>2 DEF Reached, BlocksAreSplit, Next, MainStep, ThreadStep, MappingFails,
         CreateThread, CreateThreadFails, StartJoining, JoinAll, CheckOutput, DeleteFails,
         Write, OpenFails, WriteFails, Return, Exited, Resize, ResizeFails, HashPiece,
         ReadTraps, Store, vars
    <3> QED
      BY <3>1, <3>2
  <2> QED
    BY <2>1, <2>2 DEF Reached
<1>3. CASE CreateThread
  <2>1. hash' = hash /\ signature' = signature /\ stage' = stage /\ storage' = storage
        /\ file_size' = file_size
    BY <1>3 DEF CreateThread
  <2>2. \A t \in Threads : thread'[t] = "done" => thread[t] = "done"
    BY <1>1, <1>3 DEF CreateThread, IInv, TypeOK
  <2> QED
    BY <1>1, <2>1, <2>2 DEF Reached, BlocksAreSplit, ReadableOnly
<1>4. ASSUME NEW t \in Threads, Resize(t) \/ HashPiece(t) \/ Store(t) PROVE Reached'
  <2>1. BlocksAreSplit'
    BY <1>1, <1>4, ThreadKeeps DEF Reached, BlocksAreSplit
  <2>2. \A u \in Threads : u # t =>
            /\ thread'[u] = thread[u] /\ hash'[u] = hash[u] /\ signature'[u] = signature[u]
    BY <1>1, <1>4, ThreadKeeps
  <2>3. /\ \A k \in 1..Len(hash'[t]) : hash'[t][k].from + hash'[t][k].size <= Readable
        /\ thread'[t] = "done" => signature'[t] = hash'[t]
    <3>1. CASE Resize(t)
      <4>1. hash' = hash /\ thread'[t] = "hashing"
        BY <1>1, <3>1 DEF Resize, IInv, TypeOK
      <4> QED
        BY <1>1, <4>1 DEF Reached, ReadableOnly
    <3>2. CASE Store(t)
      <4>1. hash' = hash /\ signature'[t] = hash[t]
        BY <1>1, <3>2 DEF Store, IInv, TypeOK
      <4> QED
        BY <1>1, <4>1 DEF Reached, ReadableOnly
    <3>3. CASE HashPiece(t)
      <4> DEFINE piece == PieceSize(t)
                 new == Hash(current_chunk[t], piece)
                 n == Len(hash[t])
      <4>1. /\ hash'[t] = Append(hash[t], new) /\ current_chunk[t] + piece <= Readable
            /\ thread'[t] = "hashing"
        BY <1>1, <3>3 DEF HashPiece, HasMore, IInv, TypeOK
      <4>2. hash[t] \in Seq(HashType) /\ n \in Nat
        BY <1>1, LenProperties DEF IInv, TypeOK
      <4>3. new.from + new.size <= Readable
        BY <4>1 DEF Hash
      <4>4. hash'[t] \in Seq(HashType)
        BY <1>1, <3>3, HashPieceStep DEF IInv, TypeOK
      <4> HIDE DEF new
      <4>5. Len(hash'[t]) = n + 1 /\ hash'[t][n + 1] = new
            /\ \A k \in 1..n : hash'[t][k] = hash[t][k]
        <5>1. Len(Append(hash[t], new)) = n + 1
          BY <4>2
        <5>2. Append(hash[t], new)[n + 1] = new
          BY <4>2
        <5>3. \A k \in 1..n : Append(hash[t], new)[k] = hash[t][k]
          BY <4>2
        <5> QED
          BY <4>1, <5>1, <5>2, <5>3
      <4>6. ASSUME NEW k \in 1..Len(hash'[t])
            PROVE  hash'[t][k].from + hash'[t][k].size <= Readable
        <5>1. k \in 1..n \/ k = n + 1
          BY <4>2, <4>5
        <5> QED
          BY <1>1, <4>3, <4>5, <5>1 DEF Reached, ReadableOnly
      <4> QED
        BY <4>1, <4>6
    <3> QED
      BY <1>4, <3>1, <3>2, <3>3
  <2>4. ReadableOnly'
    BY <1>1, <2>2, <2>3 DEF Reached, ReadableOnly
  <2> QED
    BY <2>1, <2>4 DEF Reached
<1>5. \/ UNCHANGED <<thread, hash, signature>> \/ CreateThread
      \/ \E t \in Threads : Resize(t) \/ HashPiece(t) \/ Store(t)
  BY <1>1 DEF Next, MainStep, ThreadStep, MappingFails, MapFile, CreateThreadFails,
     StartJoining, JoinAll, CheckOutput, DeleteFails, Write, OpenFails, WriteFails, Return,
     Exited, ResizeFails, ReadTraps, vars, threadVars
<1> QED
  BY <1>2, <1>3, <1>4, <1>5

LEMMA SpecReached == Spec => []Reached
  BY InitReached, NextReached, SpecIInv, PTL DEF Spec

\* The size of a block is that of its chunks and its remainder.
LEMMA BlockSize ==
    ASSUME NEW b \in JobBlock
    PROVE  b.size = (ChunkSize * ChunksCount(b)) + TailSize(b)
<1>1. b.size \in Nat /\ b.chunk_size = ChunkSize /\ ChunkSize \in Nat \ {0}
  BY JobInputs DEF JobBlock
<1>2. \A a \in Nat, c \in Nat \ {0} : a = (c * (a \div c)) + (a % c)
  BY NatDivision
<1>3. b.size = (ChunkSize * (b.size \div ChunkSize)) + (b.size % ChunkSize)
  BY <1>1, <1>2
<1> QED
  BY <1>1, <1>3 DEF ChunksCount, TailSize

\* If the size of the last block has not wrapped, all blocks are in the file.
LEMMA FittingTail ==
    ASSUME IInv, Reached, TailFits, NEW i \in 1..Len(storage)
    PROVE  storage[i].offset + storage[i].size <= file_size
<1> DEFINE blocks == Split(file_size, Cores, ChunkSize, Word)
           last == blocks[Len(blocks)]
<1>1. storage = blocks
  <2>1. storage # <<>>
    OBVIOUS
  <2> QED
    BY <2>1 DEF Reached, BlocksAreSplit
<1>2. /\ file_size \in Nat /\ Word \in Nat /\ Cores \in Nat \ {0} /\ ChunkSize \in Nat \ {0}
      /\ Readable \in Nat /\ file_size <= Readable
      /\ file_size + Cores * (ChunkSize + 1) + Readable < Word
      /\ Cores * (ChunkSize + 1) \in Nat
  <2>1. file_size \in FileSizes
    BY DEF IInv, TypeOK
  <2>2. Cores * (ChunkSize + 1) \in Nat
    BY JobInputs, NatTimes
  <2> QED
    BY <2>1, <2>2, JobInputs, WordIsFarAway
<1>3. \/ \A k \in DOMAIN blocks : blocks[k].offset + blocks[k].size <= file_size
      \/ last.size + file_size + Cores * (ChunkSize + 1) >= Word
  <2>1. file_size + Cores * (ChunkSize + 1) < Word
    BY <1>2
  <2> QED
    BY <1>2, <2>1, SplitFitsOrWraps
<1>4. last.size \in Nat /\ last.size <= file_size
  <2>1. Len(storage) \in 1..Len(storage) /\ storage \in Seq(JobBlock)
    BY LenProperties DEF IInv, TypeOK
  <2>2. storage[Len(storage)] \in JobBlock
    BY <2>1
  <2> HIDE DEF blocks
  <2> QED
    BY <1>1, <2>2 DEF TailFits, JobBlock
<1> HIDE DEF blocks, last
<1>5. \A k \in DOMAIN blocks : blocks[k].offset + blocks[k].size <= file_size
  BY <1>2, <1>3, <1>4
<1>6. i \in DOMAIN storage
  BY LenProperties DEF IInv, TypeOK
<1> QED
  BY <1>1, <1>5, <1>6

\* If all hashes of a block are of readable bytes, the block is readable.
LEMMA HashesReachEnd ==
    ASSUME NEW b \in JobBlock, b.size > 0,
           \A k \in 1..Len(HashesOf(b)) :
               HashesOf(b)[k].from + HashesOf(b)[k].size <= Readable
    PROVE  b.offset + b.size <= Readable
<1> DEFINE q == ChunksCount(b)
           r == TailSize(b)
<1>1. /\ b.size \in Nat /\ b.offset \in Nat /\ q \in Nat /\ r \in Nat
      /\ ChunkSize \in Nat \ {0} /\ b.chunk_size = ChunkSize
  BY BlockFacts, JobInputs DEF JobBlock
<1>2. b.size = (ChunkSize * q) + r
  BY BlockSize
<1>3. /\ Len(HashesOf(b)) = ExpectedLength(b)
      /\ ExpectedLength(b) = IF r > 0 THEN q + 1 ELSE q
  BY BlockFacts, HashesOfBlock
<1>4. \A k \in 1..ExpectedLength(b) :
          /\ HashesOf(b)[k].from = b.offset + (k - 1) * ChunkSize
          /\ HashesOf(b)[k].size = IF k <= q THEN ChunkSize ELSE r
  <2>1. \A k \in 1..ExpectedLength(b) :
            HashesOf(b)[k] = Hash(b.offset + (k - 1) * ChunkSize,
                                  IF k <= q THEN ChunkSize ELSE r)
    BY HashesOfBlock
  <2>2. \A from, size : Hash(from, size).from = from /\ Hash(from, size).size = size
    BY DEF Hash
  <2> HIDE DEF q, r
  <2> QED
    BY <2>1, <2>2
<1> HIDE DEF q, r
<1>5. CASE r > 0
  <2>1. /\ q + 1 \in 1..ExpectedLength(b) /\ (q + 1) - 1 = q /\ ~(q + 1 <= q)
    BY <1>1, <1>3, <1>5
  <2>2. HashesOf(b)[q + 1].from = b.offset + q * ChunkSize /\ HashesOf(b)[q + 1].size = r
    BY <1>4, <2>1
  <2> QED
    BY <1>1, <1>2, <1>3, <2>1, <2>2
<1>6. CASE r = 0
  <2>1. q > 0
    BY <1>1, <1>2, <1>6
  <2>2. q \in 1..ExpectedLength(b) /\ q <= q
    BY <1>1, <1>3, <1>6, <2>1
  <2>3. HashesOf(b)[q].from = b.offset + (q - 1) * ChunkSize /\ HashesOf(b)[q].size = ChunkSize
    BY <1>4, <2>2
  <2>4. (q - 1) * ChunkSize + ChunkSize = ChunkSize * q
    BY <1>1
  <2>5. (q - 1) * ChunkSize \in Nat
    BY <1>1, <2>1, NatTimes
  <2> QED
    BY <1>1, <1>2, <1>3, <1>6, <2>2, <2>3, <2>4, <2>5
<1> QED
  BY <1>1, <1>5, <1>6

-----------------------------------------------------------------------------
(* What FlattenSeq puts together: by the least number of sequences at which it *)
(* would be otherwise                                                          *)

\* A non-empty set of naturals has a least element.
LEMMA LeastNatural ==
    ASSUME NEW T \in SUBSET Nat, T # {}
    PROVE  \E n \in T : \A k \in T : n <= k
<1>1. IsWellFoundedOn(OpToRel(<, Nat), Nat)
    BY NatLessThanWellFounded
<1>2. PICK n \in T : \A k \in T : <<k, n>> \notin OpToRel(<, Nat)
    <2> HIDE DEF OpToRel
    <2> QED
        BY <1>1, WFMin
<1>3. \A k \in T : ~(k < n)
    BY <1>2 DEF OpToRel
<1> QED
    BY <1>3

\* What FlattenSeq has put together after i of the sequences, as a function of i.
Grows(g, s, n) == g = [i \in 1..n |-> IF i = 1 THEN s[i] ELSE g[i - 1] \o s[i]]

\* There is such a function, for any number of sequences.
LEMMA FlattenExists ==
    ASSUME NEW s, NEW n \in Nat \ {0}
    PROVE  \E g : Grows(g, s, n)
<1> DEFINE Bad == {m \in 1..n : ~\E g : Grows(g, s, m)}
<1>1. SUFFICES ASSUME Bad # {} PROVE FALSE
    <2>1. n \in 1..n
        OBVIOUS
    <2> QED
        BY <2>1
<1>2. PICK m \in Bad : \A k \in Bad : m <= k
    BY <1>1, LeastNatural, Bad \in SUBSET Nat
<1>3. m \in 1..n /\ ~\E g : Grows(g, s, m)
    OBVIOUS
<1>4. CASE m = 1
    <2> DEFINE g == [i \in 1..m |-> s[i]]
    <2>1. Grows(g, s, m)
        BY <1>4 DEF Grows
    <2> QED
        BY <1>3, <2>1
<1>5. CASE m # 1
    <2>1. m - 1 \in 1..n /\ m - 1 \notin Bad
        BY <1>2, <1>3, <1>5
    <2>2. PICK h : Grows(h, s, m - 1)
        BY <2>1
    <2> DEFINE g == [i \in 1..m |-> IF i = m THEN h[m - 1] \o s[m] ELSE h[i]]
    <2>3. Grows(g, s, m)
        <3>1. \A i \in 1..(m - 1) : h[i] = IF i = 1 THEN s[i] ELSE h[i - 1] \o s[i]
            BY <2>2 DEF Grows
        <3>2. ASSUME NEW i \in 1..m
              PROVE  g[i] = IF i = 1 THEN s[i] ELSE g[i - 1] \o s[i]
            <4>1. CASE i = m
                <5>1. m - 1 \in 1..m /\ m - 1 # m /\ i # 1
                    BY <1>3, <1>5, <4>1
                <5> QED
                    BY <4>1, <5>1
            <4>2. CASE i # m
                <5>1. i \in 1..(m - 1) /\ g[i] = h[i]
                    BY <1>3, <4>2
                <5>2. i # 1 => i - 1 \in 1..m /\ i - 1 # m
                    BY <1>3
                <5> QED
                    BY <3>1, <5>1, <5>2
            <4> QED
                BY <4>1, <4>2
        <3> HIDE DEF g
        <3>3. g = [i \in 1..m |-> g[i]]
            BY DEF g
        <3>4. [i \in 1..m |-> g[i]] = [i \in 1..m |-> IF i = 1 THEN s[i] ELSE g[i - 1] \o s[i]]
            BY <3>2
        <3> QED
            BY <3>3, <3>4 DEF Grows
    <2> QED
        BY <1>3, <2>3
<1> QED
    BY <1>4, <1>5

\* FlattenSeq is the value of one.
LEMMA FlattenUnfolds ==
    ASSUME NEW s, Len(s) \in Nat \ {0}
    PROVE  \E g : Grows(g, s, Len(s)) /\ FlattenSeq(s) = g[Len(s)]
<1> DEFINE g == CHOOSE g : Grows(g, s, Len(s))
<1>1. Grows(g, s, Len(s))
    <2>1. \E h : Grows(h, s, Len(s))
        BY FlattenExists
    <2> QED
        BY <2>1
<1>2. FlattenSeq(s) = g[Len(s)]
    BY DEF FlattenSeq, Grows
<1> QED
    BY <1>1, <1>2

\* The elements of a flattened sequence are those of its sequences.
LEMMA FlattenRange ==
    ASSUME NEW S, NEW s \in Seq(Seq(S))
    PROVE  /\ FlattenSeq(s) \in Seq(S)
           /\ Range(FlattenSeq(s)) = UNION {Range(s[i]) : i \in 1..Len(s)}
<1>1. CASE Len(s) = 0
    <2>1. s = <<>> /\ FlattenSeq(s) = s
        BY <1>1 DEF FlattenSeq
    <2>2. Range(<<>>) = {} /\ <<>> \in Seq(S)
        BY DEF Range
    <2>3. {Range(s[i]) : i \in 1..Len(s)} = {}
        BY <1>1
    <2> QED
        BY <2>1, <2>2, <2>3
<1>2. CASE Len(s) # 0
    <2>1. PICK g : Grows(g, s, Len(s)) /\ FlattenSeq(s) = g[Len(s)]
        BY <1>2, FlattenUnfolds
    <2> DEFINE n == Len(s)
               Good(i) == g[i] \in Seq(S) /\ Range(g[i]) = UNION {Range(s[j]) : j \in 1..i}
               Bad == {i \in 1..n : ~Good(i)}
    <2>2. n \in Nat \ {0} /\ \A i \in 1..n : s[i] \in Seq(S)
        BY <1>2
    <2>3. \A i \in 1..n : g[i] = IF i = 1 THEN s[i] ELSE g[i - 1] \o s[i]
        BY <2>1 DEF Grows
    <2> HIDE DEF n
    <2>4. Bad = {}
        <3>1. SUFFICES ASSUME Bad # {} PROVE FALSE
            OBVIOUS
        <3>2. PICK m \in Bad : \A k \in Bad : m <= k
            BY <2>2, <3>1, LeastNatural, Bad \in SUBSET Nat
        <3>3. m \in 1..n /\ ~Good(m)
            OBVIOUS
        <3>4. CASE m = 1
            <4>1. g[m] = s[m]
                BY <2>3, <3>3, <3>4
            <4>2. \A j \in 1..m : j = m
                BY <3>4
            <4>3. {Range(s[j]) : j \in 1..m} = {Range(s[m])}
                BY <3>4
            <4>4. Range(g[m]) = UNION {Range(s[j]) : j \in 1..m}
                BY <4>1, <4>3
            <4> QED
                BY <2>2, <3>3, <4>1, <4>4
        <3>5. CASE m # 1
            <4>1. m - 1 \in 1..n /\ m - 1 \notin Bad
                <5>1. m - 1 \in 1..n /\ ~(m <= m - 1)
                    BY <2>2, <3>3, <3>5
                <5> QED
                    BY <3>2, <5>1
            <4>2. Good(m - 1)
                BY <4>1
            <4>3. g[m] = g[m - 1] \o s[m]
                BY <2>3, <3>3, <3>5
            <4>4. g[m - 1] \in Seq(S) /\ s[m] \in Seq(S)
                BY <2>2, <3>3, <4>2
            <4>5. g[m] \in Seq(S) /\ Range(g[m]) = Range(g[m - 1]) \cup Range(s[m])
                <5> HIDE DEF Good, Bad
                <5>1. Range(g[m - 1] \o s[m]) = Range(g[m - 1]) \cup Range(s[m])
                    BY <4>4, RangeConcatenation
                <5>2. g[m - 1] \o s[m] \in Seq(S)
                    BY <4>4
                <5> QED
                    BY <4>3, <5>1, <5>2
            <4>6. 1..m = (1..(m - 1)) \cup {m}
                BY <2>2, <3>3, <3>5
            <4>7. UNION {Range(s[j]) : j \in 1..m}
                      = (UNION {Range(s[j]) : j \in 1..(m - 1)}) \cup Range(s[m])
                <5> DEFINE U == UNION {Range(s[j]) : j \in 1..m}
                           V == UNION {Range(s[j]) : j \in 1..(m - 1)}
                <5>1. \A x : x \in U <=> \E j \in 1..m : x \in Range(s[j])
                    OBVIOUS
                <5>2. \A x : x \in V <=> \E j \in 1..(m - 1) : x \in Range(s[j])
                    OBVIOUS
                <5> HIDE DEF Good, Bad, U, V
                <5>3. \A x : (\E j \in 1..m : x \in Range(s[j]))
                          <=> (\E j \in 1..(m - 1) : x \in Range(s[j])) \/ x \in Range(s[m])
                    BY <4>6, Zenon
                <5>4. \A x : x \in U <=> x \in V \/ x \in Range(s[m])
                    BY <5>1, <5>2, <5>3, Zenon
                <5>5. U = V \cup Range(s[m])
                    BY <5>4
                <5> QED
                    BY <5>5 DEF U, V
            <4> QED
                BY <3>3, <4>2, <4>5, <4>7
        <3> QED
            BY <3>4, <3>5
    <2>5. Good(n)
        <3>1. n \in 1..n
            BY <2>2
        <3> QED
            BY <2>4, <3>1
    <2> QED
        BY <2>1, <2>5 DEF n
<1> QED
    BY <1>1, <1>2

-----------------------------------------------------------------------------
(* The bytes that the hashes of a block are of *)

Span(h) == h.from..(h.from + h.size - 1)

\* The CRC of a hash depends on all its bytes but those behind the first after
\* the last word.
LEMMA CrcInput ==
    ASSUME NEW h \in HashType
    PROVE  Range(Crc32Input(h)) = Span(h) \ Unhashed(h)
<1> DEFINE from == h.from
           size == h.size
           words == InWords(size)
           byte(i) == from + (IF i <= words THEN i - 1 ELSE words)
<1>1. from \in Nat /\ size \in Nat
  BY DEF HashType
<1>2. words \in Nat /\ words <= size
  BY <1>1 DEF InWords
<1>3. Range(Crc32Input(h)) = {byte(i) : i \in 1..size}
  BY DEF Range, Crc32Input
<1>4. Span(h) \ Unhashed(h) = {p \in from..(from + size - 1) : ~(p > from + words)}
  BY DEF Span, Unhashed
<1> HIDE DEF from, size, words
<1>5. ASSUME NEW i \in 1..size
      PROVE  byte(i) \in from..(from + size - 1) /\ ~(byte(i) > from + words)
  BY <1>1, <1>2
<1>6. ASSUME NEW p \in from..(from + size - 1), ~(p > from + words)
      PROVE  \E i \in 1..size : p = byte(i)
  <2>1. p - from + 1 \in 1..size /\ p = byte(p - from + 1)
    BY <1>1, <1>2, <1>6
  <2> QED
    BY <2>1
<1> QED
  BY <1>3, <1>4, <1>5, <1>6

\* A hash of a block, by its number.
LEMMA HashOfBlock ==
    ASSUME NEW b \in JobBlock, NEW k \in 1..ExpectedLength(b)
    PROVE  LET h == HashesOf(b)[k]
           IN  /\ h \in HashType
               /\ (k - 1) * ChunkSize \in Nat
               /\ h.from = b.offset + (k - 1) * ChunkSize
               /\ k <= ChunksCount(b) => h.size = ChunkSize
               /\ ~(k <= ChunksCount(b)) => h.size = TailSize(b) /\ k = ChunksCount(b) + 1
<1>1. /\ HashesOf(b) \in Seq(HashType) /\ Len(HashesOf(b)) = ExpectedLength(b)
      /\ HashesOf(b)[k] = Hash(b.offset + (k - 1) * ChunkSize,
                               IF k <= ChunksCount(b) THEN ChunkSize ELSE TailSize(b))
  BY HashesOfBlock
<1>2. HashesOf(b)[k] \in HashType
  BY <1>1
<1>3. \A from, size : Hash(from, size).from = from /\ Hash(from, size).size = size
  BY DEF Hash
<1>4. k - 1 \in Nat /\ ChunksCount(b) \in Nat /\ k <= ChunksCount(b) + 1
  BY BlockFacts
<1>5. (k - 1) * ChunkSize \in Nat
  BY <1>4, JobInputs, NatTimes
<1>6. ~(k <= ChunksCount(b)) => k = ChunksCount(b) + 1
  BY <1>4
<1> QED
  BY <1>1, <1>2, <1>3, <1>5, <1>6

\* The hashes of a block are of its bytes, each of its own.
LEMMA SpansInBlock ==
    ASSUME NEW b \in JobBlock, NEW h \in Range(HashesOf(b))
    PROVE  h \in HashType /\ Span(h) \subseteq b.offset..(b.offset + b.size - 1)
<1>1. PICK k \in 1..ExpectedLength(b) : h = HashesOf(b)[k]
  BY HashesOfBlock DEF Range
<1>2. b.offset \in Nat /\ b.size \in Nat /\ ChunkSize \in Nat \ {0}
      /\ ChunksCount(b) \in Nat /\ TailSize(b) \in Nat
  BY BlockFacts, JobInputs DEF JobBlock
<1>3. b.size = (ChunkSize * ChunksCount(b)) + TailSize(b)
  BY BlockSize
<1>4. /\ h \in HashType
      /\ (k - 1) * ChunkSize \in Nat
      /\ h.from = b.offset + (k - 1) * ChunkSize
      /\ k <= ChunksCount(b) => h.size = ChunkSize
      /\ ~(k <= ChunksCount(b)) => h.size = TailSize(b) /\ k = ChunksCount(b) + 1
  BY <1>1, HashOfBlock
<1> DEFINE start == (k - 1) * ChunkSize
<1>5. start + h.size <= b.size
  <2>1. CASE k <= ChunksCount(b)
    <3>1. start + ChunkSize = ChunkSize * k /\ ChunkSize * k <= ChunkSize * ChunksCount(b)
      BY <1>2, <2>1
    <3>2. ChunkSize * ChunksCount(b) \in Nat /\ ChunkSize * k \in Nat
      BY <1>2, NatTimes
    <3> HIDE DEF start
    <3> QED
      BY <1>2, <1>3, <1>4, <2>1, <3>1, <3>2
  <2>2. CASE ~(k <= ChunksCount(b))
    <3>1. start = ChunkSize * ChunksCount(b)
      BY <1>2, <1>4, <2>2
    <3>2. ChunkSize * ChunksCount(b) \in Nat
      BY <1>2, NatTimes
    <3> HIDE DEF start
    <3> QED
      BY <1>2, <1>3, <1>4, <2>2, <3>1, <3>2
  <2> QED
    BY <2>1, <2>2
<1>6. start \in Nat /\ h.from = b.offset + start /\ h.size \in Nat
  BY <1>4 DEF HashType
<1> HIDE DEF start
<1>7. Span(h) \subseteq b.offset..(b.offset + b.size - 1)
  BY <1>2, <1>5, <1>6 DEF Span
<1> QED
  BY <1>4, <1>7

LEMMA SpansCoverBlock ==
    ASSUME NEW b \in JobBlock, NEW p \in b.offset..(b.offset + b.size - 1)
    PROVE  \E h \in Range(HashesOf(b)) : p \in Span(h)
<1> DEFINE d == p - b.offset
           i == d \div ChunkSize
           q == ChunksCount(b)
<1>1. b.offset \in Nat /\ b.size \in Nat /\ ChunkSize \in Nat \ {0}
      /\ q \in Nat /\ TailSize(b) \in Nat
  BY BlockFacts, JobInputs DEF JobBlock
<1>2. b.size = (ChunkSize * q) + TailSize(b)
  BY BlockSize
<1>3. d \in Nat /\ d < b.size /\ p = b.offset + d
  BY <1>1
<1>4. i \in Nat /\ d % ChunkSize \in 0..(ChunkSize - 1) /\ d = (ChunkSize * i) + (d % ChunkSize)
  <2> HIDE DEF d
  <2> QED
    BY <1>1, <1>3, NatDivision
<1> HIDE DEF d, i, q
<1>5. ChunkSize * i \in Nat /\ ChunkSize * i <= d /\ d < (ChunkSize * i) + ChunkSize
  BY <1>1, <1>3, <1>4, NatTimes
<1>6. TailSize(b) < ChunkSize
  BY <1>1 DEF TailSize, JobBlock
<1>7. i <= q
  <2>1. SUFFICES ASSUME q < i PROVE FALSE
    BY <1>1, <1>4
  <2>2. ChunkSize * (q + 1) <= ChunkSize * i
    BY <1>1, <1>4, <2>1
  <2>3. ChunkSize * (q + 1) = (ChunkSize * q) + ChunkSize /\ ChunkSize * q \in Nat
    BY <1>1, NatTimes
  <2> QED
    BY <1>1, <1>2, <1>3, <1>5, <1>6, <2>2, <2>3
<1>8. i = q => TailSize(b) > 0 /\ d < (ChunkSize * i) + TailSize(b)
  BY <1>1, <1>2, <1>3, <1>5
<1>9. i + 1 \in 1..ExpectedLength(b)
  <2>1. ExpectedLength(b) = IF TailSize(b) > 0 THEN q + 1 ELSE q
    BY BlockFacts DEF q
  <2> QED
    BY <1>1, <1>4, <1>7, <1>8, <2>1
<1> DEFINE h == HashesOf(b)[i + 1]
<1>10. /\ h.from = b.offset + ((i + 1) - 1) * ChunkSize
       /\ i + 1 <= q => h.size = ChunkSize
       /\ ~(i + 1 <= q) => h.size = TailSize(b)
  BY <1>9, HashOfBlock DEF q
<1>11. h.from = b.offset + ChunkSize * i
  <2>1. ((i + 1) - 1) * ChunkSize = ChunkSize * i
    BY <1>1, <1>4
  <2> QED
    BY <1>10, <2>1
<1>12. h \in Range(HashesOf(b))
  <2>1. i + 1 \in DOMAIN HashesOf(b)
    BY <1>9 DEF HashesOf
  <2> QED
    BY <2>1 DEF Range
<1> HIDE DEF h
<1>13. p \in Span(h)
  <2>1. CASE i = q
    <3>1. h.size = TailSize(b)
      BY <1>1, <1>10, <2>1
    <3> QED
      BY <1>1, <1>3, <1>5, <1>8, <1>11, <2>1, <3>1 DEF Span
  <2>2. CASE i # q
    <3>1. h.size = ChunkSize
      BY <1>1, <1>4, <1>7, <1>10, <2>2
    <3> QED
      BY <1>1, <1>3, <1>5, <1>11, <3>1 DEF Span
  <2> QED
    BY <2>1, <2>2
<1> QED
  BY <1>12, <1>13

\* Two hashes of a block share no byte.
LEMMA SpansApart ==
    ASSUME NEW b \in JobBlock, NEW g \in Range(HashesOf(b)), NEW h \in Range(HashesOf(b)),
           NEW p \in Span(g), p \in Span(h)
    PROVE  g = h
<1>1. PICK j \in 1..ExpectedLength(b) : g = HashesOf(b)[j]
  BY HashesOfBlock DEF Range
<1>2. PICK k \in 1..ExpectedLength(b) : h = HashesOf(b)[k]
  BY HashesOfBlock DEF Range
<1>3. ASSUME NEW m \in 1..ExpectedLength(b), NEW n \in 1..ExpectedLength(b), m < n,
             p \in Span(HashesOf(b)[m]), p \in Span(HashesOf(b)[n])
      PROVE  FALSE
  <2> DEFINE x == HashesOf(b)[m]
             y == HashesOf(b)[n]
  <2>1. b.offset \in Nat /\ ChunkSize \in Nat \ {0} /\ ChunksCount(b) \in Nat
    BY BlockFacts, JobInputs
  <2>2. /\ x \in HashType /\ x.from = b.offset + (m - 1) * ChunkSize
        /\ (m - 1) * ChunkSize \in Nat
        /\ m <= ChunksCount(b) => x.size = ChunkSize
    BY HashOfBlock
  <2>3. /\ y \in HashType /\ y.from = b.offset + (n - 1) * ChunkSize
        /\ (n - 1) * ChunkSize \in Nat
        /\ ~(n <= ChunksCount(b)) => n = ChunksCount(b) + 1
    BY HashOfBlock
  <2>4. x.size = ChunkSize
    BY <1>3, <2>1, <2>2, <2>3
  <2>5. (m - 1) * ChunkSize + ChunkSize <= (n - 1) * ChunkSize
    <3>1. (m - 1) * ChunkSize + ChunkSize = m * ChunkSize
      BY <2>1
    <3>2. m <= n - 1
      BY <1>3
    <3>3. m * ChunkSize <= (n - 1) * ChunkSize
      BY <2>1, <3>2
    <3> QED
      BY <3>1, <3>3
  <2>6. p \in Span(x) /\ p \in Span(y)
    BY <1>3
  <2> DEFINE u == (m - 1) * ChunkSize
             v == (n - 1) * ChunkSize
  <2>7. /\ u \in Nat /\ v \in Nat /\ u + ChunkSize <= v
        /\ x.from = b.offset + u /\ y.from = b.offset + v
    BY <2>2, <2>3, <2>5
  <2> HIDE DEF u, v, x, y
  <2> QED
    BY <2>1, <2>4, <2>6, <2>7 DEF Span
<1>4. j = k
  <2>1. ~(j < k) /\ ~(k < j)
    BY <1>1, <1>2, <1>3
  <2> QED
    BY <2>1
<1> QED
  BY <1>1, <1>2, <1>4

\* Past the mapping there are blocks, the split of this file.
Mapped ==
    stage \in {"create", "join", "check", "write", "written"} =>
        storage = Split(file_size, Cores, ChunkSize, Word)

LEMMA NextMapped == IInv /\ Mapped /\ [Next]_vars => Mapped'
<1>1. SUFFICES ASSUME IInv, Mapped, [Next]_vars PROVE Mapped'
  OBVIOUS
<1>2. CASE MapFile
  BY <1>2 DEF MapFile, Mapped
<1>3. CASE ~MapFile
  <2>1. storage' = storage /\ file_size' = file_size
    BY <1>1, <1>3 DEF Next, MainStep, ThreadStep, MappingFails,
       CreateThread, CreateThreadFails, StartJoining, JoinAll, CheckOutput, DeleteFails,
       Write, OpenFails, WriteFails, Return, Exited, Resize, ResizeFails, HashPiece,
       ReadTraps, Store, vars
  <2>2. stage' \in {"create", "join", "check", "write", "written"} =>
            stage \in {"create", "join", "check", "write", "written"}
    BY <1>1, <1>3 DEF Next, MainStep, ThreadStep, MappingFails,
       CreateThread, CreateThreadFails, StartJoining, JoinAll, CheckOutput, DeleteFails,
       Write, OpenFails, WriteFails, Return, Exited, Resize, ResizeFails, HashPiece,
       ReadTraps, Store, vars
  <2> QED
    BY <1>1, <2>1, <2>2 DEF Mapped
<1> QED
  BY <1>2, <1>3

-----------------------------------------------------------------------------
(* The theorems *)

\* The locals of main and of its threads and the slots keep their types.
THEOREM TypeCorrect == Spec => []TypeOK
  BY SpecIInv, PTL DEF IInv

\* However the threads are scheduled and whatever fails, a run that succeeds
\* has written the hashes of all chunks of all blocks, in the order of the file.
THEOREM SuccessIsComplete == Spec => []CompleteOnSuccess
<1>1. IInv => CompleteOnSuccess
  BY DEF IInv, WriteIsLast, CompleteOnSuccess
<1> QED
  BY <1>1, SpecIInv, PTL

\* A run that succeeds has hashed nothing beyond the end of the file: if the
\* split does not fit, the last thread cannot finish.
THEOREM SuccessIsInFile == Spec => []SuccessStaysInFile
<1>1. IInv /\ Reached => SuccessStaysInFile
  <2> DEFINE n == Len(storage)
             last == storage[n]
  <2>1. SUFFICES ASSUME IInv, Reached, exit = "success",
                        ~\A i \in DOMAIN storage :
                             storage[i].offset + storage[i].size <= file_size
                 PROVE  FALSE
    BY DEF SuccessStaysInFile
  <2>2. /\ stage = "written" /\ storage = Split(file_size, Cores, ChunkSize, Word)
        /\ core_index = n
    <3>1. storage # <<>>
      BY <2>1
    <3> QED
      BY <2>1, <3>1 DEF IInv, WriteIsLast, Joined, Reached, BlocksAreSplit
  <2>3. /\ file_size \in Nat /\ Word \in Nat /\ Cores \in Nat \ {0} /\ ChunkSize \in Nat \ {0}
        /\ Readable \in Nat /\ file_size + Cores * (ChunkSize + 1) + Readable < Word
        /\ Cores * (ChunkSize + 1) \in Nat
    <3>1. file_size \in FileSizes
      BY <2>1 DEF IInv, TypeOK
    <3>2. Cores * (ChunkSize + 1) \in Nat
      BY JobInputs, NatTimes
    <3> QED
      BY <3>1, <3>2, JobInputs, WordIsFarAway
  <2>4. /\ last.offset + last.size = file_size + Word
        /\ last.size + file_size + Cores * (ChunkSize + 1) >= Word
    <3> DEFINE blocks == Split(file_size, Cores, ChunkSize, Word)
    <3>1. file_size + Cores * (ChunkSize + 1) < Word
      BY <2>3
    <3>2. \/ \A i \in DOMAIN blocks : blocks[i].offset + blocks[i].size <= file_size
          \/ /\ blocks[Len(blocks)].offset + blocks[Len(blocks)].size = file_size + Word
             /\ blocks[Len(blocks)].size + file_size + Cores * (ChunkSize + 1) >= Word
      BY <2>3, <3>1, SplitFitsOrWraps
    <3>3. storage = blocks
      BY <2>2
    <3> HIDE DEF blocks
    <3> QED
      BY <2>1, <3>2, <3>3
  <2>5. n \in 1..Cores
    <3>1. Word \in Nat \ {0}
      BY <2>3
    <3> QED
      BY <2>2, <2>3, <3>1, SplitIsTyped
  <2>6. /\ n - 1 \in Threads /\ (n - 1) + 1 = n /\ n - 1 \in 0..(core_index - 1)
        /\ last \in JobBlock
    BY <2>1, <2>2, <2>3, <2>5 DEF Threads, IInv, TypeOK
  <2>7. thread[n - 1] = "done"
    BY <2>1, <2>2, <2>6 DEF IInv, Joined
  <2>8. hash[n - 1] = HashesOf(last)
    BY <2>1, <2>6, <2>7 DEF IInv, SlotsComplete, Reached, ReadableOnly, BlockOf
  <2>9. \A k \in 1..Len(HashesOf(last)) :
            HashesOf(last)[k].from + HashesOf(last)[k].size <= Readable
    BY <2>1, <2>6, <2>8 DEF Reached, ReadableOnly
  <2>10. last.size \in Nat /\ last.offset \in Nat
    BY <2>6 DEF JobBlock
  <2> HIDE DEF last, n
  <2>11. last.size > 0
    BY <2>3, <2>4, <2>10
  <2>12. last.offset + last.size <= Readable
    BY <2>6, <2>9, <2>11, HashesReachEnd
  <2> QED
    BY <2>3, <2>4, <2>12
<1> QED
  BY <1>1, SpecIInv, SpecReached, PTL

\* Blocks that tile the file: a byte that is in one of them is of the hashes of no
\* other, and of exactly one hash.
LEMMA HashesTile ==
    ASSUME storage \in Seq(JobBlock), storage # <<>>, file_size \in Nat,
           TilesFile(file_size, storage),
           \A i \in 1..Len(storage) : storage[i].offset + storage[i].size <= file_size
    PROVE  LET all == UNION {Range(HashesOf(storage[i])) : i \in 1..Len(storage)}
               gaps == {storage[i].offset + storage[i].size : i \in 1..(Len(storage) - 1)}
           IN  /\ \A h \in all : h \in HashType
               /\ UNION {Span(h) : h \in all} = (0..(file_size - 1)) \ gaps
               /\ \A g, h \in all : \A p \in Span(g) : p \in Span(h) => g = h
<1> DEFINE n == Len(storage)
           all == UNION {Range(HashesOf(storage[i])) : i \in 1..n}
           gaps == {storage[i].offset + storage[i].size : i \in 1..(n - 1)}
           bytes(i) == storage[i].offset .. (storage[i].offset + storage[i].size - 1)
<1>1. n \in Nat /\ \A i \in 1..n : storage[i] \in JobBlock
  OBVIOUS
<1>2. \A i \in 1..n : storage[i].offset \in Nat /\ storage[i].size \in Nat
  BY <1>1 DEF JobBlock
<1>3. /\ \A i, j \in 1..n : i < j => storage[i].offset + storage[i].size < storage[j].offset
      /\ (0..(file_size - 1)) \ UNION {bytes(i) : i \in 1..n} = gaps
  BY DEF TilesFile
<1> HIDE DEF n, gaps
<1>4. \A i \in 1..n : bytes(i) \subseteq 0..(file_size - 1)
  <2>1. ASSUME NEW i \in 1..n PROVE bytes(i) \subseteq 0..(file_size - 1)
    <3>1. /\ storage[i].offset \in Nat /\ storage[i].size \in Nat
          /\ storage[i].offset + storage[i].size <= file_size
      BY <1>2 DEF n
    <3> QED
      BY <3>1
  <2> QED
    BY <2>1
<1>5. UNION {bytes(i) : i \in 1..n} = (0..(file_size - 1)) \ gaps
  <2> DEFINE covered == UNION {bytes(i) : i \in 1..n}
  <2>1. covered \subseteq 0..(file_size - 1)
    BY <1>4
  <2>2. (0..(file_size - 1)) \ covered = gaps
    BY <1>3
  <2> HIDE DEF covered
  <2>3. covered = (0..(file_size - 1)) \ gaps
    BY <2>1, <2>2
  <2> QED
    BY <2>3 DEF covered
<1>6. \A h : h \in all <=> \E i \in 1..n : h \in Range(HashesOf(storage[i]))
  OBVIOUS
<1> HIDE DEF all
<1>7. ASSUME NEW i \in 1..n, NEW h \in Range(HashesOf(storage[i]))
      PROVE  h \in HashType /\ Span(h) \subseteq bytes(i)
  BY <1>1, SpansInBlock
<1>8. \A h \in all : h \in HashType
  BY <1>6, <1>7
<1>9. UNION {Span(h) : h \in all} = UNION {bytes(i) : i \in 1..n}
  <2>1. ASSUME NEW h \in all, NEW p \in Span(h)
        PROVE  \E i \in 1..n : p \in bytes(i)
    <3> HIDE DEF bytes
    <3> QED
      BY <1>6, <1>7
  <2>2. ASSUME NEW i \in 1..n, NEW p \in bytes(i)
        PROVE  \E h \in all : p \in Span(h)
    <3>1. PICK h \in Range(HashesOf(storage[i])) : p \in Span(h)
      BY <1>1, SpansCoverBlock
    <3> HIDE DEF bytes
    <3> QED
      BY <1>6, <3>1
  <2> HIDE DEF bytes
  <2> QED
    BY <2>1, <2>2
<1>10. ASSUME NEW g \in all, NEW h \in all, NEW p \in Span(g), p \in Span(h)
       PROVE  g = h
  <2>1. PICK i \in 1..n : g \in Range(HashesOf(storage[i]))
    BY <1>6
  <2>2. PICK j \in 1..n : h \in Range(HashesOf(storage[j]))
    BY <1>6
  <2>3. p \in bytes(i) /\ p \in bytes(j)
    <3> HIDE DEF bytes
    <3> QED
      BY <1>7, <1>10, <2>1, <2>2
  <2>4. ASSUME NEW x \in 1..n, NEW y \in 1..n, x < y, p \in bytes(x), p \in bytes(y)
        PROVE  FALSE
    <3>1. storage[x].offset + storage[x].size < storage[y].offset
      BY <1>3, <2>4
    <3>2. /\ storage[x].offset \in Nat /\ storage[x].size \in Nat /\ storage[y].offset \in Nat
          /\ storage[y].size \in Nat
      BY <1>2
    <3>3. \A a, c, e, z \in Nat :
              a + c < e /\ p \in a..(a + c - 1) => p \notin e..(e + z - 1)
      OBVIOUS
    <3>4. p \notin bytes(y)
      BY <2>4, <3>1, <3>2, <3>3, Zenon
    <3> QED
      BY <2>4, <3>4
  <2>5. i = j
    <3>1. ~(i < j) /\ ~(j < i)
      <4> HIDE DEF bytes
      <4> QED
        BY <2>3, <2>4
    <3> QED
      BY <1>1, <3>1
  <2> QED
    BY <1>1, <1>10, <2>1, <2>2, <2>5, SpansApart
<1> QED
  BY <1>5, <1>8, <1>9, <1>10, Zenon DEF all, n, gaps

\* The bytes on which the signature of a run that succeeds depends: all of the
\* file but those between the blocks and those behind the last words.
THEOREM SignatureDependsOn == Spec => []InfluentialBytes
<1>1. IInv /\ Mapped /\ SuccessStaysInFile => InfluentialBytes
  <2> DEFINE gaps == {storage[i].offset + storage[i].size : i \in 1..(Len(storage) - 1)}
             lost == UNION {Unhashed(h) : h \in Range(Complete)}
             blocks == [i \in 1..Len(storage) |-> HashesOf(storage[i])]
             all == UNION {Range(HashesOf(storage[i])) : i \in 1..Len(storage)}
  <2>1. SUFFICES ASSUME IInv, Mapped, SuccessStaysInFile, exit = "success"
                 PROVE  UNION {Range(Crc32Input(h)) : h \in Range(output)}
                            = (0..(file_size - 1)) \ (gaps \cup lost)
    BY DEF InfluentialBytes
  <2>2. output = Complete /\ stage = "written"
        /\ storage = Split(file_size, Cores, ChunkSize, Word)
    BY <2>1 DEF IInv, WriteIsLast, Mapped
  <2>3. /\ file_size \in Nat /\ Word \in Nat \ {0} /\ Cores \in Nat \ {0}
        /\ ChunkSize \in Nat \ {0} /\ file_size + Cores * (ChunkSize + 1) < Word
    <3>1. file_size \in FileSizes
      BY <2>1 DEF IInv, TypeOK
    <3>2. Cores * (ChunkSize + 1) \in Nat
      BY JobInputs, NatTimes
    <3> QED
      BY <3>1, <3>2, JobInputs, WordIsFarAway
  <2>4. storage \in Seq(JobBlock) /\ Len(storage) \in 1..Cores
    BY <2>1, <2>2, <2>3, SplitIsTyped DEF IInv, TypeOK
  <2>5. \A i \in 1..Len(storage) : storage[i] \in JobBlock
                 /\ storage[i].offset + storage[i].size <= file_size
    BY <2>1, <2>4 DEF SuccessStaysInFile
  <2>6. storage[Len(storage)].size <= file_size
    <3>1. storage[Len(storage)].offset \in Nat /\ storage[Len(storage)].size \in Nat
          /\ storage[Len(storage)].offset + storage[Len(storage)].size <= file_size
      BY <2>4, <2>5 DEF JobBlock
    <3> QED
      BY <2>3, <3>1
  <2>7. TilesFile(file_size, storage)
    BY <2>2, <2>3, <2>6, SplitTiles
  <2>8. /\ \A h \in all : h \in HashType
        /\ UNION {Span(h) : h \in all} = (0..(file_size - 1)) \ gaps
        /\ \A g, h \in all : \A p \in Span(g) : p \in Span(h) => g = h
    <3>1. storage # <<>>
      BY <2>4
    <3> QED
      BY <2>3, <2>4, <2>5, <2>7, <3>1, HashesTile, Zenon
  <2>9. Range(Complete) = all
    <3>1. blocks \in Seq(Seq(HashType)) /\ Len(blocks) = Len(storage)
          /\ \A i \in 1..Len(storage) : blocks[i] = HashesOf(storage[i])
      BY <2>4, <2>5, HashesOfBlock
    <3>2. Range(FlattenSeq(blocks)) = UNION {Range(blocks[i]) : i \in 1..Len(blocks)}
      <4> HIDE DEF blocks
      <4> QED
        BY <3>1, FlattenRange
    <3>3. {Range(blocks[i]) : i \in 1..Len(blocks)}
              = {Range(HashesOf(storage[i])) : i \in 1..Len(storage)}
      <4> HIDE DEF blocks
      <4> QED
        BY <3>1
    <3>4. Complete = FlattenSeq(blocks)
      BY DEF Complete
    <3> QED
      BY <3>2, <3>3, <3>4
  <2> HIDE DEF gaps, all
  <2>10. \A h \in all : Range(Crc32Input(h)) = Span(h) \ Unhashed(h)
    BY <2>8, CrcInput
  <2>11. \A h \in all : Unhashed(h) \subseteq Span(h)
    BY DEF Unhashed, Span
  <2> DEFINE covered == UNION {Span(h) : h \in all}
             missed == UNION {Unhashed(h) : h \in all}
  <2>12. UNION {Range(Crc32Input(h)) : h \in all} = covered \ missed
    <3>1. ASSUME NEW h \in all, NEW p \in Range(Crc32Input(h))
          PROVE  p \in covered /\ p \notin missed
      <4>1. p \in Span(h) /\ p \notin Unhashed(h)
        BY <2>10, <3>1
      <4>2. ASSUME NEW g \in all, p \in Unhashed(g) PROVE FALSE
        <5>1. p \in Span(g)
          BY <2>11, <4>2
        <5>2. g = h
          BY <2>8, <4>1, <5>1
        <5> QED
          BY <4>1, <4>2, <5>2
      <4> QED
        BY <4>1, <4>2
    <3>2. ASSUME NEW p \in covered, p \notin missed
          PROVE  \E h \in all : p \in Range(Crc32Input(h))
      <4>1. PICK h \in all : p \in Span(h)
        OBVIOUS
      <4>2. p \notin Unhashed(h)
        BY <3>2
      <4> QED
        BY <2>10, <4>1, <4>2
    <3> HIDE DEF covered, missed
    <3> QED
      BY <3>1, <3>2
  <2>13. covered \ missed = (0..(file_size - 1)) \ (gaps \cup missed)
    <3> HIDE DEF covered, missed
    <3> QED
      BY <2>8 DEF covered
  <2>14. lost = missed
    BY <2>9
  <2> HIDE DEF lost, missed, covered
  <2>15. UNION {Range(Crc32Input(h)) : h \in Range(output)} = covered \ missed
    BY <2>2, <2>9, <2>12
  <2> QED
    BY <2>13, <2>14, <2>15
<1>2. Init => Mapped
  BY DEF Init, Mapped
<1> QED
  BY <1>1, <1>2, NextMapped, SpecIInv, SuccessIsInFile, PTL DEF Spec

\* A thread's next piece ends within its block, and within the file unless the
\* size of the last block has wrapped.
THEOREM ThreadsStayInBlocks == Spec => []ReadsOwnBlock
<1>1. IInv /\ Reached => ReadsOwnBlock
  <2>1. SUFFICES ASSUME IInv, Reached, NEW t \in Threads, HasMore(t)
                 PROVE  LET end == current_chunk[t] + PieceSize(t)
                        IN  /\ end <= BlockOf(t).offset + BlockOf(t).size
                            /\ TailFits => end <= file_size
    BY DEF ReadsOwnBlock
  <2> DEFINE b == BlockOf(t)
             n == Len(hash[t])
             q == ChunksCount(b)
             r == TailSize(b)
             end == current_chunk[t] + PieceSize(t)
  <2>2. /\ thread[t] = "hashing" /\ n < ExpectedLength(b)
        /\ b \in JobBlock /\ t + 1 \in 1..Len(storage)
    BY <2>1, BlockOfCreated DEF HasMore, IInv
  <2>3. /\ b.offset \in Nat /\ b.size \in Nat /\ q \in Nat /\ r \in Nat
        /\ ChunkSize \in Nat \ {0} /\ b.size = (ChunkSize * q) + r
        /\ ExpectedLength(b) = IF r > 0 THEN q + 1 ELSE q
    BY <2>2, BlockFacts, BlockSize, JobInputs DEF JobBlock
  <2>4. n \in Nat /\ (n <= q => current_chunk[t] = b.offset + n * ChunkSize)
    BY <2>1, <2>2, LenProperties DEF IInv, TypeOK, HashedSoFar
  <2>5. PieceSize(t) = IF n < q THEN ChunkSize ELSE r
    BY DEF PieceSize
  <2>6. end <= b.offset + b.size
    <3> HIDE DEF b, n, q, r
    <3>1. CASE n < q
      <4>1. (n + 1) * ChunkSize <= q * ChunkSize
        BY <2>3, <2>4, <3>1
      <4>2. n * ChunkSize + ChunkSize = (n + 1) * ChunkSize /\ n * ChunkSize \in Nat
            /\ q * ChunkSize = ChunkSize * q /\ q * ChunkSize \in Nat
        BY <2>3, <2>4, NatTimes
      <4> QED
        BY <2>3, <2>4, <2>5, <3>1, <4>1, <4>2
    <3>2. CASE ~(n < q)
      <4>1. n = q
        BY <2>2, <2>3, <2>4, <3>2
      <4>2. n * ChunkSize = ChunkSize * q /\ n * ChunkSize \in Nat
        BY <2>3, <2>4, <4>1, NatTimes
      <4> QED
        BY <2>3, <2>4, <2>5, <4>1, <4>2
    <3> QED
      BY <3>1, <3>2
  <2>7. ASSUME TailFits PROVE end <= file_size
    <3>1. b.offset + b.size <= file_size
      BY <2>1, <2>2, <2>7, FittingTail DEF BlockOf
    <3>2. current_chunk[t] \in Nat /\ PieceSize(t) \in Nat
      BY <2>1, <2>3, <2>5 DEF IInv, TypeOK
    <3>3. file_size \in Nat
      BY <2>1, JobInputs DEF IInv, TypeOK
    <3> HIDE DEF b
    <3> QED
      BY <2>3, <2>6, <3>1, <3>2, <3>3
  <2> QED
    BY <2>6, <2>7
<1> QED
  BY <1>1, SpecIInv, SpecReached, PTL

\* The output file changes only when all blocks are hashed and stored.
THEOREM OldOutputIsSafe == Spec => OldOutputSurvivesHashing
<1> DEFINE AllStored ==
        \A i \in DOMAIN storage :
            thread[i - 1] = "done" /\ signature[i - 1] = HashesOf(storage[i])
<1>1. IInv /\ [Next]_vars => [file' # file => AllStored]_vars
  <2>1. SUFFICES ASSUME IInv, [Next]_vars, file' # file,
                        NEW i \in DOMAIN storage
                 PROVE  thread[i - 1] = "done" /\ signature[i - 1] = HashesOf(storage[i])
    OBVIOUS
  <2>2. stage \in {"check", "write"}
    BY <2>1 DEF Next, MainStep, ThreadStep, MappingFails, MapFile, CreateThread,
       CreateThreadFails, StartJoining, JoinAll, CheckOutput, DeleteFails, Write, OpenFails,
       WriteFails, Return, Exited, Resize, ResizeFails, HashPiece, ReadTraps, Store, vars,
       fileVars
  <2>3. core_index = Len(storage) /\ \A t \in 0..(core_index - 1) : thread[t] = "done"
    BY <2>1, <2>2 DEF IInv, Joined
  <2>4. Len(storage) \in Nat /\ Len(storage) <= Cores /\ DOMAIN storage = 1..Len(storage)
    BY <2>1, LenProperties DEF IInv, TypeOK
  <2>5. i - 1 \in Threads /\ i - 1 \in 0..(core_index - 1) /\ (i - 1) + 1 = i
    BY <2>1, <2>3, <2>4, JobInputs DEF Threads
  <2>6. thread[i - 1] = "done"
    BY <2>3, <2>5
  <2>7. signature[i - 1] = HashesOf(BlockOf(i - 1))
    BY <2>1, <2>5, <2>6 DEF IInv, SlotsComplete
  <2> QED
    BY <2>5, <2>6, <2>7 DEF BlockOf
<1> QED
  BY <1>1, SpecIInv, PTL DEF Spec, OldOutputSurvivesHashing

\* Threads, slots and a join keep the promise of SignatureJob.
THEOREM ThreadsDoTheJob == Spec => JobRefined
<1>1. Init => Job!Init
  BY DEF Init, Job!Init, Contents
<1>2. IInv /\ [Next]_vars => [Job!Next]_Job!vars
  <2>1. SUFFICES ASSUME IInv, [Next]_vars PROVE [Job!Next]_Job!vars
    OBVIOUS
  <2>2. CASE MainStep /\ (Write \/ WriteFails)
    <3>1. exit = "none" /\ exit' = exit /\ file # "new" /\ file' = "new"
      BY <2>1, <2>2 DEF MainStep, Write, WriteFails, IInv, WriteIsLast
    <3>2. Contents = "empty" /\ Contents' \in {"partial", "complete"}
      BY <3>1 DEF Contents
    <3> QED
      BY <3>1, <3>2 DEF Job!Next, Job!Write
  <2>3. CASE MainStep /\ Return
    <3>1. exit = "none" /\ UNCHANGED <<stage, storage, file, output>>
      BY <2>3 DEF MainStep, Return, fileVars
    <3>2. Contents' = Contents
      BY <3>1, CompleteKept DEF Contents
    <3>3. CASE exit' = "success"
      <4>1. Contents = "complete"
        BY <2>1, <2>3, <3>3 DEF Return, IInv, WriteIsLast, Contents
      <4> QED
        BY <3>1, <3>2, <3>3, <4>1 DEF Job!Next, Job!Succeed
    <3>4. CASE exit' = "failure"
      BY <3>1, <3>2, <3>4 DEF Job!Next, Job!Fail
    <3> QED
      BY <2>3, <3>3, <3>4 DEF Return
  <2>4. CASE \/ MainStep /\ CreateThreadFails
             \/ \E t \in Threads : ThreadStep(t) /\ (ResizeFails(t) \/ ReadTraps(t))
    <3>1. exit = "none" /\ exit' = "crashed" /\ UNCHANGED <<storage, file, output>>
      BY <2>4 DEF MainStep, ThreadStep, CreateThreadFails, ResizeFails, ReadTraps, fileVars
    <3>2. Contents' = Contents
      BY <3>1, CompleteKept DEF Contents
    <3> QED
      BY <3>1, <3>2 DEF Job!Next, Job!Fail
  <2>5. CASE MapFile \/ CheckOutput
    <3>1. exit' = exit /\ file # "new" /\ file' # "new"
      BY <2>1, <2>5 DEF MapFile, CheckOutput, IInv, WriteIsLast, fileVars
    <3> QED
      BY <3>1 DEF Contents, Job!vars
  <2>6. CASE UNCHANGED <<storage, file, output, exit>>
    <3>1. Contents' = Contents
      BY <2>6, CompleteKept DEF Contents
    <3> QED
      BY <2>6, <3>1 DEF Job!vars
  <2> QED
    BY <2>1, <2>2, <2>3, <2>4, <2>5, <2>6
       DEF Next, MainStep, ThreadStep, MappingFails, CreateThread, StartJoining, JoinAll,
           DeleteFails, OpenFails, Exited, Resize, HashPiece, Store, vars, fileVars
<1> QED
  BY <1>1, <1>2, SpecIInv, PTL DEF Spec, JobRefined, Job!Spec

-----------------------------------------------------------------------------
(* The safe half of Terminates: main and the threads have only so many steps *)

\* How far main is from its end, at most, if no thread ends the process.
MainLeft ==
    CASE exit # "none" -> 0
      [] exit = "none" /\ stage = "map" -> Cores + 6
      [] exit = "none" /\ stage = "create" -> (Cores - core_index) + 5
      [] exit = "none" /\ stage = "join" -> 4
      [] exit = "none" /\ stage = "check" -> 3
      [] exit = "none" /\ stage = "write" -> 2
      [] OTHER -> 1

\* How far a thread that was created is from its end, at most.
ThreadLeft(t) ==
    CASE thread[t] = "started" -> ExpectedLength(BlockOf(t)) + 2
      [] thread[t] = "hashing" -> ExpectedLength(BlockOf(t)) - Len(hash[t]) + 1
      [] OTHER -> 0

\* A step takes main nearer to its end, or it leaves main where it is and takes
\* one thread nearer to its end and no other away from it.  The distances are
\* natural numbers, so nothing goes on for ever: not the loop over the chunks
\* of a block whose size has wrapped either.
THEOREM StepsAreFinite ==
    Spec => [][/\ MainLeft \in 0..(Cores + 6)
               /\ \A t \in Threads : ThreadLeft(t) \in Nat
               /\ \/ MainLeft' \in 0..(MainLeft - 1)
                  \/ /\ MainLeft' = MainLeft
                     /\ \E t \in Threads :
                            /\ ThreadLeft(t)' \in 0..(ThreadLeft(t) - 1)
                            /\ \A u \in Threads \ {t} : ThreadLeft(u)' = ThreadLeft(u)]_vars
<1> DEFINE Nearer ==
        \/ MainLeft' \in 0..(MainLeft - 1)
        \/ /\ MainLeft' = MainLeft
           /\ \E t \in Threads :
                  /\ ThreadLeft(t)' \in 0..(ThreadLeft(t) - 1)
                  /\ \A u \in Threads \ {t} : ThreadLeft(u)' = ThreadLeft(u)
<1>1. ASSUME IInv
      PROVE  MainLeft \in 0..(Cores + 6)
  <2>1. Cores \in Nat /\ core_index \in Nat /\ core_index <= Cores
    BY <1>1, LenProperties, JobInputs DEF IInv, TypeOK
  <2> QED
    BY <2>1 DEF MainLeft
<1>2. ASSUME IInv, NEW t \in Threads
      PROVE  ThreadLeft(t) \in Nat
  <2>1. CASE thread[t] \in {"started", "hashing"}
    <3>1. ExpectedLength(BlockOf(t)) \in Nat
      BY <1>2, <2>1, BlockOfCreated, BlockFacts DEF IInv
    <3>2. Len(hash[t]) \in Nat
      BY <1>2, LenProperties DEF IInv, TypeOK
    <3>3. thread[t] = "hashing" => Len(hash[t]) <= ExpectedLength(BlockOf(t))
      BY <1>2 DEF IInv, HashedSoFar
    <3> QED
      BY <2>1, <3>1, <3>2, <3>3 DEF ThreadLeft
  <2>2. CASE thread[t] \notin {"started", "hashing"}
    BY <2>2 DEF ThreadLeft
  <2> QED
    BY <2>1, <2>2
<1>3. ASSUME IInv, Next, ~UNCHANGED vars
      PROVE  Nearer
  <2>1. exit = "none"
    BY <1>3 DEF Next, MainStep, ThreadStep, Exited
  <2>2. Cores \in Nat /\ core_index \in Nat /\ core_index <= Cores
        /\ Len(storage) \in Nat /\ Len(storage) <= Cores
    BY <1>3, LenProperties, JobInputs DEF IInv, TypeOK
  <2>3. CASE MainStep
    <3>1. CASE MappingFails \/ StartJoining \/ JoinAll \/ CheckOutput \/ DeleteFails
               \/ Write \/ OpenFails \/ WriteFails
      BY <2>1, <2>2, <3>1 DEF MainLeft, MappingFails, StartJoining, JoinAll, CheckOutput,
         DeleteFails, Write, OpenFails, WriteFails
    <3>2. CASE MapFile
      BY <2>1, <2>2, <3>2 DEF MainLeft, MapFile
    <3>3. CASE CreateThread
      BY <2>1, <2>2, <3>3 DEF MainLeft, CreateThread
    <3>4. CASE CreateThreadFails
      BY <2>1, <2>2, <3>4 DEF MainLeft, CreateThreadFails
    <3>5. CASE Return
      BY <2>1, <3>5 DEF MainLeft, Return
    <3> QED
      BY <2>3, <3>1, <3>2, <3>3, <3>4, <3>5 DEF MainStep
  <2>4. ASSUME NEW t \in Threads, ResizeFails(t) \/ ReadTraps(t)
        PROVE  Nearer
    <3>1. MainLeft \in 1..(Cores + 6)
      BY <1>3, <2>1, <2>2, <1>1 DEF MainLeft
    <3>2. MainLeft' = 0
      BY <2>4 DEF MainLeft, ResizeFails, ReadTraps
    <3> QED
      BY <2>2, <3>1, <3>2
  <2>5. ASSUME NEW t \in Threads, Resize(t) \/ HashPiece(t) \/ Store(t)
        PROVE  Nearer
    <3>1. /\ UNCHANGED <<stage, storage, core_index, exit>>
          /\ BlockOf(t) \in JobBlock
          /\ \A u \in Threads : u # t => thread'[u] = thread[u] /\ hash'[u] = hash[u]
      BY <1>3, <2>5, ThreadKeeps
    <3>2. MainLeft' = MainLeft
      BY <3>1 DEF MainLeft
    <3>3. \A u \in Threads \ {t} : ThreadLeft(u)' = ThreadLeft(u)
      BY <3>1 DEF ThreadLeft, BlockOf
    <3>4. ExpectedLength(BlockOf(t)) \in Nat /\ Len(hash[t]) \in Nat
          /\ BlockOf(t)' = BlockOf(t)
      BY <1>3, <3>1, BlockFacts, LenProperties DEF IInv, TypeOK, BlockOf
    <3>5. ExpectedLength(BlockOf(t))' = ExpectedLength(BlockOf(t))
      BY <3>4 DEF ExpectedLength, ChunksCount, TailSize
    <3>6. CASE Resize(t)
      <4>1. thread[t] = "started" /\ thread'[t] = "hashing" /\ hash'[t] = <<>>
        BY <1>3, <3>6 DEF Resize, IInv, TypeOK, NothingYet
      <4>2. ThreadLeft(t) = ExpectedLength(BlockOf(t)) + 2
        BY <4>1 DEF ThreadLeft
      <4>3. ThreadLeft(t)' = ExpectedLength(BlockOf(t)) + 1
        BY <3>4, <3>5, <4>1 DEF ThreadLeft
      <4>4. ThreadLeft(t)' \in 0..(ThreadLeft(t) - 1)
        BY <3>4, <4>2, <4>3
      <4> QED
        BY <3>2, <3>3, <4>4
    <3>7. CASE HashPiece(t)
      <4>1. /\ thread[t] = "hashing" /\ thread'[t] = "hashing"
            /\ Len(hash[t]) < ExpectedLength(BlockOf(t))
            /\ Len(hash'[t]) = Len(hash[t]) + 1
        BY <1>3, <3>7 DEF HashPiece, HasMore, IInv, TypeOK
      <4>2. ThreadLeft(t) = ExpectedLength(BlockOf(t)) - Len(hash[t]) + 1
        BY <4>1 DEF ThreadLeft
      <4>3. ThreadLeft(t)' = ExpectedLength(BlockOf(t)) - Len(hash'[t]) + 1
        BY <3>5, <4>1 DEF ThreadLeft
      <4>4. ThreadLeft(t)' \in 0..(ThreadLeft(t) - 1)
        BY <3>4, <4>1, <4>2, <4>3
      <4> QED
        BY <3>2, <3>3, <4>4
    <3>8. CASE Store(t)
      <4>1. thread[t] = "hashing" /\ thread'[t] = "done"
        BY <1>3, <3>8 DEF Store, IInv, TypeOK
      <4>2. ThreadLeft(t) = ExpectedLength(BlockOf(t)) - Len(hash[t]) + 1
        BY <4>1 DEF ThreadLeft
      <4>3. ThreadLeft(t)' = 0
        BY <4>1 DEF ThreadLeft
      <4>4. Len(hash[t]) <= ExpectedLength(BlockOf(t))
        BY <1>3, <4>1 DEF IInv, HashedSoFar
      <4>5. ThreadLeft(t)' \in 0..(ThreadLeft(t) - 1)
        BY <3>4, <4>2, <4>3, <4>4
      <4> QED
        BY <3>2, <3>3, <4>5
    <3> QED
      BY <2>5, <3>6, <3>7, <3>8
  <2> HIDE DEF Nearer
  <2> QED
    BY <1>3, <2>3, <2>4, <2>5 DEF Next, ThreadStep, Exited
<1>4. IInv /\ [Next]_vars
        => [/\ MainLeft \in 0..(Cores + 6)
            /\ \A t \in Threads : ThreadLeft(t) \in Nat
            /\ Nearer]_vars
  BY <1>1, <1>2, <1>3
<1> QED
  BY <1>4, SpecIInv, PTL DEF Spec

=============================================================================
