----------------------------- MODULE CompressSIMD ------------------------------
(***************************************************************************)
(* The batching compressor (libfsst.cpp, compressSIMD).  Strings are cut   *)
(* into chunks; chunks become jobs until the batch, the staging area or    *)
(* the budget of output bytes is exhausted; then the jobs are sorted, the  *)
(* kernel compresses most of them in any order, scalar code finishes the   *)
(* rest, and the results are copied to the output in the order of the      *)
(* jobs.  A string may be split over batches.                              *)
(***************************************************************************)
EXTENDS SIMDKernel

CONSTANTS
  ChunkMax,    \* the longest chunk, 511
  Slack,       \* the room behind a job and of the last string, 7
  MaxJobs,     \* the jobs of a batch, 512
  StageMax,    \* the bytes of the staging area for codes, 2^19
  MinWork,     \* the non-empty jobs that make the kernel worth a call, 32
  Tables,      \* the finished symbol tables to compress with
  Inputs(_),   \* the batches of strings that may be compressed with a table
  Sizes,       \* the sizes of the output buffer
  SizeRange,   \* size_t is the numbers below this, 2^64
  Garbage      \* what the staging areas may contain before the call

ASSUME SIMDAssumption ==
  /\ ChunkMax \in Nat \ {0} /\ MaxJobs \in Nat \ {0}
  /\ Slack \in Nat /\ StageMax \in Nat /\ MinWork \in Nat
  /\ MinWork >= Lanes                     \* the assertion of the kernel
  /\ StageMax >= 2 * ChunkMax + Slack
  /\ ScatterWidth <= Slack + 2           \* a lane writes the last code of a job
  /\ SizeRange \in Nat /\ Sizes \subseteq 0 .. SizeRange - 1
  /\ Garbage \subseteq Byte
  /\ \A t \in Tables : Inputs(t) \subseteq Seq(Seq(Byte))

NotYet == -1   \* the null pointer in strOut

VARIABLES
  table, line, size,         \* the arguments of the call
  pc,         \* "line": between two strings, "job", "fire", "kernel", "finish", "returned"
  curLine, curOff,           \* the string, from 1, and how much of it is in jobs
  input, jobLine,            \* the jobs of the batch and their strings
  inOff, outOff, budget,
  symbolBase, codeBase,      \* the staging areas
  kernel,                    \* the state of the kernel, <<>> before its call
  output,                    \* the jobs as the kernel left them
  dst, strOut, lenOut,       \* the output, and where in it each string is
  split                      \* a batch ended inside a string (history)

arguments == <<table, line, size>>
batch     == <<curLine, curOff, input, jobLine, inOff, outOff, symbolBase>>
result    == <<dst, strOut, lenOut, split>>
vars == <<arguments, pc, batch, budget, codeBase, kernel, output, result>>

(* Room for every job and its terminator, and for a word behind the last.  *)
SymbolIndex == 0 .. MaxJobs * (ChunkMax + 1) + MaxLength - 1

Init ==
  /\ table \in Tables
  /\ line \in Inputs(table)
  /\ size \in Sizes
  /\ pc = "line"
  /\ curLine = 1 /\ curOff = 0
  /\ input = <<>> /\ jobLine = <<>>
  /\ inOff = 0 /\ outOff = 0 /\ budget = size
  /\ \E g \in Garbage : symbolBase = [i \in SymbolIndex |-> g]
  /\ codeBase = [i \in 0 .. StageMax - 1 |-> 0]
  /\ kernel = <<>>
  /\ output = <<>>
  /\ dst = <<>> /\ strOut = <<>> /\ lenOut = <<>>
  /\ split = FALSE

--------------------------------------------------------------------------------
(* There is a string l and the budget covers its worst case.  Mutant: the  *)
(* slack is asked for once per chunk.                                      *)
Fits_chunks(l) ==
  l <= Len(line) /\ 2 * Len(line[l]) + Slack * (Len(line[l]) \div ChunkMax + 1) <= budget
Fits(l) == l <= Len(line) /\ 2 * Len(line[l]) + Slack <= budget

(* Mutant of Charged: a string accepted is not charged to the budget.      *)
Charged_free(l) == budget
Charged(l)      == budget - 2 * Len(line[l])

StartLine ==
  /\ pc = "line"
  /\ Fits(curLine)
  /\ budget' = Charged(curLine)
  /\ strOut' = Append(strOut, NotYet)
  /\ lenOut' = Append(lenOut, 0)
  /\ curOff' = 0
  /\ pc' = "job"
  /\ UNCHANGED <<arguments, curLine, input, jobLine, inOff, outOff, symbolBase,
                 codeBase, kernel, output, dst, split>>

Return ==
  /\ pc = "line"
  /\ ~ Fits(curLine)
  /\ pc' = "returned"
  /\ UNCHANGED <<arguments, batch, budget, codeBase, kernel, output, result>>

Chunk == Min({ChunkMax, Len(line[curLine]) - curOff})

(* The room a chunk may take in the staging area: every byte an escape,    *)
(* and what a lane writes in excess.  Mutant: without the excess.          *)
Room_tight(n) == 2 * n
Room(n)       == 2 * n + Slack

(* The chunk and the terminator are copied; an empty chunk takes no room.  *)
Staged(n) ==
  [i \in SymbolIndex |->
     IF n > 0 /\ i \in inOff .. inOff + n - 1 THEN line[curLine][curOff + i - inOff + 1]
     ELSE IF n > 0 /\ i = inOff + n THEN table.terminator
     ELSE symbolBase[i]]

(* The chunk is the last of its string.  Mutant: one chunk too late.       *)
LastChunk_late == curOff + Chunk > Len(line[curLine])
LastChunk      == curOff + Chunk >= Len(line[curLine])

(* A job is registered.  If the string is finished with it, and the batch  *)
(* is not full, the next string is looked at.                              *)
AddJob ==
  /\ pc = "job"
  /\ outOff + Room(Chunk) <= StageMax
  /\ LET job == [cur |-> inOff, end |-> inOff + Chunk, pos |-> Len(input), out |-> outOff]
         full == Len(input) + 1 = MaxJobs
         next == curLine + 1
     IN  /\ input' = Append(input, job)
         /\ jobLine' = Append(jobLine, curLine)
         /\ outOff' = outOff + Room(Chunk)
         /\ symbolBase' = Staged(Chunk)
         /\ inOff' = IF Chunk = 0 THEN inOff ELSE inOff + Chunk + 1
         /\ curOff' = curOff + Chunk
         /\ curLine' = IF LastChunk /\ ~ full THEN next ELSE curLine
         /\ pc' = IF full THEN "fire"
                  ELSE IF ~ LastChunk THEN "job"
                  ELSE IF Fits(next) THEN "line"
                  ELSE "fire"
  /\ UNCHANGED <<arguments, budget, codeBase, kernel, output, result>>

(* The staging area is full: the chunk waits for the next batch.           *)
StageFull ==
  /\ pc = "job"
  /\ outOff + Room(Chunk) > StageMax
  /\ pc' = "fire"
  /\ UNCHANGED <<arguments, batch, budget, codeBase, kernel, output, result>>

--------------------------------------------------------------------------------
Size(job) == job.end - job.cur
NonEmpty  == Cardinality({i \in DOMAIN input : Size(input[i]) > 0})

(* The place of a job in the order of the radix sort: the longest first,   *)
(* jobs of one length in their order.                                      *)
Before(j, k) == Size(j) > Size(k) \/ (Size(j) = Size(k) /\ j.pos < k.pos)

Ordered ==
  [i \in DOMAIN input |->
     CHOOSE j \in Range(input) : Cardinality({k \in Range(input) : Before(k, j)}) = i - 1]

FireKernel ==
  /\ pc = "fire"
  /\ NonEmpty >= MinWork
  /\ kernel' = KernelStart(SubSeq(Ordered, 1, NonEmpty), codeBase)
  /\ pc' = "kernel"
  /\ UNCHANGED <<arguments, batch, budget, codeBase, output, result>>

FireScalar ==
  /\ pc = "fire"
  /\ NonEmpty < MinWork
  /\ output' = input
  /\ pc' = "finish"
  /\ UNCHANGED <<arguments, batch, budget, codeBase, kernel, result>>

Iterate ==
  /\ pc = "kernel"
  /\ KernelGoesOn(kernel)
  /\ kernel' = KernelStep(kernel, table, symbolBase)
  /\ UNCHANGED <<arguments, pc, batch, budget, codeBase, output, result>>

(* The kernel returns; the jobs it did not load are copied behind.         *)
KernelReturn ==
  /\ pc = "kernel"
  /\ ~ KernelGoesOn(kernel)
  /\ output' = KernelOutput(kernel) \o SubSeq(Ordered, kernel.next + 1, Len(input))
  /\ codeBase' = kernel.mem
  /\ kernel' = <<>>
  /\ pc' = "finish"
  /\ UNCHANGED <<arguments, batch, budget, result>>

Unfinished == {i \in DOMAIN output : output[i].cur < output[i].end}

(* Scalar code finishes the jobs one by one; it writes the code and the    *)
(* byte behind it.                                                         *)
FinishCode ==
  /\ pc = "finish"
  /\ Unfinished # {}
  /\ LET i == Min(Unfinished)
         found == FinalLookup(table, WordAt(symbolBase, output[i].cur))
     IN  /\ output' = [output EXCEPT ![i] = Advanced(output[i], found)]
         /\ codeBase' = [codeBase EXCEPT ![output[i].out] = CodeByte(found.code),
                                         ![output[i].out + 1] = WordAt(symbolBase, output[i].cur)[1]]
  /\ UNCHANGED <<arguments, pc, batch, budget, kernel, result>>

(* The codes of the i-th job of the batch, found by pos; mutant: in the    *)
(* order in which the jobs were finished.                                  *)
Codes_finished(i) ==
  [n \in 1 .. output[i].out - input[output[i].pos + 1].out |->
     codeBase[input[output[i].pos + 1].out + n - 1]]

Codes(i) ==
  LET job == CHOOSE j \in Range(output) : j.pos = i - 1
  IN  [n \in 1 .. job.out - input[i].out |-> codeBase[input[i].out + n - 1]]

BytesOf(jobs) == SumFunctionOnSet([i \in jobs |-> Len(Codes(i))], jobs)

(* The codes are copied out, a string that was cut into jobs becomes one   *)
(* again, and the next batch starts with all the room that is left, the    *)
(* rest of a string whose jobs are not all done included.                  *)
CopyOut ==
  /\ pc = "finish"
  /\ Unfinished = {}
  /\ LET jobs == DOMAIN input
         of(l) == {i \in jobs : jobLine[i] = l}
     IN  /\ dst' = dst \o FlattenSeq([i \in jobs |-> Codes(i)])
         /\ strOut' = [l \in DOMAIN strOut |->
                         IF strOut[l] = NotYet /\ of(l) # {}
                           THEN Len(dst) + BytesOf(1 .. Min(of(l)) - 1)
                           ELSE strOut[l]]
         /\ lenOut' = [l \in DOMAIN lenOut |-> lenOut[l] + BytesOf(of(l))]
         /\ budget' = (size - Len(dst')) % SizeRange
  /\ input' = <<>> /\ jobLine' = <<>> /\ output' = <<>>
  /\ inOff' = 0 /\ outOff' = 0
  /\ pc' = IF Len(strOut) < curLine THEN "line" ELSE "job"
  /\ split' = (split \/ (Len(strOut) = curLine /\ curOff < Len(line[curLine])))
  /\ UNCHANGED <<arguments, curLine, curOff, symbolBase, codeBase, kernel>>

Next ==
  \/ StartLine \/ Return \/ AddJob \/ StageFull
  \/ FireKernel \/ FireScalar \/ Iterate \/ KernelReturn
  \/ FinishCode \/ CopyOut

(* A call runs in one thread, to its end.                                  *)
Spec == Init /\ [][Next]_vars /\ WF_vars(Next)
--------------------------------------------------------------------------------
(* The greedy codes of a chunk and of a string, which the scalar           *)
(* compressor emits as well (the chunks "in order to be byte-compatible",  *)
(* libfsst.cpp:430).                                                       *)
GreedyCodes(chunk) ==
  LET from[p \in 1 .. Len(chunk) + 1] ==
        LET rest == SubSeq(chunk, p, Len(chunk))
            matching == {i \in DOMAIN table.symbols : IsPrefix(table.symbols[i], rest)}
            longest == CHOOSE i \in matching : \A j \in matching :
                         Len(table.symbols[j]) <= Len(table.symbols[i])
        IN  IF p > Len(chunk) THEN <<>>
            ELSE IF matching = {} THEN <<ESC, chunk[p]>> \o from[p + 1]
            ELSE <<longest - 1>> \o from[p + Len(table.symbols[longest])]
  IN  from[1]

LineCodes(s) ==
  FlattenSeq([c \in 1 .. (Len(s) + ChunkMax - 1) \div ChunkMax |->
                GreedyCodes(SubSeq(s, (c - 1) * ChunkMax + 1, Min({c * ChunkMax, Len(s)})))])

Delivered(l) == SubSeq(dst, strOut[l] + 1, strOut[l] + lenOut[l])

(* Whatever the batches, the sorting, the lanes and the order in which     *)
(* jobs are finished: what was copied out of a string are its greedy codes *)
(* from the start, and all of them when the call returns; the strings lie  *)
(* one after the other (fsst.h:137).                                       *)
ByteCompatible ==
  /\ \A l \in DOMAIN strOut : strOut[l] # NotYet =>
       /\ IsPrefix(Delivered(l), LineCodes(line[l]))
       /\ strOut[l] = SumFunctionOnSet(lenOut, 1 .. l - 1)
  /\ pc = "returned" => \A l \in 1 .. curLine - 1 : Delivered(l) = LineCodes(line[l])

Active ==
  IF kernel = <<>> THEN Range(output)
  ELSE {kernel.lane[l] : l \in {l \in Lane : kernel.lane[l] # Idle}} \cup Range(kernel.done)

(* A lane never passes the end of its chunk -- its loop tests for equality *)
(* -- and never writes beyond the room of its job; the batch stays within  *)
(* the staging areas.                                                      *)
StagingInside ==
  /\ inOff <= MaxJobs * (ChunkMax + 1)
  /\ \A job \in Active :
       LET start == input[job.pos + 1]
       IN  /\ job.cur \in start.cur .. start.end
           /\ job.out - start.out <= 2 * (job.cur - start.cur)
           /\ job.cur < job.end => job.out + ScatterWidth <= start.out + Room(Size(start))
           /\ start.out + Room(Size(start)) <= StageMax

(* "At least conservative space (7+2*inputlength)" (fsst.h:129): with that *)
(* much for all strings, all are compressed, within the buffer.            *)
ConservativeSpace ==
  size >= Slack + 2 * SumFunctionOnSet([l \in DOMAIN line |-> Len(line[l])], DOMAIN line) =>
    /\ Len(dst) <= size
    /\ pc = "returned" => curLine = Len(line) + 1

(* With less, the output still stays in the buffer as long as no batch     *)
(* ended inside a string.                                                  *)
InBoundsUnlessSplit == ~ split => Len(dst) <= size

(* "Will all point into [output,output+size)" (fsst.h:139), of every call. *)
InBounds == Len(dst) <= size

(* Every call returns.                                                     *)
Returns == <>(pc = "returned")
================================================================================
