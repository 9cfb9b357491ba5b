------------------------------- MODULE Pipeline --------------------------------
(***************************************************************************)
(* The command line tool (fsst.cpp): a reader thread, the main thread and  *)
(* a writer thread around two input and two output buffers.  A buffer is   *)
(* handed over with binary semaphores: srcDoneCPU and dstDoneIO give it to *)
(* the side that fills it, srcDoneIO and dstDoneCPU to the side that       *)
(* empties it.  The semaphores are atomic here (BinarySemaphore shows that *)
(* they may be); everything else a thread does with a shared variable is a *)
(* step of its own.                                                        *)
(*                                                                         *)
(* A file is a sequence of items.  A compressed file is a sequence of      *)
(* blocks: the size, one item where the code has three bytes, then the     *)
(* symbol table and the codes.                                             *)
(***************************************************************************)
EXTENDS Integers, Sequences, SequencesExt

CONSTANTS
  BlockSize,   \* the block size of compression, in items
  MaxFile      \* the length of the longest file that is processed

ASSUME PipelineAssumption == BlockSize \in Nat \ {0} /\ MaxFile \in Nat

Buffer == {0, 1}
Other(b) == 1 - b

(***************************************************************************)
(* The codec is the business of other modules: here an encoded block is a  *)
(* symbol table and one code for each item of the data.                    *)
(***************************************************************************)
SizeField == 1
Encode(data) == <<"table">> \o [i \in DOMAIN data |-> <<"code", data[i]>>]
DecodeBlock(block) == [i \in 1 .. Len(block) - 1 |-> block[i + 1][2]]
WithSize(block) == <<SizeField + Len(block)>> \o block

BlocksOf(data) ==
  [k \in 1 .. (Len(data) + BlockSize - 1) \div BlockSize |->
     SubSeq(data, (k - 1) * BlockSize + 1, Min({k * BlockSize, Len(data)}))]

Compressed(data) ==
  [k \in DOMAIN BlocksOf(data) |-> WithSize(Encode(BlocksOf(data)[k]))]

VARIABLES
  decompress,    \* the direction
  data,          \* the uncompressed file (history)
  srcFile, dstFile,                              \* the files
  srcPos,                                        \* how far srcFile was read
  srcBuf, srcLen, dstBuf, dstLen,                \* the buffers
  srcDoneIO, dstDoneIO, srcDoneCPU, dstDoneCPU,  \* the semaphores
  stopThreads,
  blksz,         \* how much the reader reads next
  srcTot,        \* the length of the input
  pcR, swapR, pcM, swapM, pcW, swapW             \* the reader, main, the writer

files == <<decompress, data, srcFile>>
reader == <<pcR, swapR, srcPos, blksz>>
main == <<pcM, swapM, srcTot, stopThreads>>
writer == <<pcW, swapW, dstFile>>
source == <<srcBuf, srcLen>>
target == <<dstBuf, dstLen>>
vars == <<files, reader, main, writer, source, target,
          srcDoneIO, dstDoneIO, srcDoneCPU, dstDoneCPU>>

(* The blocks the output file consists of in the end.                      *)
Result == IF decompress THEN BlocksOf(data) ELSE Compressed(data)

(* main up to the start of the threads.  A file to decompress is one that  *)
(* the tool has written; of an empty one not even the first size can be    *)
(* read, and main gives up.                                                *)
Init ==
  /\ decompress \in BOOLEAN
  /\ \E n \in 0 .. MaxFile : data = [i \in 1 .. n |-> i]
  /\ decompress => data # <<>>
  /\ srcFile = IF decompress THEN FlattenSeq(Compressed(data)) ELSE data
  /\ srcPos = IF decompress THEN SizeField ELSE 0
  /\ blksz = IF decompress THEN srcFile[1] ELSE BlockSize
  /\ dstFile = <<>>
  /\ srcBuf = [b \in Buffer |-> <<>>] /\ srcLen = [b \in Buffer |-> 0]
  /\ dstBuf = [b \in Buffer |-> <<>>] /\ dstLen = [b \in Buffer |-> 0]
  /\ srcDoneCPU = [b \in Buffer |-> TRUE]
  /\ dstDoneIO = [b \in Buffer |-> TRUE]
  /\ srcDoneIO = [b \in Buffer |-> FALSE]
  /\ dstDoneCPU = [b \in Buffer |-> FALSE]
  /\ stopThreads = FALSE
  /\ srcTot = 0
  /\ pcR = "wait" /\ swapR = 0
  /\ pcM = "waitSrc" /\ swapM = 0
  /\ pcW = "wait" /\ swapW = 0

Running == pcM # "crashed"   \* a signal ends all threads

(***************************************************************************)
(* BinarySemaphore::wait and BinarySemaphore::post.                        *)
(***************************************************************************)
(* Mutant of Acquire: the value stays up.                                  *)
Acquire_keep(semaphore, b) == semaphore[b] /\ UNCHANGED semaphore

Acquire(semaphore, b) == semaphore[b] /\ semaphore' = [semaphore EXCEPT ![b] = FALSE]
Post(semaphore, b) == semaphore' = [semaphore EXCEPT ![b] = TRUE]

--------------------------------------------------------------------------------
ReaderWait ==
  /\ pcR = "wait"
  /\ Acquire(srcDoneCPU, swapR)
  /\ pcR' = "check"
  /\ UNCHANGED <<swapR, srcPos, blksz, source, srcDoneIO>>

(* Mutant of ReaderCheck: stopThreads is not looked at.                    *)
ReaderCheck_deaf ==
  /\ pcR = "check"
  /\ pcR' = "read"
  /\ UNCHANGED <<swapR, srcPos, blksz, source, srcDoneIO, srcDoneCPU>>

ReaderCheck ==
  /\ pcR = "check"
  /\ pcR' = IF stopThreads THEN "ended" ELSE "read"
  /\ UNCHANGED <<swapR, srcPos, blksz, source, srcDoneIO, srcDoneCPU>>

(* Whether a block was read in full, so that a size follows.               *)
Full(got)        == decompress /\ blksz > 0 /\ got = blksz

(* src.read, which stops at the end of the file.  When a compressed block  *)
(* was read in full, the size of the next one was read with it.            *)
ReaderRead ==
  LET got  == Min({blksz, Len(srcFile) - srcPos})
      full == Full(got)
  IN  /\ pcR = "read"
      /\ srcBuf' = [srcBuf EXCEPT ![swapR] = SubSeq(srcFile, srcPos + 1, srcPos + got)]
      /\ srcLen' = [srcLen EXCEPT ![swapR] = IF full THEN got - SizeField ELSE got]
      /\ blksz' = IF full THEN srcFile[srcPos + got] ELSE IF decompress THEN 0 ELSE blksz
      /\ srcPos' = srcPos + got
      /\ pcR' = "post"
      /\ UNCHANGED <<swapR, srcDoneIO, srcDoneCPU>>

ReaderPost ==
  /\ pcR = "post"
  /\ Post(srcDoneIO, swapR)
  /\ swapR' = Other(swapR)
  /\ pcR' = "wait"
  /\ UNCHANGED <<srcPos, blksz, source, srcDoneCPU>>

Reader ==
  /\ Running
  /\ ReaderWait \/ ReaderCheck \/ ReaderRead \/ ReaderPost
  /\ UNCHANGED <<files, main, writer, target, dstDoneIO, dstDoneCPU>>

--------------------------------------------------------------------------------
MainWaitSrc ==
  /\ pcM = "waitSrc"
  /\ Acquire(srcDoneIO, swapM)
  /\ pcM' = "waitDst"
  /\ UNCHANGED <<swapM, srcTot, stopThreads, target, srcDoneCPU, dstDoneCPU, dstDoneIO>>

MainWaitDst ==
  /\ pcM = "waitDst"
  /\ Acquire(dstDoneIO, swapM)
  /\ pcM' = "test"
  /\ UNCHANGED <<swapM, srcTot, stopThreads, target, srcDoneCPU, dstDoneCPU, srcDoneIO>>

(* Mutant of MainTest: the length of the last output stays in the buffer.  *)
MainTest_stale ==
  /\ pcM = "test"
  /\ pcM' = IF srcLen[swapM] = 0 THEN "report" ELSE "process"
  /\ UNCHANGED <<swapM, srcTot, stopThreads, target,
                 srcDoneCPU, dstDoneCPU, srcDoneIO, dstDoneIO>>

(* An empty buffer ends the loop.                                          *)
MainTest ==
  /\ pcM = "test"
  /\ IF srcLen[swapM] = 0
       THEN pcM' = "report" /\ dstLen' = [dstLen EXCEPT ![swapM] = 0]
       ELSE pcM' = "process" /\ UNCHANGED dstLen
  /\ UNCHANGED <<swapM, srcTot, stopThreads, dstBuf,
                 srcDoneCPU, dstDoneCPU, srcDoneIO, dstDoneIO>>

MainProcess ==
  LET block == SubSeq(srcBuf[swapM], 1, srcLen[swapM])
      output == IF decompress THEN DecodeBlock(block) ELSE WithSize(Encode(block))
  IN  /\ pcM = "process"
      /\ dstBuf' = [dstBuf EXCEPT ![swapM] = output]
      /\ dstLen' = [dstLen EXCEPT ![swapM] = Len(output)]
      /\ srcTot' = srcTot + srcLen[swapM]
      /\ pcM' = "postSrc"
      /\ UNCHANGED <<swapM, stopThreads, srcDoneCPU, dstDoneCPU, srcDoneIO, dstDoneIO>>

MainPostSrc ==
  /\ pcM = "postSrc"
  /\ Post(srcDoneCPU, swapM)
  /\ pcM' = "postDst"
  /\ UNCHANGED <<swapM, srcTot, stopThreads, target, dstDoneCPU, srcDoneIO, dstDoneIO>>

MainPostDst ==
  /\ pcM = "postDst"
  /\ Post(dstDoneCPU, swapM)
  /\ swapM' = Other(swapM)
  /\ pcM' = "waitSrc"
  /\ UNCHANGED <<srcTot, stopThreads, target, srcDoneCPU, srcDoneIO, dstDoneIO>>

(* The message divides by the length of the input.                         *)
MainReport ==
  /\ pcM = "report"
  /\ pcM' = IF srcTot = 0 THEN "crashed" ELSE "stop"
  /\ UNCHANGED <<swapM, srcTot, stopThreads, target,
                 srcDoneCPU, dstDoneCPU, srcDoneIO, dstDoneIO>>

MainStop ==
  /\ pcM = "stop"
  /\ stopThreads' = TRUE
  /\ swapM' = 0
  /\ pcM' = "releaseSrc"
  /\ UNCHANGED <<srcTot, target, srcDoneCPU, dstDoneCPU, srcDoneIO, dstDoneIO>>

MainReleaseSrc ==
  /\ pcM = "releaseSrc"
  /\ Post(srcDoneCPU, swapM)
  /\ pcM' = "releaseDst"
  /\ UNCHANGED <<swapM, srcTot, stopThreads, target, dstDoneCPU, srcDoneIO, dstDoneIO>>

MainReleaseDst ==
  /\ pcM = "releaseDst"
  /\ Post(dstDoneCPU, swapM)
  /\ swapM' = Other(swapM)
  /\ pcM' = IF swapM = 0 THEN "releaseSrc" ELSE "await"
  /\ UNCHANGED <<srcTot, stopThreads, target, srcDoneCPU, srcDoneIO, dstDoneIO>>

(* "force wait until all background writes finished"                       *)
MainAwait ==
  /\ pcM = "await"
  /\ Acquire(dstDoneIO, swapM)
  /\ swapM' = Other(swapM)
  /\ pcM' = IF swapM = 0 THEN "await" ELSE "join"
  /\ UNCHANGED <<srcTot, stopThreads, target, srcDoneCPU, dstDoneCPU, srcDoneIO>>

(* Both joins, in whichever order the threads end.                         *)
MainJoin ==
  /\ pcM = "join"
  /\ pcR = "ended" /\ pcW = "ended"
  /\ pcM' = "exit"
  /\ UNCHANGED <<swapM, srcTot, stopThreads, target,
                 srcDoneCPU, dstDoneCPU, srcDoneIO, dstDoneIO>>

Main ==
  /\ \/ MainWaitSrc \/ MainWaitDst \/ MainTest \/ MainProcess \/ MainPostSrc
     \/ MainPostDst \/ MainReport \/ MainStop \/ MainReleaseSrc \/ MainReleaseDst
     \/ MainAwait \/ MainJoin
  /\ UNCHANGED <<files, reader, writer, source>>

--------------------------------------------------------------------------------
WriterWait ==
  /\ pcW = "wait"
  /\ Acquire(dstDoneCPU, swapW)
  /\ pcW' = "test"
  /\ UNCHANGED <<swapW, dstFile, dstDoneIO>>

(* An empty buffer ends the loop.                                          *)
WriterTest ==
  /\ pcW = "test"
  /\ IF dstLen[swapW] = 0 THEN pcW' = "drain" /\ swapW' = 0
                          ELSE pcW' = "write" /\ UNCHANGED swapW
  /\ UNCHANGED <<dstFile, dstDoneIO, dstDoneCPU>>

WriterWrite ==
  /\ pcW = "write"
  /\ dstFile' = dstFile \o SubSeq(dstBuf[swapW], 1, dstLen[swapW])
  /\ pcW' = "post"
  /\ UNCHANGED <<swapW, dstDoneIO, dstDoneCPU>>

WriterPost ==
  /\ pcW = "post"
  /\ Post(dstDoneIO, swapW)
  /\ swapW' = Other(swapW)
  /\ pcW' = "wait"
  /\ UNCHANGED <<dstFile, dstDoneCPU>>

WriterDrain ==
  /\ pcW = "drain"
  /\ Post(dstDoneIO, swapW)
  /\ swapW' = Other(swapW)
  /\ pcW' = IF swapW = 0 THEN "drain" ELSE "ended"
  /\ UNCHANGED <<dstFile, dstDoneCPU>>

Writer ==
  /\ Running
  /\ WriterWait \/ WriterTest \/ WriterWrite \/ WriterPost \/ WriterDrain
  /\ UNCHANGED <<files, reader, main, source, target, srcDoneIO, srcDoneCPU>>

(* The process has ended.                                                  *)
Over == pcM \in {"exit", "crashed"} /\ UNCHANGED vars

Next == Reader \/ Main \/ Writer \/ Over

(* The scheduler runs every thread that can run.                           *)
Fairness == WF_vars(Reader) /\ WF_vars(Main) /\ WF_vars(Writer)

Spec == Init /\ [][Next]_vars /\ Fairness

--------------------------------------------------------------------------------
(* Who is between acquiring a buffer and handing it on.                    *)
ReaderHas(b) == swapR = b /\ pcR \in {"check", "read", "post"}
MainHasSrc(b) == swapM = b /\ pcM \in {"waitDst", "test", "process", "postSrc"}
MainHasDst(b) == swapM = b /\ pcM \in {"test", "process", "postSrc", "postDst"}
WriterHas(b) == swapW = b /\ pcW \in {"test", "write", "post"}

(* No two threads are ever about to access the same buffer or its length,  *)
(* unless all they do is read: not while blocks flow, not when main stops  *)
(* the loop with posts that nobody asked for (fsst.cpp:190).               *)
NoBufferRace ==
  \A b \in Buffer :
    /\ ~ (pcR = "read" /\ swapR = b /\ MainHasSrc(b))
    /\ ~ (MainHasDst(b) /\ WriterHas(b))

(* What was written is a sequence of whole blocks of the result, and when  *)
(* main is past "force wait until all background writes finished"          *)
(* (fsst.cpp:188), that is all of them.                                    *)
Copy == INSTANCE FileCopy
  WITH blocks <- Result, finished <- pcM \in {"join", "exit"}

ImplementsCopy == Copy!Spec

(* A file that is not empty is processed to the end: no thread waits for a *)
(* post that was lost because its semaphore was still up.                  *)
Completes == data # <<>> ~> pcM = "exit"

================================================================================
