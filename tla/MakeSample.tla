------------------------------ MODULE MakeSample -------------------------------
(***************************************************************************)
(* makeSample (libfsst.cpp): the strings from which the symbol table is    *)
(* built.  Little input is taken as it is.  From more, chunks of lines are *)
(* drawn at random, with repetition, and copied to the sample buffer,      *)
(* until there is enough or the array of their lengths is full.            *)
(***************************************************************************)
EXTENDS Integers, Sequences, FiniteSets, SequencesExt

CONSTANTS
  SampleTarget,    \* FSST_SAMPLETARGET, 2^14
  SampleLine,      \* FSST_SAMPLELINE, the longest piece of a line, 512
  Lines            \* the batches of strings a table may be made from

(* FSST_SAMPLEMAXSZ, the size of the sample buffer.                        *)
SampleMaxSize == 2 * SampleTarget

ASSUME SampleAssumption ==
  /\ SampleTarget \in Nat \ {0}
  /\ SampleLine \in 1 .. SampleTarget
  /\ <<>> \notin Lines

VARIABLES
  pc,        \* "sampling", or what follows
  strIn,     \* the strings
  sample     \* the strings of the sample

Bytes(strings) ==
  SumFunctionOnSet([i \in DOMAIN strings |-> Len(strings[i])], DOMAIN strings)

(* How many lengths were allocated.                                        *)
Allocated == Len(strIn) + SampleMaxSize \div SampleLine

(* The sample buffer is filled up to the target; mutant: to its end.       *)
GoesOn_full == Bytes(sample) < SampleMaxSize
GoesOn      == Bytes(sample) < SampleTarget /\ Len(sample) < Allocated

Chunks(l) == 1 + (Len(strIn[l]) - 1) \div SampleLine

Chunk(l, c) ==
  SubSeq(strIn[l], c * SampleLine + 1,
         IF (c + 1) * SampleLine < Len(strIn[l]) THEN (c + 1) * SampleLine ELSE Len(strIn[l]))

SampleInit ==
  /\ pc = "sampling"
  /\ strIn \in Lines
  /\ sample = <<>>

TakeAll ==
  /\ pc = "sampling"
  /\ Bytes(strIn) < SampleTarget
  /\ sample' = strIn
  /\ pc' = "sampled"
  /\ UNCHANGED strIn

(* The random number gives a line, an empty one is passed over, and there  *)
(* is one that is not empty.                                               *)
TakeChunk ==
  /\ pc = "sampling"
  /\ Bytes(strIn) >= SampleTarget
  /\ GoesOn
  /\ \E l \in {l \in DOMAIN strIn : strIn[l] # <<>>} :
       \E c \in 0 .. Chunks(l) - 1 : sample' = Append(sample, Chunk(l, c))
  /\ UNCHANGED <<pc, strIn>>

EnoughDrawn ==
  /\ pc = "sampling"
  /\ Bytes(strIn) >= SampleTarget
  /\ ~ GoesOn
  /\ pc' = "sampled"
  /\ UNCHANGED <<strIn, sample>>

Draw == TakeAll \/ TakeChunk \/ EnoughDrawn

--------------------------------------------------------------------------------
(* The two arrays the sample is written to are not overrun (libfsst.cpp:470*)
(* and 485), every piece has bytes and lies in a line, and of a little     *)
(* input nothing is missing.                                               *)
SampleInside ==
  /\ Bytes(strIn) >= SampleTarget =>
       /\ Bytes(sample) <= SampleMaxSize
       /\ Len(sample) <= Allocated
       /\ \A i \in DOMAIN sample :
            /\ sample[i] # <<>>
            /\ \E l \in DOMAIN strIn : \E k \in 0 .. Len(strIn[l]) - Len(sample[i]) :
                 sample[i] = SubSeq(strIn[l], k + 1, k + Len(sample[i]))
  /\ pc # "sampling" /\ Bytes(strIn) < SampleTarget => sample = strIn
================================================================================
