------------------------------- MODULE Versions --------------------------------
(***************************************************************************)
(* What is kept beside the library: the variant with codes of 12 bits, and *)
(* the programs of the paper, two earlier versions of the algorithm and    *)
(* the row stores of the benchmarks.  They are programs of their own and   *)
(* share nothing; one of them runs.                                        *)
(***************************************************************************)
EXTENDS Fsst12

CONSTANTS
  PaperBase, PaperLength,             \* CodeBase and MaxLength of the paper's versions
  QueueMax, ChunkMax, FirstTexts,     \* as in Cw
  Targets, ThresholdUnit, CounterRange, SampleLimit,
  SecondTexts, Leftover, Behind, Newline, \* as in Vcw
  Corpora, BlockSize, Encode(_), Decode(_) \* as in RowStore

VARIABLES
  version,
  cwPc, lines, added, data, used, suffixes, candidates, modified, result, greedy, curText, index, codes,
  vcwPc, bulk, page, taken, turn, symbolMap, bestSymbols, bestSize, offers,
  storePc, kind, corpus, stored, packed, ends, blocks, hits, asked, currentBlock, unpacked, target

First  == INSTANCE Cw WITH CodeBase <- PaperBase, MaxLength <- PaperLength, Texts <- FirstTexts
Second == INSTANCE Vcw WITH CodeBase <- PaperBase, MaxLength <- PaperLength, Texts <- SecondTexts
Store  == INSTANCE RowStore WITH NewLine <- Newline

ASSUME PaperAssumption == First!Admissible /\ Second!Admissible /\ Store!Admissible

first == <<cwPc, lines, added, data, used, suffixes, candidates, modified, result, greedy, curText, index, codes>>
second == <<vcwPc, bulk, page, taken, turn, symbolMap, bestSymbols, bestSize, offers>>
store == <<storePc, kind, corpus, stored, packed, ends, blocks, hits, asked, currentBlock, unpacked, target>>

InitVersions ==
  \/ version = "fsst12" /\ Init /\ First!Idle /\ Second!Idle /\ Store!Idle
  \/ version = "cw" /\ First!Init /\ B!Idle /\ Idle12 /\ Second!Idle /\ Store!Idle
  \/ version = "vcw" /\ Second!Init /\ B!Idle /\ Idle12 /\ First!Idle /\ Store!Idle
  \/ version = "store" /\ Store!Init /\ B!Idle /\ Idle12 /\ First!Idle /\ Second!Idle

NextVersions ==
  /\ UNCHANGED version
  /\ \/ version = "fsst12" /\ Next /\ UNCHANGED <<first, second, store>>
     \/ version = "cw" /\ First!Next /\ UNCHANGED <<vars, second, store>>
     \/ version = "vcw" /\ Second!Next /\ UNCHANGED <<vars, first, store>>
     \/ version = "store" /\ Store!Next /\ UNCHANGED <<vars, first, second>>

SpecVersions == InitVersions /\ [][NextVersions]_<<version, vars, first, second, store>>

--------------------------------------------------------------------------------
(* The suffix array yields exactly the strings that are worth a symbol,    *)
(* with their gains (cw.cpp:245).                                          *)
CandidatesExact == First!CandidatesExact

(* The symbol that is picked gains most of what is left (cw.cpp:297).      *)
PicksBest == First!PicksBest

(* Each chunk is cut into as few codes as there can be (cw.cpp:410).       *)
Minimal == First!Minimal

(* What either version compresses comes back (cw.cpp:443, vcw.cpp:189 and  *)
(* 518), with symbols found by their first bytes alone (vcw.cpp:75), which *)
(* needs that no zero byte follows a newline (Vcw!Admissible).             *)
RoundTrip ==
  /\ First!RoundTrip
  /\ Second!LongestFound
  /\ Second!RoundTrip

(* The stores return the rows they are asked for, though they reuse the    *)
(* unpacked block (filtertest.cpp:279).                                    *)
RowsReturned == Store!RowsReturned
================================================================================
