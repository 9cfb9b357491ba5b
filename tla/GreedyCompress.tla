---------------------------- MODULE GreedyCompress -----------------------------
(***************************************************************************)
(* What a compressor promises, whichever shortcuts it takes: from left to  *)
(* right, each code is that of the longest symbol the rest of the chunk    *)
(* starts with, or an escape if there is none.  Hence all compressors give *)
(* the same codes, and equal strings have equal codes.  A compressor may   *)
(* stop before it has compressed every string.                             *)
(***************************************************************************)
EXTENDS Integers, Sequences, SequencesExt

CONSTANTS
  ChunkMax,   \* strings are compressed in chunks of this length
  ESC         \* the code of an escape

VARIABLES
  symbols,    \* the symbols, symbols[c + 1] is that of code c
  strIn,      \* the strings
  pos,        \* how many bytes of the current string are compressed
  current,    \* the codes of the current string so far
  finished    \* the codes of the strings before it

vars == <<symbols, strIn, pos, current, finished>>

Init ==
  /\ pos = 0
  /\ current = <<>>
  /\ finished = <<>>

Line == strIn[Len(finished) + 1]
ChunkEnd == Min({Len(Line), (pos \div ChunkMax + 1) * ChunkMax})
Rest == SubSeq(Line, pos + 1, ChunkEnd)

Matching == {i \in DOMAIN symbols : IsPrefix(symbols[i], Rest)}

(* The longest match, if there is one.                                     *)
EmitSymbol(i) ==
  /\ i \in Matching
  /\ \A j \in Matching : Len(symbols[j]) <= Len(symbols[i])
  /\ current' = Append(current, i - 1)
  /\ pos' = pos + Len(symbols[i])

EmitEscape ==
  /\ Matching = {}
  /\ current' = current \o <<ESC, Rest[1]>>
  /\ pos' = pos + 1

Emit ==
  /\ Len(finished) < Len(strIn)
  /\ pos < Len(Line)
  /\ EmitEscape \/ \E i \in Matching : EmitSymbol(i)
  /\ UNCHANGED <<symbols, strIn, finished>>

EndString ==
  /\ Len(finished) < Len(strIn)
  /\ pos = Len(Line)
  /\ finished' = Append(finished, current)
  /\ current' = <<>>
  /\ pos' = 0
  /\ UNCHANGED <<symbols, strIn>>

Spec == Init /\ [][Emit \/ EndString]_vars
================================================================================
