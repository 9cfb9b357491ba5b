------------------------------ MODULE Decompress -------------------------------
(***************************************************************************)
(* fsst_decompress (fsst.h).  Three loops, each for what the one before it *)
(* leaves: four codes at once while whole words can be stored, then the    *)
(* last three bytes, then byte by byte with truncation to the size of the  *)
(* output.  A build for a big-endian machine has a loop of single codes    *)
(* instead of the first two; a build that must align has only the last.    *)
(***************************************************************************)
EXTENDS Decoding

CONSTANTS
  Decoders,    \* [zeroTerminated, symbol: from codes to ImportTable's entries]
  Inputs(_),   \* the compressed strings that may be given to a decoder
  Sizes        \* the sizes of the output buffer

ASSUME DecompressAssumption == Sizes \subseteq Nat /\ IsFiniteSet(Sizes)

Builds    == {"little endian", "big endian", "must align"}
Untouched == -1

VARIABLES
  build, decoder, strIn, size,   \* the program and the arguments of the call
  pc,                            \* "fast", "single", "tail", "last", "slow", "returned"
  posIn, posOut,
  strOut                         \* the output buffer and the bytes around it

arguments == <<build, decoder, strIn, size>>
vars == <<build, decoder, strIn, size, pc, posIn, posOut, strOut>>

Block == 4     \* the bytes the first loop looks at
Index == -1 .. Max(Sizes) + MaxLength

Init ==
  /\ build \in Builds
  /\ decoder \in Decoders
  /\ strIn \in Inputs(decoder)
  /\ size \in Sizes
  /\ pc = CASE build = "little endian" -> "fast"
            [] build = "big endian"    -> "single"
            [] build = "must align"    -> "slow"
  /\ posIn = 0 /\ posOut = 0
  /\ strOut = [i \in Index |-> Untouched]

lenIn   == Len(strIn)
In(pos) == strIn[pos + 1]      \* the bytes of the input, from 0

(* Whole words are stored, so the zeros behind a short symbol, too.        *)
Word(code) ==
  LET entry == decoder.symbol[code]
  IN  [i \in 1 .. MaxLength |-> IF i <= entry.len THEN entry.symbol[i] ELSE 0]

StoreWord(at, code) ==
  [ pos |-> at.pos + decoder.symbol[code].len,
    out |-> [i \in Index |-> IF i \in at.pos .. at.pos + MaxLength - 1
                               THEN Word(code)[i - at.pos + 1] ELSE at.out[i]] ]

(* The byte behind an escape; mutant: the escape itself.                   *)
Escaped_early(pos) == In(pos)
Escaped(pos)       == In(pos + 1)

(* How far an escape takes the input.                                      *)
EscapeLength       == 2

(* The next n codes, a word for each.                                      *)
Stored(n) ==
  LET after[k \in 0 .. n] ==
        IF k = 0 THEN [pos |-> posOut, out |-> strOut]
        ELSE StoreWord(after[k - 1], In(posIn + k - 1))
  IN  after[n]

(* n codes are decoded and, if that is said, the escape behind them.       *)
Put(n, escape) ==
  LET stored == Stored(n)
  IN  IF escape
        THEN /\ strOut' = [stored.out EXCEPT ![stored.pos] = Escaped(posIn + n)]
             /\ posOut' = stored.pos + 1
             /\ posIn' = posIn + n + EscapeLength
        ELSE /\ strOut' = stored.out
             /\ posOut' = stored.pos
             /\ posIn' = posIn + n

(* There is room for n whole words.  Mutant: for all but one.              *)
RoomFor_less(n) == posOut + (n - 1) * MaxLength <= size
RoomFor(n)      == posOut + n * MaxLength <= size

--------------------------------------------------------------------------------
Escapes == {i \in 0 .. Block - 1 : In(posIn + i) = ESC}

FastGoesOn == RoomFor(Block) /\ posIn + Block <= lenIn

FastPlain ==
  /\ pc = "fast" /\ FastGoesOn
  /\ Escapes = {}
  /\ Put(Block, FALSE)
  /\ UNCHANGED <<arguments, pc>>

(* The codes before the first escape of the four bytes, and the escape,    *)
(* whose byte may lie behind the four.                                     *)
FastEscape ==
  /\ pc = "fast" /\ FastGoesOn
  /\ Escapes # {}
  /\ Put(Min(Escapes), TRUE)
  /\ UNCHANGED <<arguments, pc>>

FastEnd ==
  /\ pc = "fast" /\ ~ FastGoesOn
  /\ pc' = IF RoomFor(Block) THEN "tail" ELSE "slow"
  /\ UNCHANGED <<arguments, posIn, posOut, strOut>>

(* Of the last three bytes: two codes, a code and an escape, or an escape; *)
(* nothing if there is only one.  The byte stored in advance, before the   *)
(* first of them is known not to be an escape, is overwritten.             *)
LastThree ==
  /\ pc = "tail"
  /\ \/ posIn + 2 > lenIn /\ UNCHANGED <<posIn, posOut, strOut>>
     \/ posIn + 2 <= lenIn /\ In(posIn) = ESC /\ Put(0, TRUE)
     \/ posIn + 2 <= lenIn /\ In(posIn) # ESC /\ In(posIn + 1) = ESC /\ Put(1, TRUE)
     \/ posIn + 2 <= lenIn /\ In(posIn) # ESC /\ In(posIn + 1) # ESC /\ Put(2, FALSE)
  /\ pc' = "last"
  /\ UNCHANGED arguments

LastCode ==
  /\ pc = "last"
  /\ IF posIn < lenIn THEN Put(1, FALSE) ELSE UNCHANGED <<posIn, posOut, strOut>>
  /\ pc' = "slow"
  /\ UNCHANGED arguments

(* The loop of a big-endian machine.                                       *)
Single ==
  /\ pc = "single"
  /\ RoomFor(1) /\ posIn < lenIn
  /\ IF In(posIn) = ESC THEN Put(0, TRUE) ELSE Put(1, FALSE)
  /\ UNCHANGED <<arguments, pc>>

SingleEnd ==
  /\ pc = "single"
  /\ ~ (RoomFor(1) /\ posIn < lenIn)
  /\ pc' = "slow"
  /\ UNCHANGED <<arguments, posIn, posOut, strOut>>

--------------------------------------------------------------------------------
(* Byte by byte, only where there is room; posOut is counted on.           *)
SlowCode ==
  /\ pc = "slow"
  /\ posIn < lenIn /\ In(posIn) # ESC
  /\ LET end == posOut + decoder.symbol[In(posIn)].len
     IN  /\ strOut' = [i \in Index |-> IF i \in posOut .. Min({end, size}) - 1
                                         THEN Word(In(posIn))[i - posOut + 1] ELSE strOut[i]]
         /\ posOut' = end
  /\ posIn' = posIn + 1
  /\ UNCHANGED <<arguments, pc>>

SlowEscape ==
  /\ pc = "slow"
  /\ posIn < lenIn /\ In(posIn) = ESC
  /\ strOut' = IF posOut < size THEN [strOut EXCEPT ![posOut] = Escaped(posIn)] ELSE strOut
  /\ posOut' = posOut + 1
  /\ posIn' = posIn + EscapeLength
  /\ UNCHANGED <<arguments, pc>>

(* A zero-terminated string that fills the output is closed with a zero.   *)
Return ==
  /\ pc = "slow"
  /\ posIn >= lenIn
  /\ strOut' = IF posOut >= size /\ decoder.zeroTerminated
                 THEN [strOut EXCEPT ![size - 1] = 0] ELSE strOut
  /\ pc' = "returned"
  /\ UNCHANGED <<arguments, posIn, posOut>>

Next ==
  \/ FastPlain \/ FastEscape \/ FastEnd \/ LastThree \/ LastCode
  \/ Single \/ SingleEnd
  \/ SlowCode \/ SlowEscape \/ Return

Spec == Init /\ [][Next]_vars

--------------------------------------------------------------------------------
(* Whichever loop decodes a code, and wherever one loop hands over to the  *)
(* next: what is written so far is what the codes read so far stand for,   *)
(* as far as there is room; posOut counts it all (fsst.h:143); at the end  *)
(* nothing is left, and a zero-terminated string is one.                   *)
Faithful ==
  LET text == Decode(decoder.symbol, SubSeq(strIn, 1, posIn))
      closed == pc = "returned" /\ decoder.zeroTerminated /\ posOut >= size
  IN  /\ posOut = Len(text)
      /\ \A i \in 0 .. Min({posOut, size}) - 1 :
           strOut[i] = IF closed /\ i = size - 1 THEN 0 ELSE text[i + 1]
      /\ pc = "returned" => posIn = lenIn

Inside == \A i \in Index : strOut[i] # Untouched => i \in 0 .. size - 1

(* Words are stored beyond the end of a symbol, but never beyond the end   *)
(* of the output.                                                          *)
InBounds == size > 0 \/ ~ decoder.zeroTerminated => Inside

================================================================================
