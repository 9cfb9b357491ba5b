------------------------------ MODULE Compress12 -------------------------------
(***************************************************************************)
(* The compressor of the 12-bit variant (libfsst12.cpp, compressBulk).     *)
(* Two codes make three bytes and a last single code makes two, but every  *)
(* store writes a word of eight: four bytes of the codes and whatever lies *)
(* behind them in memory.                                                  *)
(***************************************************************************)
EXTENDS SymbolMap12

VARIABLES
  compressPc,          \* "off", "loop", "tail", "returned"
  map, strIn,          \* the encoder's map and the strings
  size,                \* of the output
  curLine, cur,        \* the string, and how much of it is encoded
  out,                 \* the output pointer, from 0
  mem,                 \* the output buffer and the word behind it
  strOut, lenOut

Junk      == -1    \* a byte of a word that nobody gave a value
Untouched == -2

(* The pieces of a string and of the words that are loaded and stored.     *)
Line == strIn[curLine]
Rest(from) == SubSeq(Line, from + 1, Min({from + MaxLength, Len(Line)}))

(* One code or two, the second in the upper twelve bits.                   *)
CodeBytes(res) ==
  [i \in 0 .. MaxLength - 1 |->
     CASE i = 0 -> res % CodeBase
       [] i = 1 -> (res \div CodeBase) % CodeBase
       [] i = 2 -> res \div (CodeBase * CodeBase)
       [] i = 3 -> 0
       [] i > 3 -> Junk]

(* Mutant: the second code begins at the next whole byte.                  *)
Combine_bytes(c1, c2) == c1 + CodeBase * CodeBase * (c2 % CodeBase)
Combine(c1, c2)       == c1 + CodeMax * c2

Store(res) ==
  mem' = [i \in DOMAIN mem |-> IF i \in out .. out + MaxLength - 1 THEN CodeBytes(res)[i - out] ELSE mem[i]]

(* A word fits, although the codes take three bytes.                       *)
Room       == size - out >= MaxLength

Idle ==
  /\ compressPc = "off"
  /\ size = 0
  /\ curLine = 1 /\ cur = 0 /\ out = 0
  /\ mem = <<>>
  /\ strOut = <<>> /\ lenOut = <<>>

Call(room) ==
  /\ compressPc = "off"
  /\ size' = room
  /\ compressPc' = IF strIn = <<>> THEN "returned" ELSE "loop"
  /\ mem' = [i \in 0 .. room + MaxLength |-> Untouched]
  /\ strOut' = <<0>>
  /\ UNCHANGED <<curLine, cur, out, lenOut>>

(* Two lookups, which for a word of the string and for what is left of it  *)
(* find the same, and the bytes they stand for.                            *)
TwoCodes ==
  LET first  == FindExpansion(map, Rest(cur))
      second == FindExpansion(map, Rest(cur + first.len))
  IN  /\ Store(Combine(first.code, second.code))
      /\ out' = out + 3
      /\ cur' = cur + first.len + second.len

(* Words are loaded while two of them are left of the string.              *)
Loop == cur + 2 * MaxLength <= Len(Line) /\ Room

EncodeWords ==
  /\ compressPc = "loop"
  /\ Loop
  /\ TwoCodes
  /\ UNCHANGED <<compressPc, size, curLine, strOut, lenOut>>

EndWords ==
  /\ compressPc = "loop"
  /\ ~ Loop
  /\ compressPc' = "tail"
  /\ UNCHANGED <<size, curLine, cur, out, mem, strOut, lenOut>>

OneLeft == cur + FindExpansion(map, Rest(cur)).len >= Len(Line)

EncodeTwo ==
  /\ compressPc = "tail"
  /\ cur < Len(Line)
  /\ Room
  /\ ~ OneLeft
  /\ TwoCodes
  /\ UNCHANGED <<compressPc, size, curLine, strOut, lenOut>>

(* A single code at the end of the string.                                 *)
EncodeOne ==
  /\ compressPc = "tail"
  /\ cur < Len(Line)
  /\ Room
  /\ OneLeft
  /\ Store(FindExpansion(map, Rest(cur)).code)
  /\ out' = out + 2
  /\ cur' = Len(Line)
  /\ UNCHANGED <<compressPc, size, curLine, strOut, lenOut>>

OutOfMemory ==
  /\ compressPc = "tail"
  /\ cur < Len(Line)
  /\ ~ Room
  /\ compressPc' = "returned"
  /\ UNCHANGED <<size, curLine, cur, out, mem, strOut, lenOut>>

EndLine ==
  /\ compressPc = "tail"
  /\ cur >= Len(Line)
  /\ lenOut' = Append(lenOut, out - strOut[curLine])
  /\ curLine' = curLine + 1
  /\ cur' = 0
  /\ IF curLine < Len(strIn)
       THEN compressPc' = "loop" /\ strOut' = Append(strOut, out)
       ELSE compressPc' = "returned" /\ UNCHANGED strOut
  /\ UNCHANGED <<size, out, mem>>

Next ==
  \/ EncodeWords \/ EndWords
  \/ EncodeTwo \/ EncodeOne \/ OutOfMemory \/ EndLine

--------------------------------------------------------------------------------
(* The meaning of a compressed string: three bytes are two codes, and two  *)
(* bytes at its end are one.                                               *)
CodesOf(bytes) ==
  LET n == Len(bytes)
      value(i) == bytes[i] + CodeBase * bytes[i + 1]
                    + (IF i + 2 <= n THEN CodeBase * CodeBase * bytes[i + 2] ELSE 0)
      from[i \in 1 .. n + 3] ==
        IF i > n THEN <<>>
        ELSE IF i + 1 = n THEN <<value(i)>>
        ELSE <<value(i) % CodeMax, value(i) \div CodeMax>> \o from[i + 3]
  IN  from[1]

TextOf(codes) == FlattenSeq([i \in DOMAIN codes |-> SymbolOf(map, codes[i])])
Compressed(l) == [i \in 1 .. lenOut[l] |-> mem[strOut[l] + i - 1]]

(* The strings that are finished are intact, whatever the words stored     *)
(* after them wrote (libfsst12.cpp:248 and 270), in particular when the    *)
(* call gives up in the middle of a later one: they lie one behind the     *)
(* other, and decode to what they were.                                    *)
StringsIntact ==
  \A l \in DOMAIN lenOut :
    /\ l < Len(strOut) => strOut[l + 1] = strOut[l] + lenOut[l]
    /\ \A i \in 1 .. lenOut[l] : Compressed(l)[i] \in Byte
    /\ TextOf(CodesOf(Compressed(l))) = strIn[l]

(* Nothing is written behind the output.                                   *)
InBounds == \A i \in DOMAIN mem : i >= size => mem[i] = Untouched
================================================================================
