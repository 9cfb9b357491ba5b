----------------------------- MODULE Decompress12 ------------------------------
(***************************************************************************)
(* fsst_decompress of the 12-bit variant (fsst12.h).  While there is room  *)
(* for two words and there are more than four bytes of input, two codes    *)
(* are taken from three bytes; one more code is then taken if a word fits. *)
(* The same is done byte by byte when there is less room.                  *)
(***************************************************************************)
EXTENDS Integers, Sequences, FiniteSets, SequencesExt

CONSTANTS
  CodeBase, CodeMax, MaxLength    \* as in SymbolMap12

VARIABLES
  decompressPc,           \* "off", "fast", "fastOne", "slow", "slowOne", "returned"
  decoder, comp, room,    \* the imported symbols, the input, the size of the output
  posIn, posOut,
  text                    \* the output buffer and the words behind it

arguments == <<decoder, comp, room>>
(* What is not written yet, what was left unset of a symbol's word, and a  *)
(* byte behind the input.                                                  *)
Untouched == -2
Junk      == -1

In(i) == comp[posIn + i + 1]
FirstCode  == (In(0) + CodeBase * In(1)) % CodeMax
SecondCode == (In(0) + CodeBase * In(1) + CodeBase * CodeBase * In(2)) \div CodeMax

Idle ==
  /\ decompressPc = "off"
  /\ decoder = <<>> /\ comp = <<>> /\ room = 0
  /\ posIn = 0 /\ posOut = 0
  /\ text = <<>>

Call(symbols, compressed, size) ==
  /\ decompressPc = "off"
  /\ decoder' = symbols /\ comp' = compressed /\ room' = size
  /\ decompressPc' = "fast"
  /\ text' = [i \in 0 .. size + 2 * MaxLength |-> Untouched]
  /\ UNCHANGED <<posIn, posOut>>

(* A word is stored, of which only the bytes of the symbol are known.      *)
StoreWord(at, code) ==
  [ pos |-> at.pos + decoder[code].len,
    out |-> [i \in DOMAIN at.out |->
               IF i \in at.pos .. at.pos + decoder[code].len - 1 THEN decoder[code].symbol[i - at.pos + 1]
               ELSE IF i \in at.pos .. at.pos + MaxLength - 1 THEN Junk
               ELSE at.out[i]] ]

(* The bytes of a symbol are copied as far as there is room.               *)
CopyBytes(at, code) ==
  [ pos |-> at.pos + decoder[code].len,
    out |-> [i \in DOMAIN at.out |->
               IF i \in at.pos .. Min({at.pos + decoder[code].len, room}) - 1
                 THEN decoder[code].symbol[i - at.pos + 1] ELSE at.out[i]] ]

Put(Store(_, _), codes, pos) ==
  LET stored == FoldLeft(Store, [pos |-> posOut, out |-> text], codes)
  IN  /\ text' = stored.out
      /\ posOut' = stored.pos
      /\ posIn' = pos

(* Mutant: a byte more of input is asked for.                              *)
Fast_early == posOut + 2 * MaxLength <= room /\ posIn + 5 < Len(comp)
Fast       == posOut + 2 * MaxLength <= room /\ posIn + 4 < Len(comp)

FastTwo ==
  /\ decompressPc = "fast"
  /\ Fast
  /\ Put(StoreWord, <<FirstCode, SecondCode>>, posIn + 3)
  /\ UNCHANGED <<arguments, decompressPc>>

FastEnd ==
  /\ decompressPc = "fast"
  /\ ~ Fast
  /\ decompressPc' = "fastOne"
  /\ UNCHANGED <<arguments, posIn, posOut, text>>

(* The input is taken for finished after this code.                        *)
FastOne ==
  /\ decompressPc = "fastOne"
  /\ IF posOut + MaxLength <= room /\ posIn < Len(comp)
       THEN Put(StoreWord, <<FirstCode>>, Len(comp))
       ELSE UNCHANGED <<posIn, posOut, text>>
  /\ decompressPc' = "slow"
  /\ UNCHANGED arguments

SlowTwo ==
  /\ decompressPc = "slow"
  /\ posIn + 3 < Len(comp)
  /\ Put(CopyBytes, <<FirstCode, SecondCode>>, posIn + 3)
  /\ UNCHANGED <<arguments, decompressPc>>

Return ==
  /\ decompressPc = "slow"
  /\ ~ posIn + 3 < Len(comp)
  /\ IF posIn < Len(comp)
       THEN Put(CopyBytes, <<FirstCode>>, Len(comp))
       ELSE UNCHANGED <<posIn, posOut, text>>
  /\ decompressPc' = "returned"
  /\ UNCHANGED arguments

Next == FastTwo \/ FastEnd \/ FastOne \/ SlowTwo \/ Return

--------------------------------------------------------------------------------
(* Whole words are stored, and none of them ends behind the output.        *)
InBounds == \A i \in DOMAIN text : i >= room => text[i] = Untouched

(* What a call must have written for a text.                               *)
Written(t) ==
  /\ posOut = Len(t)
  /\ \A i \in 0 .. Min({posOut, room}) - 1 : text[i] = t[i + 1]
================================================================================
