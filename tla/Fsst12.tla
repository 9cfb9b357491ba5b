-------------------------------- MODULE Fsst12 ---------------------------------
(***************************************************************************)
(* The 12-bit library from end to end, as its users call it: fsst_create   *)
(* on a batch of strings, fsst_compress of the batch, fsst_decoder, which  *)
(* imports what was exported, and fsst_decompress of one of the strings.   *)
(***************************************************************************)
EXTENDS SymbolMap12

CONSTANTS
  SampleTarget, LongLine, Lines, Rnd128(_, _),   \* as in BuildSymbolMap12
  LowBase, High1Base, High2Base,                 \* of its counters
  Sizes,                                         \* of the compressor's output
  Rooms                                          \* of the decompressor's output

VARIABLES
  buildPc, strIn, line, prob, sample, round, st, queue, bestMap, bestGain, slots,
  overflown,
  compressPc, size, curLine, cur, out, mem, strOut, lenOut,
  decompressPc, decoder, comp, room, posIn, posOut, text,
  chosen     \* the string that is decompressed

B == INSTANCE BuildSymbolMap12
C == INSTANCE Compress12 WITH map <- bestMap
D == INSTANCE Decompress12

build == <<buildPc, strIn, line, prob, sample, round, st, queue, bestMap, bestGain, slots, overflown>>
compress == <<compressPc, size, curLine, cur, out, mem, strOut, lenOut>>
decompress == <<decompressPc, decoder, comp, room, posIn, posOut, text, chosen>>
vars == <<build, compress, decompress>>

Idle12 == C!Idle /\ D!Idle /\ chosen = 0
Init == B!Init /\ Idle12

Create ==
  /\ B!Next
  /\ UNCHANGED <<compress, decompress>>

Compress ==
  /\ buildPc = "built"
  /\ C!Next \/ \E s \in Sizes : C!Call(s)
  /\ UNCHANGED <<build, decompress>>

(* fsst_decoder, and the call of fsst_decompress.                          *)
StartDecompress ==
  /\ compressPc = "returned"
  /\ \E l \in DOMAIN lenOut, r \in Rooms :
       /\ D!Call(Import(Export(bestMap)), C!Compressed(l), r)
       /\ chosen' = l
  /\ UNCHANGED <<build, compress>>

Decompress ==
  /\ D!Next
  /\ UNCHANGED <<build, compress, chosen>>

Next == Create \/ Compress \/ StartDecompress \/ Decompress

Spec == Init /\ [][Next]_vars

--------------------------------------------------------------------------------
(* The counters and the symbols they count are of one round; what they do  *)
(* not explain is the overflow of a pair (libfsst12.hpp:265).              *)
SymbolsOccur == B!SymbolsOccur

(* Nothing exceeds its size: what is drawn for the sample is enough and no *)
(* more (libfsst12.cpp:285); neither the compressor nor the decompressor   *)
(* stores a word across the end of its output, with any size of it; and    *)
(* finished strings survive the words stored behind them.                  *)
InBounds == B!SampleInside /\ C!InBounds /\ C!StringsIntact /\ D!InBounds

(* fsst_import reads what fsst_export wrote, up to its end, and gives each *)
(* code the symbol the compressor means by it (libfsst12.cpp:366 and 402). *)
ImportAgrees ==
  decompressPc # "off" =>
    /\ ImportedTo(Export(bestMap))[SymbolCount(bestMap)] = Len(Export(bestMap).bytes) + 1
    /\ \A code \in 0 .. CodeMax - 1 :
         decoder[code] = IF code < SymbolCount(bestMap)
                           THEN [len |-> Len(SymbolOf(bestMap, code)), symbol |-> SymbolOf(bestMap, code)]
                           ELSE Corrupt

(* What the decoder writes is the beginning of the string (fsst12.h:132):  *)
(* all of it, if the string has an odd number of codes and there is room   *)
(* for two words behind it, so that it ends with a code of its own; of an  *)
(* even number the last one is lost.                                       *)
Roomy == Len(strIn[chosen]) + 2 * MaxLength <= room
DecodesUpTo ==
  decompressPc = "returned" =>
    LET codes == C!CodesOf(comp)
    IN  /\ posOut <= Len(strIn[chosen]) /\ D!Written(SubSeq(strIn[chosen], 1, posOut))
        /\ Roomy => posOut = Len(C!TextOf(IF Len(codes) % 2 = 1 \/ codes = <<>>
                                            THEN codes ELSE Front(codes)))

(* "bytesize of the decompressed string" (fsst12.h:125), of every string   *)
(* for which there is room.                                                *)
Decodes ==
  decompressPc = "returned" /\ Roomy => D!Written(strIn[chosen])
================================================================================
