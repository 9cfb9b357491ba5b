------------------------------- MODULE Decoding --------------------------------
(***************************************************************************)
(* What a compressed string means (fsst.h, the byte-at-a-time loop of      *)
(* fsst_decompress, with room for the whole output).  A decoder gives each *)
(* code below the escape its bytes; the byte after an escape stands for    *)
(* itself.                                                                 *)
(***************************************************************************)
EXTENDS Serialization

Decode(decoder, codes) ==
  LET from[i \in 1 .. Len(codes) + 2] ==
        IF i > Len(codes) THEN <<>>
        ELSE IF codes[i] < ESC THEN decoder[codes[i]].symbol \o from[i + 1]
        ELSE <<codes[i + 1]>> \o from[i + 2]
  IN  from[1]
================================================================================
