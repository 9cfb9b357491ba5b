----------------------------- MODULE MCDecompress ------------------------------
(***************************************************************************)
(* Small decoders with symbols of every length.  ESC is a byte value, too, *)
(* and occurs behind an escape.                                            *)
(***************************************************************************)
EXTENDS DecompressProof

MCBucket == 0 .. 2
MCHash(key) == (key[1] + 2 * key[2] + 2 * key[3]) % 3

Decoder(t) == [zeroTerminated |-> t.zeroTerminated, symbol |-> ImportTable(ExportTable(t))]

Built(terminator, zeroTerminated, symbols) ==
  Decoder(FinalizeTable(FoldLeft(AddSymbol, EmptyTable(terminator, zeroTerminated),
                                 <<<<terminator>>>> \o symbols)))

MCDecoders == { Built(5, FALSE, << <<0, 1>>, <<1, 0, 1>> >>),
                Built(0, TRUE,  << <<1, 1>>, <<1, 5, 1>> >>) }

(* A code or an escape; the strings of a zero-terminated table end with    *)
(* code 0 and do not contain it before.                                    *)
Token(d) ==
  { <<c>> : c \in (IF d.zeroTerminated THEN 1 ELSE 0) .. 2 } \cup { <<ESC, 1>>, <<ESC, ESC>> }

MCInputs(d) ==
  { FlattenSeq(s) \o (IF d.zeroTerminated THEN <<0>> ELSE <<>>) : s \in BoundedSeq(Token(d), 5) }

(* They are such inputs as the theorems are for: these are the positions    *)
(* that WellFormed asks for.                                               *)
MCCuts(s) ==
  LET cut[p \in 0 .. Len(s)] ==
        \/ p = 0
        \/ p >= 1 /\ s[p] # ESC /\ cut[p - 1]
        \/ p >= 2 /\ s[p - 1] = ESC /\ cut[p - 2]
  IN  {p \in 0 .. Len(s) : cut[p]}

ASSUME MCAssumption ==
  \A d \in MCDecoders : \A s \in MCInputs(d) : s \in Seq(Nat) /\ CutAt(d.symbol, s, MCCuts(s))

MCSizes == {0, 1, 4, 12, 14, 20}
================================================================================
