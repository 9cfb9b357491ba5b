----------------------------- MODULE Serialization -----------------------------
(***************************************************************************)
(* The header of a compressed block: fsst_export writes a finished symbol  *)
(* table, fsst_import rebuilds the decoder from it (libfsst.cpp).  Neither *)
(* writes a code: the importer counts codes up while it reads the symbols, *)
(* and learns their lengths from the histogram, in the order 2, 3, ...,    *)
(* MaxLength, 1.                                                           *)
(***************************************************************************)
EXTENDS SymbolTable

(* The filler of unused codes, the text "corrupt".                         *)
Corrupt == "corrupt"

(***************************************************************************)
(* fsst_export.  Symbol 0 of a zero-terminated table is not written.       *)
(***************************************************************************)
ExportTable(t) ==
  [ zeroTerminated |-> t.zeroTerminated,
    lenHisto       |-> t.lenHisto,
    bytes          |-> FlattenSeq(SubSeq(t.symbols, ZT(t) + 1, NSymbols(t))) ]

(***************************************************************************)
(* fsst_import.  Runs of codes: the codes of the symbols of one length are *)
(* consecutive, and RunOf is the length of the run a code falls in.        *)
(***************************************************************************)
RunLength(buf, len) ==
  IF len = 1 /\ buf.zeroTerminated THEN buf.lenHisto[1] - 1 ELSE buf.lenHisto[len]

(* Mutant of RunStart: the run of the one-byte symbols comes first.        *)
RunStart_ascending(buf, len) ==
  (IF buf.zeroTerminated THEN 1 ELSE 0)
    + SumFunctionOnSet([l \in 1 .. len - 1 |-> RunLength(buf, l)], 1 .. len - 1)

RunStart(buf, len) ==
  LET before == IF len = 1 THEN 2 .. MaxLength ELSE 2 .. len - 1
  IN  (IF buf.zeroTerminated THEN 1 ELSE 0)
        + SumFunctionOnSet([l \in before |-> RunLength(buf, l)], before)

InRun(buf, code, len) ==
  RunStart(buf, len) <= code /\ code < RunStart(buf, len) + RunLength(buf, len)

(* The number of bytes read before the symbol of a code.                   *)
ReadBefore(buf, code) ==
  LET read == [len \in 1 .. MaxLength |->
                 len * Cardinality({c \in 0 .. code - 1 : InRun(buf, c, len)})]
  IN  SumFunctionOnSet(read, 1 .. MaxLength)

(* The decoder: for each code but the escape its length and its bytes.     *)
ImportTable(buf) ==
  LET entry(code) ==
        LET run == {len \in 1 .. MaxLength : InRun(buf, code, len)}
        IN  IF code = 0 /\ buf.zeroTerminated THEN [len |-> 1, symbol |-> <<0>>]
            ELSE IF run = {} THEN [len |-> MaxLength, symbol |-> Corrupt]
            ELSE LET len == CHOOSE l \in run : TRUE
                     pos == ReadBefore(buf, code)
                 IN  [len |-> len, symbol |-> SubSeq(buf.bytes, pos + 1, pos + len)]
  IN  [code \in 0 .. ESC - 1 |-> entry(code)]

(* The number of symbol bytes the importer consumes.                       *)
ImportedBytes(buf) == ReadBefore(buf, ESC)
================================================================================
