---------------------------- MODULE SymbolTableLife ----------------------------
(***************************************************************************)
(* The life of one symbol table: filled by add, emptied by clear between   *)
(* the rounds of the search, finished once by finalize.  The client is     *)
(* makeTable (libfsst.cpp), which adds each candidate at most once, the    *)
(* terminator first, and no longer symbol that contains the terminator, as *)
(* far as its comparison of a char with the terminator can tell.           *)
(***************************************************************************)
EXTENDS Serialization

CONSTANT CharIsSigned   \* whether char is a signed type on the platform

ASSUME CharAssumption == CharIsSigned \in BOOLEAN

VARIABLES
  table,     \* the SymbolTable
  phase,     \* "building" or "final"
  built      \* the table that finalize was applied to (history)

vars == <<table, phase, built>>

(* A byte read as a char (Symbol::val.str).  The terminator is compared as *)
(* an unsigned number.                                                     *)
CharValue(b) ==
  IF CharIsSigned /\ b >= CodeBase \div 2 THEN b - CodeBase ELSE b

IsTerminator(t, b) == CharValue(b) = t.terminator

(* What makeTable may insert next.                                         *)
Candidate(t, s) ==
  /\ s \notin Range(t.symbols)
  /\ NSymbols(t) = 0 => s = <<t.terminator>>
  /\ Len(s) >= 2 => \A i \in 1 .. Len(s) : ~ IsTerminator(t, s[i])

Init ==
  /\ \E terminator \in Byte, zeroTerminated \in BOOLEAN :
       /\ zeroTerminated => terminator = 0
       /\ table = EmptyTable(terminator, zeroTerminated)
  /\ phase = "building"
  /\ built = table

Add(s) ==
  /\ phase = "building"
  /\ NSymbols(table) < MaxSymbols
  /\ Candidate(table, s)
  /\ table' = AddSymbol(table, s)
  /\ built' = table'
  /\ UNCHANGED phase

Clear ==
  /\ phase = "building"
  /\ table' = ClearTable(table)
  /\ built' = table'
  /\ UNCHANGED phase

Finalize ==
  /\ phase = "building"
  /\ NSymbols(table) > 0
  /\ table' = FinalizeTable(table)
  /\ phase' = "final"
  /\ UNCHANGED built

Next ==
  \/ \E s \in Symbol : Add(s)
  \/ Clear
  \/ Finalize

Spec == Init /\ [][Next]_vars

--------------------------------------------------------------------------------
(* findLongestSymbol (libfsst.hpp:255) tries one bucket, one pair and one  *)
(* byte, and yet what it returns is a prefix of the string and no symbol   *)
(* of the table that is a prefix of the string is longer.                  *)
LongestMatch ==
  phase = "building" =>
    \A s \in Symbol :
      LET match == SymbolOf(table, FindLongestSymbol(table, s))
      IN  /\ IsPrefix(match, s)
          /\ \A x \in Range(table.symbols) :
               IsPrefix(x, s) => Len(x) <= Len(match)

(* clear (libfsst.hpp:214) erases "with minimal effort", only what the     *)
(* table's own symbols occupy, and nothing of the round before survives.   *)
ClearErasesAll ==
  phase = "building" /\ NSymbols(table) = 0 =>
    table = EmptyTable(table.terminator, table.zeroTerminated)

(* No multi-byte symbol contains the terminator byte (the comments at      *)
(* libfsst.cpp:192 and libfsst.cpp:202), which a chunk's end relies on.    *)
NoTerminatorInside ==
  \A s \in Range(built.symbols) :
    Len(s) >= 2 => \A i \in 1 .. Len(s) : s[i] # built.terminator

(* finalize (libfsst.hpp:297) renumbers every code and folds byteCodes     *)
(* into shortCodes.  The lookup of the compression loops reads a word of   *)
(* MaxLength bytes, of which only the first n may belong to the string:    *)
(* behind them lie the terminator and what an earlier chunk left in the    *)
(* buffer.  It still finds what findLongestSymbol found for the n bytes.   *)
FinalizePreserves ==
  phase = "final" =>
    \A n \in 1 .. MaxLength : \A word \in [1 .. MaxLength -> Byte] :
      (n < MaxLength => word[n + 1] = table.terminator) =>
        LET found == FinalLookup(table, word)
            match == SymbolOf(built, FindLongestSymbol(built, SubSeq(word, 1, n)))
        IN  /\ found.len = Len(match)
            /\ IF EscapeBit(found.code) = 1
                 THEN /\ CodeByte(found.code) = ESC
                      /\ match = <<word[1]>> /\ match \notin Range(table.symbols)
                 ELSE table.symbols[found.code + 1] = match

(* The shortcuts of compressBulk rest on the order finalize gives the      *)
(* codes: below suffixLim no longer symbol shares the first two bytes,     *)
(* from there up to the three-byte codes one does, and below byteLim no    *)
(* symbol has one byte (but symbol 0 of a zero-terminated table).          *)
CodeLayout ==
  phase = "final" =>
    \A c \in ZT(table) .. NSymbols(table) - 1 :
      LET s == table.symbols[c + 1]
          longer == \E x \in Range(table.symbols) :
                      Len(x) > 2 /\ Len(s) >= 2 /\ First2(x) = First2(s)
      IN  /\ c < table.suffixLim <=> Len(s) = 2 /\ ~ longer
          /\ c < ByteLim(table) <=> Len(s) > 1
          /\ c + 1 < ByteLim(table) => Len(s) <= Len(table.symbols[c + 2])
          /\ ZT(table) = 1 => table.symbols[1] = <<0>>

(* What the importer rebuilds from the header alone (libfsst.cpp:558) is   *)
(* the compressor's own map from codes to symbols, it reads exactly the    *)
(* bytes that were written, and every code the compressor cannot emit is   *)
(* filled with the text "corrupt".                                         *)
ImportAgrees ==
  phase = "final" =>
    LET buf     == ExportTable(table)
        decoder == ImportTable(buf)
    IN  /\ \A code \in 0 .. ESC - 1 :
             decoder[code].symbol = IF code < NSymbols(table)
                                      THEN table.symbols[code + 1] ELSE Corrupt
        /\ \A code \in 0 .. NSymbols(table) - 1 :
             decoder[code].len = Len(table.symbols[code + 1])
        /\ ImportedBytes(buf) = Len(buf.bytes)
================================================================================
