--------------------------- MODULE SymbolTableProof ----------------------------
(***************************************************************************)
(* Proofs about the life of a symbol table.  Until it is finished the      *)
(* lookup structures agree with the list of symbols, so that add, clear    *)
(* and findLongestSymbol keep their promises; a finished table is what     *)
(* finalize made of such a table.                                          *)
(***************************************************************************)
EXTENDS SymbolTableLife, TableTheorems

(* What holds until the table is finished.                                 *)
IInv == phase = "building" => Agrees(table) /\ HistoEmpty(table)

--------------------------------------------------------------------------------
(* While it is built.                                                      *)

(* The agreement is an inductive invariant of the table's life.            *)
THEOREM Agreement == Spec => []IInv
<1>1. Init => IInv
  BY EmptyAgrees DEF Init, IInv
<1>2. IInv /\ [Next]_vars => IInv'
  <2> SUFFICES ASSUME IInv, [Next]_vars, phase' = "building"
               PROVE  Agrees(table') /\ HistoEmpty(table')
    BY DEF IInv
  <2>1. ASSUME NEW s \in Symbol, Add(s)
        PROVE  Agrees(table') /\ HistoEmpty(table')
    <3>1. /\ Agrees(table) /\ HistoEmpty(table) /\ NSymbols(table) < MaxSymbols
          /\ s \notin Range(table.symbols) /\ table' = AddSymbol(table, s)
      BY <2>1 DEF Add, Candidate, IInv
    <3>2. Agrees(table')
      BY <3>1, AddAgrees
    <3>3. HistoEmpty(table')
      <4>1. CASE Refused(table, s)
        BY <3>1, <4>1 DEF AddSymbol
      <4>2. CASE ~ Refused(table, s)
        BY <3>1, <4>2 DEF AddSymbol, HistoEmpty, NSymbols, Agrees, Shape
      <4> QED
        BY <4>1, <4>2
    <3> QED
      BY <3>2, <3>3
  <2>2. CASE Clear
    BY <2>2, ClearAgrees, EmptyAgrees DEF Clear, IInv
  <2>3. CASE Finalize
    BY <2>3 DEF Finalize
  <2>4. CASE UNCHANGED vars
    BY <2>4 DEF vars, IInv
  <2> QED
    BY <2>1, <2>2, <2>3, <2>4 DEF Next
<1> QED
  BY <1>1, <1>2, PTL DEF Spec

(* findLongestSymbol finds the longest symbol of the table.                *)
THEOREM LongestMatchAlways == Spec => []LongestMatch
<1>1. IInv => LongestMatch
  BY AgreesLongest DEF IInv, LongestMatch
<1> QED
  BY <1>1, Agreement, PTL

(* clear erases everything.                                                *)
THEOREM ClearErasesAllAlways == Spec => []ClearErasesAll
<1>1. IInv => ClearErasesAll
  BY NoSymbolsEmpty DEF IInv, ClearErasesAll
<1> QED
  BY <1>1, Agreement, PTL

--------------------------------------------------------------------------------
(* The invariant of the table's life that the theorems rest on.            *)

(* Until it is finished a table is filled by add; a finished one is what   *)
(* finalize made of such a table.                                          *)
FInv ==
  /\ phase \in {"building", "final"}
  /\ phase = "building" => built = table
  /\ phase = "final" => NSymbols(built) > 0 /\ table = FinalizeTable(built)
  /\ Ready(built)

(* Where char is unsigned, or every byte is below 128, the comparison with *)
(* the terminator compares the bytes themselves.                           *)
PlainChars == CharIsSigned => \A b \in Byte : b < CodeBase \div 2

(* The table that finalize is given, and what it makes of it.              *)
THEOREM ReadyAlways == Spec => []FInv
<1>1. Init => FInv
  BY EmptyReady DEF Init, FInv
<1>2. FInv /\ [Next]_vars => FInv'
  <2> SUFFICES ASSUME FInv, [Next]_vars PROVE FInv'
    OBVIOUS
  <2>1. ASSUME NEW s \in Symbol, Add(s) PROVE FInv'
    <3>1. /\ phase = "building" /\ phase' = phase /\ built' = table' /\ built = table
          /\ table' = AddSymbol(table, s)
      BY <2>1 DEF Add, FInv
    <3>2. Ready(table) /\ NSymbols(table) < MaxSymbols /\ Candidate(table, s)
      BY <2>1, <3>1 DEF Add, FInv
    <3>3. Ready(table')
      BY <3>1, <3>2, AddReady DEF Candidate
    <3> QED
      BY <3>1, <3>3 DEF FInv
  <2>2. CASE Clear
    <3>1. /\ phase = "building" /\ phase' = phase /\ built' = table' /\ Ready(table)
          /\ table' = ClearTable(table)
      BY <2>2 DEF Clear, FInv
    <3>2. table' = EmptyTable(table.terminator, table.zeroTerminated)
      BY <3>1, ClearAgrees DEF Ready
    <3>3. Ready(table')
      BY <3>1, <3>2, EmptyReady DEF Ready, Terminated
    <3> QED
      BY <3>1, <3>3 DEF FInv
  <2>3. CASE Finalize
    BY <2>3 DEF Finalize, FInv
  <2>4. CASE UNCHANGED vars
    BY <2>4 DEF vars, FInv
  <2> QED
    BY <2>1, <2>2, <2>3, <2>4 DEF Next
<1> QED
  BY <1>1, <1>2, PTL DEF Spec

(* The codes of a finished table lie in the order compressBulk relies on.  *)
THEOREM CodeLayoutAlways == Spec => []CodeLayout
<1>1. FInv => CodeLayout
  BY FinalLayout DEF FInv, CodeLayout
<1> QED
  BY <1>1, ReadyAlways, PTL

(* Where no symbol reaches across a terminator, the compressor's lookup    *)
(* finds what findLongestSymbol found before finalize.                     *)
THEOREM FinalizePreservesAlways == Spec => [](NoTerminatorInside => FinalizePreserves)
<1>1. FInv => (NoTerminatorInside => FinalizePreserves)
  <2> SUFFICES ASSUME FInv, NoTerminatorInside, phase = "final",
                      NEW n \in 1 .. MaxLength, NEW word \in [1 .. MaxLength -> Byte],
                      n < MaxLength => word[n + 1] = table.terminator
               PROVE  LET found == FinalLookup(table, word)
                          match == SymbolOf(built, FindLongestSymbol(built, SubSeq(word, 1, n)))
                      IN  /\ found.len = Len(match)
                          /\ IF EscapeBit(found.code) = 1
                               THEN /\ CodeByte(found.code) = ESC
                                    /\ match = <<word[1]>> /\ match \notin Range(table.symbols)
                               ELSE table.symbols[found.code + 1] = match
    BY DEF FinalizePreserves
  <2>1. /\ Ready(built) /\ NSymbols(built) > 0 /\ table = FinalizeTable(built)
        /\ NoneAcross(built)
    BY DEF FInv, NoTerminatorInside, NoneAcross
  <2>2. n < MaxLength => word[n + 1] = built.terminator
    BY <2>1, FinalLimits
  <2>3. SameMatch(built, table, FinalLookup(table, word),
                  FindLongestSymbol(built, SubSeq(word, 1, n)), word[1])
    BY <2>1, <2>2, LookupPreserved
  <2> QED
    BY <2>3 DEF SameMatch
<1> QED
  BY <1>1, ReadyAlways, PTL

(* Where the comparison with the terminator is one of bytes, no symbol of  *)
(* two bytes or more contains it.                                          *)
THEOREM NoTerminatorInsideAlways == ASSUME PlainChars PROVE Spec => []NoTerminatorInside
<1>0. \A b \in Byte : CharValue(b) = b
  <2>1. ASSUME NEW b \in Byte PROVE CharValue(b) = b
    <3>1. CharIsSigned => ~ (b >= CodeBase \div 2)
      <4>1. \A h \in Int : b < h => ~ (b >= h)
        BY TableAssumption
      <4>2. CodeBase \div 2 \in Int
        BY TableAssumption
      <4> QED
        BY <4>1, <4>2 DEF PlainChars
    <3> QED
      BY <3>1 DEF CharValue
  <2> QED
    BY <2>1
<1>1. Init => NoTerminatorInside
  BY DEF Init, NoTerminatorInside, EmptyTable, Range
<1>2. FInv /\ NoTerminatorInside /\ [Next]_vars => NoTerminatorInside'
  <2> SUFFICES ASSUME FInv, NoTerminatorInside, [Next]_vars PROVE NoneAcross(built')
    BY DEF NoTerminatorInside, NoneAcross
  <2>0. NoneAcross(built)
    BY DEF NoTerminatorInside, NoneAcross
  <2>1. ASSUME NEW s \in Symbol, Add(s) PROVE NoneAcross(built')
    <3>1. /\ built' = AddSymbol(built, s) /\ Ready(built)
          /\ Len(s) >= 2 => \A i \in 1 .. Len(s) : ~ IsTerminator(built, s[i])
      BY <2>1 DEF Add, Candidate, FInv
    <3>2. Len(s) >= 2 => \A i \in 1 .. Len(s) : s[i] # built.terminator
      BY <3>1, <1>0, SymbolIsSeq DEF IsTerminator
    <3>3. CASE Refused(built, s)
      BY <3>1, <3>3, <2>0 DEF AddSymbol
    <3>4. CASE ~ Refused(built, s)
      <4>1. built'.symbols = Append(built.symbols, s) /\ built'.terminator = built.terminator
        BY <3>1, <3>4 DEF AddSymbol
      <4>2. built.symbols \in Seq(Symbol)
        BY <3>1 DEF Ready, Agrees, Shape
      <4>3. \A x \in Range(Append(built.symbols, s)) : x \in Range(built.symbols) \/ x = s
        BY <4>2 DEF Range
      <4> QED
        BY <4>1, <4>3, <3>2, <2>0 DEF NoneAcross
    <3> QED
      BY <3>3, <3>4
  <2>2. CASE Clear
    <3>1. built'.symbols = <<>>
      BY <2>2 DEF Clear, ClearTable
    <3> QED
      BY <3>1 DEF NoneAcross, Range
  <2>3. CASE Finalize \/ UNCHANGED vars
    BY <2>3, <2>0 DEF Finalize, vars
  <2> QED
    BY <2>1, <2>2, <2>3 DEF Next
<1> QED
  BY <1>1, <1>2, ReadyAlways, PTL DEF Spec

(* Then the compressor's lookup is always that of findLongestSymbol.       *)
THEOREM LookupAlways == ASSUME PlainChars PROVE Spec => []FinalizePreserves
BY FinalizePreservesAlways, NoTerminatorInsideAlways, PTL

(* What fsst_import reads from what fsst_export wrote is the table's own   *)
(* map from codes to symbols, whatever the table.                          *)
THEOREM ImportAgreesAlways == Spec => []ImportAgrees
<1>1. FInv => ImportAgrees
  <2> SUFFICES ASSUME FInv, phase = "final",
                      NEW buf, buf = ExportTable(table)
               PROVE  /\ \A code \in 0 .. ESC - 1 :
                           ImportTable(buf)[code].symbol = IF code < NSymbols(table)
                                                             THEN table.symbols[code + 1] ELSE Corrupt
                      /\ \A code \in 0 .. NSymbols(table) - 1 :
                           ImportTable(buf)[code].len = Len(table.symbols[code + 1])
                      /\ ImportedBytes(buf) = Len(buf.bytes)
    BY DEF ImportAgrees
  <2>1. /\ Ready(built) /\ NSymbols(built) > 0 /\ table = FinalizeTable(built)
        /\ NSymbols(table) = NSymbols(built)
    BY FinalSymbols DEF FInv
  <2>2. \A code \in 0 .. ESC - 1 :
          ImportTable(buf)[code] =
            IF code < NSymbols(built)
              THEN [len |-> Len(table.symbols[code + 1]), symbol |-> table.symbols[code + 1]]
              ELSE [len |-> MaxLength, symbol |-> Corrupt]
    BY <2>1, ImportExact
  <2>3. ImportedBytes(buf) = Len(buf.bytes)
    BY <2>1, ReadAll, BytesJoined
  <2>4. \A code \in 0 .. NSymbols(table) - 1 : code \in 0 .. ESC - 1 /\ code < NSymbols(built)
    BY <2>1, SymbolsType, TableAssumption DEF MaxSymbols, ESC
  <2>5. ASSUME NEW code \in 0 .. ESC - 1
        PROVE  ImportTable(buf)[code].symbol = IF code < NSymbols(table)
                                                 THEN table.symbols[code + 1] ELSE Corrupt
    <3> DEFINE s == table.symbols[code + 1]
               e == ImportTable(buf)[code]
    <3>1. e = IF code < NSymbols(built) THEN [len |-> Len(s), symbol |-> s]
                                        ELSE [len |-> MaxLength, symbol |-> Corrupt]
      BY <2>2, Zenon
    <3> HIDE DEF s, e
    <3>2. e.symbol = IF code < NSymbols(built) THEN s ELSE Corrupt
      BY <3>1
    <3> QED
      BY <3>2, <2>1, Zenon DEF s, e
  <2>6. ASSUME NEW code \in 0 .. NSymbols(table) - 1
        PROVE  ImportTable(buf)[code].len = Len(table.symbols[code + 1])
    <3> DEFINE s == table.symbols[code + 1]
               e == ImportTable(buf)[code]
    <3>1. code \in 0 .. ESC - 1 /\ code < NSymbols(built)
      BY <2>4
    <3>2. e = [len |-> Len(s), symbol |-> s]
      BY <2>2, <3>1, Zenon
    <3> HIDE DEF s, e
    <3>3. e.len = Len(s)
      BY <3>2
    <3> QED
      BY <3>3, Zenon DEF s, e
  <2> QED
    BY <2>3, <2>5, <2>6
<1> QED
  BY <1>1, ReadyAlways, PTL
================================================================================
