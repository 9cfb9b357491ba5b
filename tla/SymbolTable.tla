------------------------------ MODULE SymbolTable ------------------------------
(***************************************************************************)
(* The FSST symbol table (libfsst.hpp, struct SymbolTable) as a value and  *)
(* the operations on it.  A table is a record; every operator here is a    *)
(* pure function from tables to tables, so that a specification can keep   *)
(* one table (SymbolTableLife), two (the search for the best table), or a  *)
(* finished one (CompressBulk).                                            *)
(*                                                                         *)
(* A symbol is the sequence of its bytes.  A code is a number: the codes   *)
(* below CodeBase are the pseudo codes of escaped bytes, the code          *)
(* CodeBase + i is the i-th symbol that was added (i = 0, 1, ...).         *)
(* Finalize renumbers the symbols from 0.                                  *)
(***************************************************************************)
EXTENDS Integers, Sequences, FiniteSets, SequencesExt

CONSTANTS
  Byte,        \* the byte values that occur
  CodeBase,    \* FSST_CODE_BASE: the number of byte values, 256
  MaxLength,   \* Symbol::maxLength: the longest symbol, 8
  Bucket,      \* the positions of hashTab
  Hash(_)      \* FSST_HASH of three bytes, reduced to a position of hashTab

ASSUME TableAssumption ==
  /\ CodeBase \in Nat \ {0, 1}
  /\ Byte \subseteq 0 .. CodeBase - 1
  /\ 0 \in Byte
  /\ MaxLength \in Nat \ {0, 1, 2}
  /\ \A key \in [1 .. 3 -> Byte] : Hash(key) \in Bucket

MaxSymbols == CodeBase - 1         \* codes fit one byte and 255 is the escape
ESC        == CodeBase - 1         \* FSST_ESC, the byte written for an escape
CODE_MASK  == 2 * CodeBase - 1     \* FSST_CODE_MASK; its low byte is ESC
CODE_MAX   == 2 * CodeBase

Symbol == UNION { [1 .. n -> Byte] : n \in 1 .. MaxLength }

(* While the table is built the codes below CodeBase are the escaped bytes. *)
isEscapeCode(code) == code < CodeBase

(* In a finished table: the byte a code is written as, (u8) code, and      *)
(* (code & FSST_CODE_BASE) >> 8, which is 1 for the code of an escape.     *)
CodeByte(code)  == code % CodeBase
EscapeBit(code) == code \div CodeBase

(* Symbol::hash looks at three bytes of the zero-padded 8-byte word.       *)
Key(s) == [i \in 1 .. 3 |-> IF i <= Len(s) THEN s[i] ELSE 0]
BucketOf(s) == Hash(Key(s))

First2(s) == <<s[1], s[2]>>

FreeSlot == [str |-> <<>>, code |-> CODE_MASK]

(***************************************************************************)
(* The constructor: every byte is an escape, nothing is in the hash table. *)
(***************************************************************************)
EmptyTable(terminator, zeroTerminated) ==
  [ byteCodes      |-> [b \in Byte |-> b],
    shortCodes     |-> [p \in Byte \X Byte |-> [code |-> p[1], len |-> 1]],
    hashTab        |-> [k \in Bucket |-> FreeSlot],
    symbols        |-> <<>>,
    lenHisto       |-> [l \in 1 .. MaxLength |-> 0],
    suffixLim      |-> CODE_MAX,
    terminator     |-> terminator,
    zeroTerminated |-> zeroTerminated ]

NSymbols(t) == Len(t.symbols)
ZT(t) == IF t.zeroTerminated THEN 1 ELSE 0

(***************************************************************************)
(* add: a symbol of three bytes or more whose bucket is taken is refused   *)
(* and nothing changes.                                                    *)
(***************************************************************************)
Refused(t, s) == Len(s) >= 3 /\ t.hashTab[BucketOf(s)] # FreeSlot

AddSymbol(t, s) ==
  LET code == CodeBase + NSymbols(t)
  IN  IF Refused(t, s) THEN t
      ELSE [ byteCodes  |-> IF Len(s) = 1 THEN [t.byteCodes EXCEPT ![s[1]] = code]
                            ELSE t.byteCodes,
             shortCodes |-> IF Len(s) = 2
                              THEN [t.shortCodes EXCEPT ![First2(s)] = [code |-> code, len |-> 2]]
                              ELSE t.shortCodes,
             hashTab    |-> IF Len(s) >= 3
                              THEN [t.hashTab EXCEPT ![BucketOf(s)] = [str |-> s, code |-> code]]
                              ELSE t.hashTab,
             symbols    |-> Append(t.symbols, s),
             lenHisto   |-> [t.lenHisto EXCEPT ![Len(s)] = t.lenHisto[Len(s)] + 1],
             suffixLim  |-> t.suffixLim,
             terminator |-> t.terminator,
             zeroTerminated |-> t.zeroTerminated ]

(* Mutant of ClearTable: the hash table keeps its entries.                 *)
ClearTable_keepsHash(t) ==
  [EmptyTable(t.terminator, t.zeroTerminated) EXCEPT
     !.hashTab = t.hashTab, !.suffixLim = t.suffixLim]

(***************************************************************************)
(* clear: only the entries of the table's own symbols are erased.          *)
(***************************************************************************)
ClearTable(t) ==
  LET own == Range(t.symbols)
  IN  [ byteCodes  |-> [b \in Byte |-> IF <<b>> \in own THEN b ELSE t.byteCodes[b]],
        shortCodes |-> [p \in Byte \X Byte |->
                          IF p \in own THEN [code |-> p[1], len |-> 1]
                                       ELSE t.shortCodes[p]],
        hashTab    |-> [k \in Bucket |->
                          IF \E s \in own : Len(s) >= 3 /\ BucketOf(s) = k
                            THEN FreeSlot ELSE t.hashTab[k]],
        symbols    |-> <<>>,
        lenHisto   |-> [l \in 1 .. MaxLength |-> 0],
        suffixLim  |-> t.suffixLim,
        terminator |-> t.terminator,
        zeroTerminated |-> t.zeroTerminated ]

(* Mutant of FindLongestSymbol: the two-byte codes are tried first.        *)
FindLongestSymbol_shortFirst(t, s) ==
  LET slot == t.hashTab[BucketOf(s)]
  IN  IF Len(s) >= 2 /\ ~ isEscapeCode(t.shortCodes[First2(s)].code)
        THEN t.shortCodes[First2(s)].code
      ELSE IF slot # FreeSlot /\ IsPrefix(slot.str, s) THEN slot.code
        ELSE t.byteCodes[s[1]]

(***************************************************************************)
(* findLongestSymbol on a string of 1 .. MaxLength bytes: the hash table,  *)
(* then the two-byte codes, then the one-byte codes.  The comparison of    *)
(* the icl fields lets a hash entry match only if it is not longer than    *)
(* the string.                                                             *)
(***************************************************************************)
FindLongestSymbol(t, s) ==
  LET slot == t.hashTab[BucketOf(s)]
  IN  IF slot # FreeSlot /\ IsPrefix(slot.str, s) THEN slot.code
      ELSE IF Len(s) >= 2 /\ ~ isEscapeCode(t.shortCodes[First2(s)].code)
        THEN t.shortCodes[First2(s)].code
        ELSE t.byteCodes[s[1]]

(* The bytes that a code of a table under construction stands for.         *)
SymbolOf(t, code) ==
  IF isEscapeCode(code) THEN <<code>> ELSE t.symbols[code - CodeBase + 1]

(***************************************************************************)
(* finalize.  The new code of each symbol: symbol 0 keeps its place when   *)
(* strings are zero-terminated; then the two-byte symbols (the ones no     *)
(* longer symbol starts with from the front, the others from the back of   *)
(* their group), then lengths 3, 4, ..., and the one-byte symbols last.    *)
(***************************************************************************)
ByteLim(t) == NSymbols(t) - (t.lenHisto[1] - ZT(t))

GroupStart(t, len) ==
  IF len = 1 THEN ByteLim(t)
             ELSE ZT(t) + SumFunctionOnSet(t.lenHisto, 2 .. len - 1)

(* Mutant: a symbol counts as longer than itself.                          *)
HasLonger_itself(t, i) ==
  \E k \in DOMAIN t.symbols :
    Len(t.symbols[k]) > 1 /\ First2(t.symbols[k]) = First2(t.symbols[i])

HasLonger(t, i) ==
  \E k \in DOMAIN t.symbols \ {i} :
    Len(t.symbols[k]) > 1 /\ First2(t.symbols[k]) = First2(t.symbols[i])

(* The two-byte codes that are given out from the back of their group, for *)
(* the n-th such symbol; mutant: j-- instead of --j.                       *)
FromBack_late(t, n)  == GroupStart(t, 3) - n
FromBack(t, n)       == GroupStart(t, 3) - 1 - n

NewCode(t) ==
  LET moved      == ZT(t) + 1 .. NSymbols(t)
      ofLen(len) == {i \in moved : Len(t.symbols[i]) = len}
      longer     == {i \in ofLen(2) : HasLonger(t, i)}
      rank(i, S) == Cardinality({k \in S : k < i})
  IN  [i \in DOMAIN t.symbols |->
        IF i \notin moved THEN 0
        ELSE IF i \in longer THEN FromBack(t, rank(i, longer))
        ELSE LET len == Len(t.symbols[i])
             IN  GroupStart(t, len) + rank(i, ofLen(len) \ longer)]

(* symbols[newCode[i]] = symbols[256+i] for each i; a place nobody is      *)
(* moved to still holds its pseudo symbol.                                 *)
MoveSymbols(t, newCode) ==
  [c \in DOMAIN t.symbols |->
     LET from == {i \in DOMAIN t.symbols : newCode[i] = c - 1}
     IN  IF from = {} THEN <<c - 1>>
         ELSE t.symbols[CHOOSE i \in from : \A k \in from : k <= i]]

FinalizeTable(t) ==
  LET newCode == NewCode(t)
      of(code) == newCode[code - CodeBase + 1]
      symbols  == MoveSymbols(t, newCode)
      byteCodes == [b \in Byte |->
                      IF isEscapeCode(t.byteCodes[b]) THEN CODE_MASK
                      ELSE of(t.byteCodes[b])]
  IN  [t EXCEPT
        !.symbols    = symbols,
        !.byteCodes  = byteCodes,
        !.shortCodes = [p \in Byte \X Byte |->
                          IF isEscapeCode(t.shortCodes[p].code)
                            THEN [code |-> byteCodes[p[1]], len |-> 1]
                            ELSE [code |-> of(t.shortCodes[p].code),
                                  len  |-> t.shortCodes[p].len]],
        !.hashTab    = [k \in Bucket |->
                          IF t.hashTab[k] = FreeSlot THEN FreeSlot
                          ELSE LET c == of(t.hashTab[k].code)
                               IN  [str |-> symbols[c + 1], code |-> c]],
        !.suffixLim  = ZT(t) + Cardinality({i \in ZT(t) + 1 .. NSymbols(t) :
                                  Len(t.symbols[i]) = 2 /\ ~ HasLonger(t, i)})]

(***************************************************************************)
(* The lookup in a finished table that every compression loop makes: the   *)
(* word is the next MaxLength bytes of the buffer, whatever they are.  It  *)
(* yields the code and the number of bytes it stands for.                  *)
(***************************************************************************)
HashMatch(t, word) ==
  LET slot == t.hashTab[BucketOf(word)]
  IN  slot # FreeSlot /\ IsPrefix(slot.str, word)

FinalLookup(t, word) ==
  IF HashMatch(t, word)
    THEN LET slot == t.hashTab[BucketOf(word)]
         IN  [code |-> slot.code, len |-> Len(slot.str)]
    ELSE t.shortCodes[First2(word)]

================================================================================
