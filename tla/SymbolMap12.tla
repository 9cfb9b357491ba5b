------------------------------ MODULE SymbolMap12 ------------------------------
(***************************************************************************)
(* The symbol map of the 12-bit variant (libfsst12.hpp, struct SymbolMap)  *)
(* as a value, with its lookup and its serialized form.  Codes below       *)
(* CodeBase are the single bytes, so there is no escape; the code          *)
(* CodeBase + i is the i-th longer symbol.  A code is one byte and a half. *)
(***************************************************************************)
EXTENDS Integers, Sequences, FiniteSets, SequencesExt

CONSTANTS
  CodeBase,    \* the number of byte values, 256
  CodeMax,     \* FSST_CODE_MAX, the number of codes, 4096
  MaxLength,   \* Symbol::maxLength, 8
  Bucket,      \* the positions of hashTab
  Hash(_)      \* FSST_HASH of four bytes, reduced to a position of hashTab

Byte == 0 .. CodeBase - 1

ASSUME MapAssumption ==
  /\ CodeBase \in Nat \ {0, 1}
  /\ CodeMax \in Nat /\ CodeMax * CodeMax = CodeBase * CodeBase * CodeBase
  /\ MaxLength \in Nat \ 0 .. 4
  /\ \A key \in [1 .. 4 -> Byte] : Hash(key) \in Bucket

(* Symbol::hash is of the first FOUR bytes, zeros behind a short symbol.   *)
Key(s) == [i \in 1 .. 4 |-> IF i <= Len(s) THEN s[i] ELSE 0]
BucketOf(s) == Hash(Key(s))

FreeSlot == [str |-> <<>>, code |-> CodeMax - 1]

EmptyMap ==
  [ shortCodes |-> [p \in Byte \X Byte |-> [code |-> p[1], len |-> 1]],
    hashTab    |-> [k \in Bucket |-> FreeSlot],
    symbols    |-> <<>>,
    lenHisto   |-> [l \in 1 .. MaxLength |-> IF l = 1 THEN CodeBase ELSE 0] ]

SymbolCount(map) == CodeBase + Len(map.symbols)

SymbolOf(map, code) ==
  IF code < CodeBase THEN <<code>> ELSE map.symbols[code - CodeBase + 1]

(* add, of a symbol of two bytes or more; with hashInsert.                 *)
Refused(map, s) == Len(s) > 2 /\ map.hashTab[BucketOf(s)] # FreeSlot

AddSymbol(map, s) ==
  LET code == SymbolCount(map)
  IN  IF Refused(map, s) THEN map
      ELSE [ shortCodes |-> IF Len(s) = 2
                              THEN [map.shortCodes EXCEPT ![s] = [code |-> code, len |-> 2]]
                              ELSE map.shortCodes,
             hashTab    |-> IF Len(s) > 2
                              THEN [map.hashTab EXCEPT ![BucketOf(s)] = [str |-> s, code |-> code]]
                              ELSE map.hashTab,
             symbols    |-> Append(map.symbols, s),
             lenHisto   |-> [map.lenHisto EXCEPT ![Len(s)] = map.lenHisto[Len(s)] + 1] ]

(* hashFind; a slot longer than the string does not match.                 *)
HashFinds(map, s) ==
  LET slot == map.hashTab[BucketOf(s)]
  IN  slot # FreeSlot /\ IsPrefix(slot.str, s)

(* findExpansion, of a string of at most MaxLength bytes.                  *)
FindExpansion(map, s) ==
  IF Len(s) = 1 THEN [code |-> s[1], len |-> 1]
  ELSE IF HashFinds(map, s)
    THEN [code |-> map.hashTab[BucketOf(s)].code, len |-> Len(map.hashTab[BucketOf(s)].str)]
    ELSE map.shortCodes[<<s[1], s[2]>>]

(* fsst_export: each symbol behind its length, the single bytes too.       *)
Export(map) ==
  [ lenHisto |-> map.lenHisto,
    bytes    |-> FlattenSeq([i \in 1 .. SymbolCount(map) |->
                               <<Len(SymbolOf(map, i - 1))>> \o SymbolOf(map, i - 1)]) ]

Corrupt == [len |-> MaxLength, symbol |-> <<"corrupt">>]

(* fsst_import: the symbols are read one after the other.  Mutant: the     *)
(* bytes of the lengths are not counted.                                   *)
ImportedTo_unpaid(buf) ==
  LET pos[i \in Nat] == IF i = 0 THEN 1 ELSE pos[i - 1] + buf.bytes[pos[i - 1]]
  IN  pos
ImportedTo(buf) ==
  LET pos[i \in Nat] == IF i = 0 THEN 1 ELSE pos[i - 1] + 1 + buf.bytes[pos[i - 1]]
  IN  pos

Import(buf) ==
  LET count == SumFunctionOnSet(buf.lenHisto, 1 .. MaxLength)
  IN  [code \in 0 .. CodeMax - 1 |->
         IF code >= count THEN Corrupt
         ELSE LET pos == ImportedTo(buf)[code]
              IN  [len |-> buf.bytes[pos], symbol |-> SubSeq(buf.bytes, pos + 1, pos + buf.bytes[pos])]]
================================================================================
