---------------------------------- MODULE Vcw ----------------------------------
(***************************************************************************)
(* The second version of FSST (paper/vcw.cpp).  255 codes stand for        *)
(* symbols of one to eight bytes; other bytes are escaped.  Longer symbols *)
(* are found through an index by their first two bytes.  In several rounds *)
(* the map so far compresses the sample, and the next one is made of the   *)
(* most profitable of its symbols and pairs of them; the best is kept.     *)
(***************************************************************************)
EXTENDS Integers, Sequences, FiniteSets, SequencesExt, BagsExt

CONSTANTS
  CodeBase,      \* the number of byte values, 256
  MaxLength,     \* Symbol::maxLength, 8
  Targets,       \* how many symbols to take in each round, at most CodeBase - 1
  ThresholdUnit, \* the bytes of a sample per pair that does not count, 4096
  CounterRange,  \* a Counter is below this, 2^16
  SampleLimit,   \* the bytes after which the sample is large enough
  Texts,         \* the texts, sequences of lines
  Leftover,         \* what a slot may contain that was never filled
  Behind         \* what may lie in memory behind the text

Byte == 0 .. CodeBase - 1
Escape == CodeBase - 1

(* Every line ends with the newline, which occurs nowhere else; and no     *)
(* line begins with a zero byte.  In bulk mode a sample with a zero byte   *)
(* behind a newline may yield a symbol with both, which isPrefixOf         *)
(* (vcw.cpp:75) also finds in the newline at the end of the sample: cur    *)
(* passes end there, and the loop that waits for cur==end (vcw.cpp:261)    *)
(* leaves the sample.  What it does then is not modelled.                  *)
CONSTANT Newline

Admissible ==
  /\ CodeBase \in Nat \ {0, 1} /\ MaxLength \in Nat \ {0, 1}
  /\ Targets \in Seq(1 .. CodeBase - 1) /\ ThresholdUnit \in Nat \ {0}
  /\ CounterRange \in Nat \ {0} /\ SampleLimit \in Nat
  /\ Newline \in Byte
  /\ \A t \in Texts : \A i \in DOMAIN t :
       /\ t[i] # <<>> /\ Last(t[i]) = Newline /\ Newline \notin Range(Front(t[i]))
       /\ Head(t[i]) # 0

VARIABLES
  vcwPc,       \* "sample", "count", "add", "last", "finalize", "compress"
  bulk,        \* compressBulk and not compressAdaptive
  page,        \* the lines
  taken,       \* the strings of the sample
  turn,        \* the round, from 1
  symbolMap, bestSymbols, bestSize,
  offers       \* the candidates with their gains

(* The slots 0 .. CodeBase - 1; beyond the first count they are left over. *)
EmptyMap(slot) ==
  [ slots  |-> [c \in Byte |-> slot],
    count  |-> 0,
    index1 |-> [b \in Byte |-> CodeBase + b],
    index2 |-> [f \in 0 .. CodeBase * CodeBase |-> 0] ]

isEscapeCode(code) == code >= CodeBase
SymbolOf(map, code) == IF isEscapeCode(code) THEN <<code - CodeBase>> ELSE map.slots[code]

(* The word of a symbol ends in zeros; first2 is a number.                 *)
Padded(s) == [i \in 1 .. MaxLength |-> IF i <= Len(s) THEN s[i] ELSE 0]
First2(s) == Padded(s)[1] + CodeBase * Padded(s)[2]

(* buildIndex.  Mutant: within the same two bytes the shorter come first.  *)
Precedes_shorter(s1, s2) == First2(s1) < First2(s2) \/ (First2(s1) = First2(s2) /\ Len(s1) < Len(s2))
Precedes(s1, s2)         == First2(s1) < First2(s2) \/ (First2(s1) = First2(s2) /\ Len(s1) > Len(s2))

BuildIndex(map) ==
  LET filled == [i \in 1 .. map.count |-> map.slots[i - 1]]
      isLong(s)   == Len(s) > 1
      isSingle(s) == ~ isLong(s)
      long   == SortSeq(SelectSeq(filled, isLong), Precedes)
      sorted == long \o SelectSeq(filled, isSingle)
  IN  [ slots  |-> [c \in Byte |-> IF c < map.count THEN sorted[c + 1] ELSE map.slots[c]],
        count  |-> map.count,
        index1 |-> [b \in Byte |->
                      Max({CodeBase + b : x \in {x \in {0} : \A i \in Len(long) + 1 .. map.count : sorted[i][1] # b}}
                          \cup {i - 1 : i \in {i \in Len(long) + 1 .. map.count : sorted[i][1] = b}})],
        index2 |-> [f \in 0 .. CodeBase * CodeBase |->
                      Min({i - 1 : i \in {i \in DOMAIN long : First2(long[i]) >= f}} \cup {Len(long)})] ]

(* isPrefixOf, which does not ask how long the other one is.               *)
IsPrefixOf(s, word) == s = SubSeq(word, 1, Len(s))

FindExpansion(map, s) ==
  LET first == First2(s)
      hits  == {i \in map.index2[first] .. map.index2[first + 1] - 1 : IsPrefixOf(map.slots[i], Padded(s))}
  IN  IF hits # {} THEN Min(hits) ELSE map.index1[s[1]]

(* The next symbol of a string; the codes of all of it.                    *)
Ahead(s, p) == SubSeq(s, p, Min({p + MaxLength - 1, Len(s)}))
Codes(map, s) ==
  LET from[p \in 1 .. Len(s) + 1] ==
        IF p > Len(s) THEN <<>>
        ELSE LET code == FindExpansion(map, Ahead(s, p))
             IN  <<code>> \o from[p + Len(SymbolOf(map, code))]
  IN  from[1]

--------------------------------------------------------------------------------
Size(strings) == FoldLeft(LAMBDA n, s : n + Len(s), 0, strings)
Joined(lines) == FlattenSeq(lines)

Init ==
  /\ vcwPc = "sample"
  /\ bulk \in BOOLEAN
  /\ page \in Texts
  /\ taken = <<>>
  /\ turn = 1
  /\ \E slot \in Leftover : symbolMap = EmptyMap(slot)
  /\ bestSymbols = symbolMap
  /\ bestSize = 0
  /\ offers = {}

(* Nothing, where one of the other versions runs.                          *)
Idle ==
  /\ vcwPc = "off"
  /\ bulk = FALSE /\ page = <<>> /\ taken = <<>> /\ turn = 0
  /\ symbolMap = <<>> /\ bestSymbols = <<>> /\ bestSize = 0
  /\ offers = {}

(* Lines are drawn without repetition until the sample exceeds its limit.  *)
(* compressBulk makes one string of them.                                  *)
Sample ==
  /\ vcwPc = "sample"
  /\ \E n \in 1 .. Len(page) : \E order \in {f \in [1 .. n -> 1 .. Len(page)] : IsInjective(f)} :
       LET lines == [i \in 1 .. n |-> page[order[i]]]
       IN  /\ Size(Front(lines)) <= SampleLimit
           /\ n = Len(page) \/ Size(lines) > SampleLimit
           /\ taken' = IF bulk THEN <<Joined(lines)>> ELSE lines
           /\ bestSize' = 2 * Size(lines)
  /\ vcwPc' = "count"
  /\ UNCHANGED <<bulk, page, turn, symbolMap, bestSymbols, offers>>

(* countDict: the codes, which pairs of them follow each other, the size.  *)
CodesOfSample == [i \in DOMAIN taken |-> Codes(symbolMap, taken[i])]
SizeOf(codes) == FoldLeft(LAMBDA n, c : n + (IF isEscapeCode(c) THEN 2 ELSE 1), 0, codes)
SampleCost(all) == FoldLeft(LAMBDA n, codes : n + SizeOf(codes), 0, all)

Times(seqs, x) ==
  SumFunctionOnSet([i \in DOMAIN seqs |-> Cardinality({k \in DOMAIN seqs[i] : seqs[i][k] = x})], DOMAIN seqs)
       % CounterRange
PairsOf(codes) == [k \in 1 .. Len(codes) - 1 |-> <<codes[k], codes[k + 1]>>]

KeepBest(size) ==
  IF size < bestSize
    THEN bestSymbols' = symbolMap /\ bestSize' = size
    ELSE UNCHANGED <<bestSymbols, bestSize>>

Threshold == (Size(taken) \div ThresholdUnit) % CounterRange

(* Concatenated symbols are cut at MaxLength.                              *)
Concat(s1, s2) == SubSeq(s1 \o s2, 1, Min({MaxLength, Len(s1) + Len(s2)}))

Candidates(all) ==
  LET pairs == [i \in DOMAIN all |-> PairsOf(all[i])]
      single(c) == [of |-> <<c>>, symbol |-> SymbolOf(symbolMap, c), count |-> Times(all, c)]
      joined(p) == [of |-> p, symbol |-> Concat(SymbolOf(symbolMap, p[1]), SymbolOf(symbolMap, p[2])),
                    count |-> Times(pairs, p)]
      proposed  == {x \in {single(c) : c \in UNION {Range(codes) : codes \in Range(all)}} : x.count > 0}
              \cup {x \in {joined(p) : p \in {p \in UNION {Range(ps) : ps \in Range(pairs)} :
                                                 Len(SymbolOf(symbolMap, p[1])) < MaxLength}} :
                      x.count > Threshold}
  IN  { [symbol |-> s, gain |-> MapThenSumSet(LAMBDA x : x.count * Len(s), {x \in proposed : x.symbol = s})]
        : s \in {x.symbol : x \in proposed} }

CountDict ==
  /\ vcwPc = "count"
  /\ turn <= Len(Targets)
  /\ LET all == CodesOfSample
     IN  KeepBest(SampleCost(all)) /\ offers' = Candidates(all)
  /\ symbolMap' = [symbolMap EXCEPT !.count = 0]
  /\ vcwPc' = "add"
  /\ UNCHANGED <<bulk, page, taken, turn>>

Wanted == symbolMap.count < Targets[turn] /\ offers # {}

Add ==
  /\ vcwPc = "add"
  /\ Wanted
  /\ \E q \in offers :
       /\ \A other \in offers : other.gain <= q.gain
       /\ offers' = offers \ {q}
       /\ symbolMap' = [symbolMap EXCEPT !.slots[symbolMap.count] = q.symbol, !.count = symbolMap.count + 1]
  /\ UNCHANGED <<vcwPc, bulk, page, taken, turn, bestSymbols, bestSize>>

NextRound ==
  /\ vcwPc = "add"
  /\ ~ Wanted
  /\ symbolMap' = BuildIndex(symbolMap)
  /\ turn' = turn + 1
  /\ vcwPc' = "count"
  /\ UNCHANGED <<bulk, page, taken, bestSymbols, bestSize, offers>>

CountLast ==
  /\ vcwPc = "count"
  /\ turn > Len(Targets)
  /\ KeepBest(SampleCost(CodesOfSample))
  /\ vcwPc' = IF bulk THEN "compress" ELSE "finalize"
  /\ UNCHANGED <<bulk, page, taken, turn, symbolMap, offers>>

--------------------------------------------------------------------------------
(* finalize regroups the slots by length, all but the last and the ones    *)
(* left over, too, and indexes the first count of them.                    *)
Grouped(map) ==
  LET old(len) == SelectSeq([i \in 1 .. CodeBase - 1 |-> map.slots[i - 1]], LAMBDA s : Len(s) = len)
      new      == FlattenSeq([i \in 1 .. MaxLength |-> old(MaxLength + 1 - i)])
  IN  [map EXCEPT !.slots = [c \in Byte |-> IF c < Len(new) THEN new[c + 1] ELSE map.slots[c]]]

Finalize ==
  /\ vcwPc = "finalize"
  /\ bestSymbols' = BuildIndex(Grouped(bestSymbols))
  /\ vcwPc' = "compress"
  /\ UNCHANGED <<bulk, page, taken, turn, symbolMap, bestSize, offers>>

(* compress and decompress.                                                *)
Written(map, codes) ==
  FlattenSeq([i \in DOMAIN codes |->
                IF isEscapeCode(codes[i]) THEN <<Escape>> \o SymbolOf(map, codes[i]) ELSE <<codes[i]>>])
Compress(map, s) == Written(map, Codes(map, s))

Decompress(map, bytes) ==
  LET from[i \in 1 .. Len(bytes) + 1] ==
        IF i > Len(bytes) THEN <<>>
        ELSE IF bytes[i] = Escape THEN <<bytes[i + 1]>> \o from[i + 2]
        ELSE map.slots[bytes[i]] \o from[i + 1]
  IN  from[1]

(* compressBulk: the first loop goes to the end of the text and looks at   *)
(* what lies behind it; then the end is moved by a word, and the second    *)
(* loop compresses to there.                                               *)
CompressBulk(map, s, behind) ==
  LET memory == s \o behind
      end    == IF Len(s) > MaxLength THEN Len(s) + MaxLength ELSE Len(s)
      from[p \in 1 .. Len(memory) + 1] ==
        IF p > end THEN <<>>
        ELSE LET code == FindExpansion(map, IF p <= Len(s) /\ Len(s) > MaxLength
                                              THEN SubSeq(memory, p, p + MaxLength - 1)
                                              ELSE SubSeq(memory, p, Min({p + MaxLength - 1, end})))
             IN  <<code>> \o from[p + Len(SymbolOf(map, code))]
  IN  Written(map, from[1])

Next == Sample \/ CountDict \/ Add \/ NextRound \/ CountLast \/ Finalize
--------------------------------------------------------------------------------
(* The index finds the longest symbol that the text goes on with, whatever *)
(* else has the same first bytes, and none that is longer than the rest of *)
(* the line: though vcw.cpp:75 does not compare lengths, and takes the end *)
(* of a string for zero bytes, no symbol goes on with them behind the      *)
(* newline, as long as no line of the text begins with one (Admissible).   *)
LongestFound ==
  vcwPc = "count" \/ vcwPc = "compress" =>
    LET map == IF vcwPc = "count" THEN symbolMap ELSE bestSymbols
    IN  \A l \in DOMAIN page : \A p \in DOMAIN page[l] :
          LET s == Ahead(page[l], p)
              fits(c) == IsPrefix(SymbolOf(map, c), s)
              found == FindExpansion(map, s)
          IN  /\ fits(found)
              /\ \A c \in 0 .. map.count - 1 : fits(c) => Len(SymbolOf(map, c)) <= Len(SymbolOf(map, found))
              /\ isEscapeCode(found) => \A c \in 0 .. map.count - 1 : ~ fits(c)

(* Every line, or the text at once, comes back, although finalize moves    *)
(* symbols that were left over among those in use, and although the bulk   *)
(* compressor reads on behind the text (vcw.cpp:189 and 518); of texts in  *)
(* which no zero byte follows a newline (Admissible).                      *)
RoundTrip ==
  vcwPc = "compress" =>
    IF bulk
      THEN \A behind \in Behind :
             IsPrefix(Joined(page), Decompress(bestSymbols, CompressBulk(bestSymbols, Joined(page), behind)))
      ELSE \A l \in DOMAIN page : Decompress(bestSymbols, Compress(bestSymbols, page[l])) = page[l]
================================================================================
