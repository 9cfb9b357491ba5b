--------------------------- MODULE BuildSymbolMap12 ----------------------------
(***************************************************************************)
(* The sample and the search for the symbol map of the 12-bit variant      *)
(* (libfsst12.cpp, makeSample and buildSymbolMap).  Whole lines are drawn, *)
(* in passes over the batch; of the last one the front may be skipped.  In *)
(* four rounds the map so far compresses a part of the sample, and the     *)
(* next is made of the symbols and pairs it used; the map of the round     *)
(* that gained most is taken as it is.                                     *)
(***************************************************************************)
EXTENDS SymbolMap12, BagsExt, SplitCounters

CONSTANTS
  SampleTarget,    \* FSST_SAMPLETARGET, 2^17
  High1Base,       \* the values of a high part of count1, 256
  LongLine,        \* a skipped line longer than this is shortened, 500
  Lines,           \* the batches of strings
  Rnd128(_, _)     \* of a place in the sample and a fraction, 1 .. 128

VARIABLES
  buildPc,           \* "draw", "count", "add", "built"
  strIn,             \* the strings
  line, prob,        \* makeSample: the next line, and the probability, of 256
  sample,            \* the numbers of the sampled lines
  round, st, queue,  \* buildSymbolMap
  bestMap, bestGain,
  slots,             \* what the array symbols of st was left with by clear
  overflown          \* what overflown pairs of codes read like (history)

SampleMaxSize == 2 * SampleTarget
Size(lines) == FoldLeft(LAMBDA n, l : n + Len(strIn[l]), 0, lines)
Total == Size([l \in DOMAIN strIn |-> l])

Target == IF Total > SampleTarget THEN SampleTarget ELSE Total
FirstProb ==
  IF Total > SampleTarget
    THEN Max({4, (256 * SampleTarget) \div Total})
    ELSE 256

search == <<round, st, queue, bestMap, bestGain, slots, overflown>>

Init ==
  /\ buildPc = "draw"
  /\ strIn \in Lines
  /\ line = 1 /\ prob = FirstProb
  /\ sample = <<>>
  /\ round = 1 /\ st = EmptyMap /\ queue = {}
  /\ bestMap = EmptyMap /\ bestGain = - SampleMaxSize
  /\ slots = <<>> /\ overflown = {}

(* Nothing, where another program runs.                                    *)
Idle ==
  /\ buildPc = "off"
  /\ strIn = <<>> /\ line = 0 /\ prob = 0 /\ sample = <<>>
  /\ round = 0 /\ st = EmptyMap /\ queue = {}
  /\ bestMap = EmptyMap /\ bestGain = 0
  /\ slots = <<>> /\ overflown = {}

(* Enough is drawn.                                                        *)
Drawn(lines) == Size(lines) >= Target

Draw ==
  /\ buildPc = "draw"
  /\ line <= Len(strIn)
  /\ sample' = Append(sample, line)
  /\ buildPc' = IF Drawn(sample') THEN "count" ELSE "draw"
  /\ line' = line + 1
  /\ UNCHANGED <<strIn, prob, search>>

Pass ==
  /\ buildPc = "draw"
  /\ line <= Len(strIn)
  /\ prob < 256
  /\ line' = line + 1
  /\ UNCHANGED <<buildPc, strIn, prob, sample, search>>

NextPass ==
  /\ buildPc = "draw"
  /\ line > Len(strIn)
  /\ line' = 1
  /\ prob' = 4 * prob
  /\ UNCHANGED <<buildPc, strIn, sample, search>>

--------------------------------------------------------------------------------
SampleFrac(r) == <<14, 52, 90, 128>>[r]

(* The bytes at the front of the last line that are not looked at.         *)
Skip == Max({0, Size(sample) - SampleMaxSize})

(* What a round compresses of each line of the sample.                     *)
Part(i) ==
  LET l == strIn[sample[i]]
      rest == Len(l) - Skip
      frac == SampleFrac(round)
  IN  IF Skip > 0 /\ i = Len(sample)
        THEN SubSeq(l, Skip + 1, Skip + (IF rest > LongLine THEN (rest * frac) \div 128 ELSE rest))
        ELSE IF frac < 128 /\ Rnd128(i, frac) > frac THEN <<>> ELSE l

Codes(map, s) ==
  LET from[p \in 1 .. Len(s) + 1] ==
        IF p > Len(s) THEN <<>>
        ELSE LET found == FindExpansion(map, SubSeq(s, p, Min({p + MaxLength - 1, Len(s)})))
             IN  <<found.code>> \o from[p + found.len]
  IN  from[1]

(* Twice the bytes saved; the first code of a line is not counted.         *)
GainOf(map, codes) ==
  IF codes = <<>> THEN 0
  ELSE FoldLeft(LAMBDA g, c : g + 2 * Len(SymbolOf(map, c)) - 3, 0, Tail(codes))

(* How often the codes, and the pairs of them, occur.                      *)
BagOf(seq) == [x \in Range(seq) |-> Cardinality({i \in DOMAIN seq : seq[i] = x})]
Count1(codes) == BagOf(codes)
Count2(codes) == BagOf([i \in 1 .. Len(codes) - 1 |-> <<codes[i], codes[i + 1]>>])

Total1(bags) == FoldLeft(LAMBDA b, x : b (+) x, EmptyBag, bags)

(* What is read of the 16 bits of a counter of count1: one that overflows  *)
(* loses no other but its own count.                                       *)
Count1Read(counts) ==
  LET high(p) == HighIncs(counts[p]) % High1Base
  IN  [p \in {q \in DOMAIN counts : high(q) # 0} |-> Combine(high(p), counts[p] % LowBase)]

(* Mutant: the second symbol comes first.                                  *)
Concat_swapped(s1, s2) == SubSeq(s2 \o s1, 1, Min({MaxLength, Len(s1) + Len(s2)}))
Concat(s1, s2)         == SubSeq(s1 \o s2, 1, Min({MaxLength, Len(s1) + Len(s2)}))

(* The symbol in the slot of a code, which is that of an earlier map if    *)
(* the map has no such code, or none: of held, the slots in use and behind.*)
InSlot(held, code) ==
  IF code < CodeBase THEN <<code>>
  ELSE IF code - CodeBase < Len(held) THEN held[code - CodeBase + 1] ELSE <<0>>

(* The symbols of two bytes or more that were used, and the pairs.  The    *)
(* code behind the last symbol is met only if a pair that ends with the    *)
(* last symbol has overflown so far that it reads zero.                    *)
Candidates(map, held, c1, c2) ==
  LET singles == { [code |-> <<p>>, symbol |-> SymbolOf(map, p), count |-> c1[p]] :
                     p \in {q \in DOMAIN c1 : Len(SymbolOf(map, q)) > 1} }
      joined  == { q \in DOMAIN c2 :
                     /\ q[1] \in DOMAIN c1
                     /\ Len(SymbolOf(map, q[1])) < MaxLength
                     /\ q[2] = SymbolCount(map) => EvenBefore(q) \notin DOMAIN c2 }
      pairs   == { [code |-> p, symbol |-> Concat(SymbolOf(map, p[1]), InSlot(held, p[2])), count |-> c2[p]] :
                     p \in joined }
      all     == singles \cup pairs
  IN  { [symbol |-> s, gain |-> MapThenSumSet(LAMBDA x : Len(s) * x.count, {x \in all : x.symbol = s})]
        : s \in {x.symbol : x \in all} }

(* compressCount, the choice of the best map, and makeMap up to clear.     *)
CompressCount ==
  /\ buildPc = "count"
  /\ LET codes == [i \in DOMAIN sample |-> Codes(st, Part(i))]
         gain  == FoldLeft(LAMBDA g, c : g + GainOf(st, c), 0, codes)
         c1    == Total1([i \in DOMAIN codes |-> Count1(codes[i])])
         c2    == IF SampleFrac(round) = 128 THEN EmptyBag
                  ELSE Total1([i \in DOMAIN codes |-> Count2(codes[i])])
         held  == st.symbols \o SubSeq(slots, Len(st.symbols) + 1, Len(slots))
     IN  /\ overflown' = overflown \cup
              { Concat(SymbolOf(st, p[1]), InSlot(held, p[2] + 1)) :
                  p \in {q \in DOMAIN c2 : q[2] % 2 = 0 /\ c2[q] > PairLimit} }
         /\ IF gain >= bestGain
              THEN bestMap' = st /\ bestGain' = gain
              ELSE UNCHANGED <<bestMap, bestGain>>
         /\ IF SampleFrac(round) = 128
              THEN buildPc' = "built" /\ slots' = <<>> /\ UNCHANGED <<st, queue>>
              ELSE /\ buildPc' = "add"
                   /\ queue' = Candidates(st, held, Count1Read(c1), Count2Read(c2))
                   /\ st' = EmptyMap /\ slots' = held
  /\ UNCHANGED <<strIn, line, prob, sample, round>>

Wanted == SymbolCount(st) < CodeMax /\ queue # {}

AddBest ==
  /\ buildPc = "add"
  /\ Wanted
  /\ \E q \in queue :
       /\ \A other \in queue : other.gain <= q.gain
       /\ queue' = queue \ {q}
       /\ st' = AddSymbol(st, q.symbol)
  /\ UNCHANGED <<buildPc, strIn, line, prob, sample, round, bestMap, bestGain, slots, overflown>>

NextRound ==
  /\ buildPc = "add"
  /\ ~ Wanted
  /\ round' = round + 1
  /\ buildPc' = "count"
  /\ UNCHANGED <<strIn, line, prob, sample, st, queue, bestMap, bestGain, slots, overflown>>

Next == Draw \/ Pass \/ NextPass \/ CompressCount \/ AddBest \/ NextRound

--------------------------------------------------------------------------------
(* The sample is not empty, it holds what was asked for, and when the      *)
(* front of a line is skipped (libfsst12.cpp:324) there is more of it than *)
(* that, and what is left of the sample is of the largest size.            *)
SampleInside ==
  buildPc \in {"count", "add", "built"} =>
    /\ Size(sample) >= Target
    /\ Size(Front(sample)) < Target
    /\ Skip > 0 => /\ Skip < Len(strIn[Last(sample)])
                   /\ Size(sample) - Skip = SampleMaxSize

(* Every symbol of a map is a piece of a line: the counters and the        *)
(* symbols they are counters of are those of one round.  The exception is  *)
(* a pair that occurred more often than its counter can say, and overflows *)
(* into its neighbour (libfsst12.hpp:265).  The map that is taken is that  *)
(* of a round, and so may hold such a symbol.                              *)
Occurs(s) ==
  \E l \in DOMAIN strIn : \E k \in 0 .. Len(strIn[l]) - Len(s) :
    s = SubSeq(strIn[l], k + 1, k + Len(s))

SymbolsOccur ==
  \A s \in Range(st.symbols) \cup Range(bestMap.symbols) : Occurs(s) \/ s \in overflown
================================================================================
