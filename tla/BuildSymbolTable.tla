--------------------------- MODULE BuildSymbolTable ----------------------------
(***************************************************************************)
(* The search for the symbol table of a sample (libfsst.cpp,               *)
(* buildSymbolTable).  In each of five rounds the table so far compresses  *)
(* a growing part of the sample, counting its codes and pairs of them;     *)
(* from the counts makeTable builds the next one.  The table of the round  *)
(* that gained most is made once more, from the counters of that round,    *)
(* without new symbols, and finished.                                      *)
(***************************************************************************)
EXTENDS SymbolTable, MakeSample, SplitCounters

CONSTANTS
  CharIsSigned,     \* whether char is a signed type on the platform
  TerminatorCount,  \* what the counter of the terminator is set to
  Rnd128(_, _)      \* of a line and a fraction, the random number 1 .. 128

(* The counter of the terminator, set to 65535, reads 65279, which         *)
(* outweighs all that a sample can say for any other symbol: so it gets    *)
(* included.  A byte and the one that shares its high parts are codes      *)
(* both.                                                                   *)
ASSUME SearchAssumption ==
  /\ Lines \subseteq Seq(Seq(Byte))
  /\ CharIsSigned \in BOOLEAN
  /\ TerminatorCount \in Nat
  /\ TerminatorCount >= 3 * (SampleTarget + SampleLine)
  /\ 8 * TerminatorCount >= 3 * MaxLength * (SampleTarget + SampleLine)
  /\ CodeBase % 2 = 0
  /\ \A b \in Byte : b % 2 = 0 => b + 1 \in Byte

VARIABLES
  zeroTerminated,  \* the mode
  round,           \* 1 .. 5, and 6 for the last makeTable
  st,              \* the table of the round
  counters,        \* count1 and count2, as bags of codes and of pairs
  bestTable,       \* the table of the best round so far,
  bestGain,        \*   what it gained,
  bestCounters,    \*   and count1 of that round
  queue,           \* the candidates: symbols and their gains
  trial,           \* of each round the table, its gain and its pairs (history)
  built            \* bestTable before finalize (history)

best == <<bestTable, bestGain, bestCounters>>
vars == <<pc, strIn, sample, zeroTerminated, round, st, counters, best, queue, trial, built>>

FinalRound == 6                                          \* the last makeTable
SampleFrac(r) == <<8, 38, 68, 98, 128, 128>>[r]    \* of 128

(* The table that compressCount uses and makeTable fills.                  *)
Table == IF round = FinalRound THEN bestTable ELSE st

Life == INSTANCE SymbolTableLife WITH
  table <- Table,
  phase <- IF pc = "done" THEN "final" ELSE "building",
  built <- IF pc = "done" THEN built ELSE Table

--------------------------------------------------------------------------------
(* compressCount: the codes of a line, each that of the longest symbol     *)
(* that findLongestSymbol finds.                                           *)
Codes(t, s) ==
  LET from[p \in 1 .. Len(s) + 1] ==
        IF p > Len(s) THEN <<>>
        ELSE LET code == FindLongestSymbol(t, SubSeq(s, p, Min({p + MaxLength - 1, Len(s)})))
             IN  <<code>> \o from[p + Len(SymbolOf(t, code))]
  IN  from[1]

Longer(t, code) == Len(SymbolOf(t, code)) > 1
FirstByte(t, code) == Head(SymbolOf(t, code))

(* The lines a round looks at: in the earlier ones some are skipped.       *)
Taken(r) ==
  { i \in DOMAIN sample : SampleFrac(r) < 128 => Rnd128(i, SampleFrac(r)) <= SampleFrac(r) }

(* The places in lines, or in their codes.                                 *)
Places(lines) == UNION { {i} \X DOMAIN lines[i] : i \in DOMAIN lines }

(* The bytes saved by the codes of the lines; an escape takes two bytes.   *)
GainOf(t, codes) ==
  LET saved(c) == Len(SymbolOf(t, c)) - (IF isEscapeCode(c) THEN 2 ELSE 1)
  IN  SumFunctionOnSet([x \in Places(codes) |-> saved(codes[x[1]][x[2]])], Places(codes))

BagOf(f) == [y \in Range(f) |-> Cardinality({x \in DOMAIN f : f[x] = y})]

(* As an alternative to a longer symbol its first byte is counted, too.    *)
(* A counter of count1 has 16 bits, more than the sample has bytes.  Those *)
(* of count2 are smaller: how often a pair occurred is not always what is  *)
(* read of it (Count2Read).                                                *)
Count1(t, codes) ==
  LET code(x) == codes[x[1]][x[2]]
      longer  == {x \in Places(codes) : Longer(t, code(x))}
  IN  BagOf([x \in Places(codes) |-> code(x)]) (+) BagOf([x \in longer |-> FirstByte(t, code(x))])

Count2(t, codes) ==
  LET code(x) == codes[x[1]][x[2]]
      next(x) == codes[x[1]][x[2] + 1]
      pairs   == {x \in Places(codes) : x[2] < Len(codes[x[1]])}
      longer  == {x \in pairs : Longer(t, next(x))}
  IN  BagOf([x \in pairs |-> <<code(x), next(x)>>])
        (+) BagOf([x \in longer |-> <<code(x), FirstByte(t, next(x))>>])

--------------------------------------------------------------------------------
(* makeTable: a symbol is extended by the next one, up to MaxLength bytes. *)
(* Mutant: the next one comes first.                                       *)
Concat_swapped(s1, s2) ==
  SubSeq(s2 \o s1, 1, Min({MaxLength, Len(s1) + Len(s2)}))

Concat(s1, s2) ==
  SubSeq(s1 \o s2, 1, Min({MaxLength, Len(s1) + Len(s2)}))

(* The counters with that of the terminator set to the largest value.      *)
(* The terminator is an escaped byte at first and then symbol 0.  Mutant:  *)
(* it has the count the sample gives it.                                   *)
WithTerminator_counted(t, c1) == c1
WithTerminator(t, c1) ==
  LET terminator == IF NSymbols(t) > 0 THEN CodeBase ELSE t.terminator
  IN  [p \in DOMAIN c1 \cup {terminator} |-> IF p = terminator THEN TerminatorCount ELSE c1[p]]

(* Rare candidates are not considered.                                     *)
Enough(count, frac) == count >= (5 * frac) \div 128

(* What the scan of the counters proposes: the symbols that occurred, the  *)
(* short ones promoted, and the pairs, if they may be joined.              *)
Singles(t, c1) ==
  { [code |-> <<p>>, symbol |-> SymbolOf(t, p),
     count |-> IF Longer(t, p) THEN c1[p] ELSE 8 * c1[p]] : p \in DOMAIN c1 }

(* A code behind the last symbol names a slot of the array symbols that    *)
(* clear leaves as it is: with a symbol of the latest table in which it    *)
(* had one, or as constructed.  q: how many tables there were so far.      *)
InSlot(q, code) ==
  LET filled == {r \in 1 .. q : code < CodeBase + NSymbols(trial[r].table)}
  IN  IF isEscapeCode(code) THEN <<code>>
      ELSE IF filled = {} THEN <<0>>
      ELSE SymbolOf(trial[Max(filled)].table, code)

(* Such a code is met only right behind the last symbol, when a pair that  *)
(* ends with the last symbol has overflown so far that it reads zero.      *)
Pairs(t, c1, c2) ==
  LET second(p) == InSlot(Len(trial), p[2])
      startsWithTerminator(s) == Life!IsTerminator(t, Head(s))
  IN  { [code |-> p, symbol |-> Concat(SymbolOf(t, p[1]), second(p)), count |-> c2[p]] :
          p \in { q \in DOMAIN c2 : /\ q[1] \in DOMAIN c1
                                    /\ Len(SymbolOf(t, q[1])) < MaxLength
                                    /\ ~ startsWithTerminator(SymbolOf(t, q[1]))
                                    /\ ~ startsWithTerminator(second(q))
                                    /\ q[2] = CodeBase + NSymbols(t) => EvenBefore(q) \notin DOMAIN c2 } }

(* One symbol may be proposed by several counters.                         *)
Candidates(t, c1, c2, frac) ==
  LET proposed == Singles(t, c1) \cup (IF frac < 128 THEN Pairs(t, c1, c2) ELSE {})
      enough   == {x \in proposed : Enough(x.count, frac)}
      of(s)    == {x \in enough : x.symbol = s}
  IN  { [symbol |-> s,
         gain |-> SumFunctionOnSet([x \in of(s) |-> x.count * Len(s)], of(s))]
        : s \in {x.symbol : x \in enough} }

(* The zero-padded symbol as a little-endian number (load_num).            *)
Padded(s) == [i \in 1 .. MaxLength |-> IF i <= Len(s) THEN s[i] ELSE 0]
LessNum(s1, s2) ==
  \E i \in 1 .. MaxLength :
    /\ Padded(s1)[i] < Padded(s2)[i]
    /\ \A k \in i + 1 .. MaxLength : Padded(s1)[k] = Padded(s2)[k]

(* The order of the priority queue, not total: symbols may differ in       *)
(* trailing zeros only.                                                    *)
Before(q1, q2) ==
  q1.gain > q2.gain \/ (q1.gain = q2.gain /\ LessNum(q1.symbol, q2.symbol))

--------------------------------------------------------------------------------
(* The byte that occurs least in the sample, and of these the lowest one.  *)
Rarest ==
  LET times(b) == Cardinality({x \in Places(sample) : sample[x[1]][x[2]] = b})
  IN  CHOOSE b \in Byte : \A c \in Byte : times(b) < times(c) \/ (times(b) = times(c) /\ b <= c)

Start ==
  /\ pc = "sampled"
  /\ st' = EmptyTable(IF zeroTerminated THEN 0 ELSE Rarest, zeroTerminated)
  /\ pc' = "count"
  /\ UNCHANGED <<strIn, sample, zeroTerminated, round, counters, best, queue, trial, built>>

(* Mutant: the last makeTable is given the counters of the last round.     *)
ForLast_unrestored(new, saved) == new
ForLast(new, saved)            == [new EXCEPT !.count1 = saved]

(* compressCount, and the round is kept if none gained more.               *)
CompressCount ==
  /\ pc = "count"
  /\ LET codes == [i \in Taken(round) |-> Codes(st, sample[i])]
         gain  == GainOf(st, codes)
         new   == [count1 |-> Count1(st, codes),
                   count2 |-> IF SampleFrac(round) = 128 THEN EmptyBag ELSE Count2(st, codes)]
     IN  /\ IF gain >= bestGain
              THEN bestTable' = st /\ bestGain' = gain /\ bestCounters' = new.count1
              ELSE UNCHANGED best
         /\ trial' = Append(trial, [table |-> st, gain |-> gain, pairs |-> new.count2])
         /\ counters' = IF round = FinalRound - 1 THEN ForLast(new, bestCounters') ELSE new
  /\ pc' = "propose"
  /\ UNCHANGED <<strIn, sample, zeroTerminated, round, st, queue, built>>

(* makeTable up to clear, the last one for the best table.                 *)
Propose ==
  /\ pc = "propose"
  /\ LET isLast == round = FinalRound - 1
         t      == IF isLast THEN bestTable ELSE st
     IN  /\ queue' = Candidates(t, WithTerminator(t, counters.count1),
                                Count2Read(counters.count2), SampleFrac(round))
         /\ IF isLast
              THEN /\ round' = FinalRound /\ bestTable' = ClearTable(t)
                   /\ UNCHANGED <<st, bestGain, bestCounters>>
              ELSE st' = ClearTable(t) /\ UNCHANGED <<round, best>>
  /\ pc' = "add"
  /\ UNCHANGED <<strIn, sample, zeroTerminated, counters, trial, built>>

(* The rest of makeTable.                                                  *)
Wanted == NSymbols(Table) < MaxSymbols /\ queue # {}

AddBest ==
  /\ pc = "add"
  /\ Wanted
  /\ \E q \in queue :
       /\ \A other \in queue : ~ Before(other, q)
       /\ queue' = queue \ {q}
       /\ IF round = FinalRound
            THEN bestTable' = AddSymbol(bestTable, q.symbol) /\ UNCHANGED <<st, bestGain, bestCounters>>
            ELSE st' = AddSymbol(st, q.symbol) /\ UNCHANGED best
  /\ UNCHANGED <<pc, strIn, sample, zeroTerminated, round, counters, trial, built>>

NextRound ==
  /\ pc = "add"
  /\ ~ Wanted
  /\ round < FinalRound
  /\ round' = round + 1
  /\ pc' = "count"
  /\ UNCHANGED <<strIn, sample, zeroTerminated, st, counters, best, queue, trial, built>>

Finalize ==
  /\ pc = "add"
  /\ ~ Wanted
  /\ round = FinalRound
  /\ built' = bestTable
  /\ bestTable' = FinalizeTable(bestTable)
  /\ pc' = "done"
  /\ UNCHANGED <<strIn, sample, zeroTerminated, round, st, counters, bestGain, bestCounters, queue, trial>>

Build == Start \/ CompressCount \/ Propose \/ AddBest \/ NextRound \/ Finalize

--------------------------------------------------------------------------------
(* All that the search does to a table is what SymbolTableLife allows: the *)
(* terminator is added first, no symbol twice, none across the terminator, *)
(* whatever the counters say (libfsst.cpp:160).                            *)
ImplementsLife == [][(pc = "sampled" /\ Life!Init') \/ Life!Next]_<<Table, pc = "done">>

(* Every symbol but the terminator is a piece of the sample: the counters  *)
(* and the symbols they are counters of are those of the same round, in    *)
(* every round (libfsst.cpp:229 to 239).  The one exception is what "we    *)
(* take our chances with" (libfsst.hpp:398): a pair that occurred more     *)
(* than PairLimit times overflows into its neighbour, and the first symbol *)
(* is joined with the one of the next code, or with a stale one.  It does  *)
(* not reach the table that is finished, which is made without pairs.      *)
Occurs(s) ==
  \E i \in DOMAIN sample : \E k \in 0 .. Len(sample[i]) - Len(s) :
    s = SubSeq(sample[i], k + 1, k + Len(s))

Overflown(s) ==
  \E q \in DOMAIN trial : \E p \in DOMAIN trial[q].pairs :
    /\ p[2] % 2 = 0 /\ trial[q].pairs[p] > PairLimit
    /\ s = Concat(SymbolOf(trial[q].table, p[1]), InSlot(q, p[2] + 1))

SymbolsOccur ==
  \A s \in Range(Table.symbols) \ {<<Table.terminator>>} :
    Occurs(s) \/ (round < FinalRound /\ Overflown(s))

(* The finished table is the best round's, without what that round did not *)
(* use often enough: of the symbols with which the round of the largest    *)
(* gain compressed its part of the sample, those used five times and the   *)
(* bytes symbols began with are in it, most profitable first, save those   *)
(* whose bucket is taken or for which no code is left (libfsst.cpp:240).   *)
FinalEarned ==
  pc = "done" =>
    LET r == CHOOSE r \in DOMAIN trial :
               \A x \in DOMAIN trial :
                 trial[x].gain < trial[r].gain \/ (trial[x].gain = trial[r].gain /\ x <= r)
        used == [i \in Taken(r) |->
                  LET codes == Codes(trial[r].table, sample[i])
                  IN  [k \in DOMAIN codes |-> SymbolOf(trial[r].table, codes[k])]]
        times(s) == Cardinality({x \in Places(used) : used[x[1]][x[2]] = s})
        begun(s) == Cardinality({x \in Places(used) : used[x[1]][x[2]][1] = s[1]})
        worth(s) == IF Len(s) = 1 THEN 8 * begun(s) ELSE IF times(s) >= 5 THEN Len(s) * times(s) ELSE 0
        symbols  == Range(built.symbols)
        all      == (UNION {Range(used[i]) : i \in Taken(r)}) \cup {<<b>> : b \in Byte}
    IN  /\ built.symbols[1] = <<built.terminator>>
        /\ \A s \in symbols \ {<<built.terminator>>} : s \in all /\ worth(s) > 0
        /\ \A s \in all \ symbols :
             \/ worth(s) = 0
             \/ Len(s) > 2 /\ \E x \in symbols : Len(x) > 2 /\ BucketOf(x) = BucketOf(s) /\ worth(x) >= worth(s)
             \/ /\ NSymbols(built) = MaxSymbols
                /\ \A x \in symbols \ {<<built.terminator>>} : worth(x) >= worth(s)
================================================================================
