---------------------------------- MODULE Cw -----------------------------------
(***************************************************************************)
(* The first version of FSST (paper/cw.cpp), without escapes: every byte   *)
(* that occurs in the text is its own code, and the codes left over stand  *)
(* for strings that occur often.  These are found with a suffix array; a   *)
(* priority queue with gains that are brought up to date late picks them;  *)
(* and dynamic programming cuts each chunk of a line into the fewest codes.*)
(* Byte 0 separates the lines and does not occur in them.                  *)
(***************************************************************************)
EXTENDS Integers, Sequences, FiniteSets, SequencesExt

CONSTANTS
  CodeBase,    \* the number of byte values, 256
  MaxLength,   \* the longest symbol, 8
  QueueMax,    \* the candidates kept of each length, 8 * 256
  ChunkMax,    \* what is compressed at once, 128
  Texts        \* the texts, sequences of lines

Byte == 0 .. CodeBase - 1

Admissible ==
  /\ CodeBase \in Nat \ {0} /\ MaxLength \in Nat \ {0, 1}
  /\ QueueMax \in Nat \ {0} /\ ChunkMax \in Nat \ {0}
  /\ \A t \in Texts : \A i \in DOMAIN t : t[i] \in Seq(Byte \ {0}) /\ t[i] # <<>>

VARIABLES
  cwPc,         \* "add", "scan", "select", "compress", "compressed"
  lines,         \* the lines
  added,        \* how many of them are in data
  data, used,   \* SubsetSelect: the lines, each closed by a zero; the bytes that occur
  suffixes,     \* the suffix array of data
  candidates, modified,
  result,       \* the symbol of each code, from code 0
  greedy,       \* compiled with GREEDY
  curText, index, codes   \* the line being compressed, and the lines' codes so far

select == <<data, used, suffixes, candidates, modified, result>>

Init ==
  /\ cwPc = "add"
  /\ lines \in Texts
  /\ greedy \in BOOLEAN
  /\ added = 0
  /\ data = <<>> /\ used = {}
  /\ suffixes = <<>> /\ candidates = {} /\ modified = {}
  /\ result = <<>>
  /\ curText = 1 /\ index = 0 /\ codes = << <<>> >>

(* Nothing, where one of the other versions runs.                          *)
Idle ==
  /\ cwPc = "off"
  /\ lines = <<>> /\ added = 0
  /\ data = <<>> /\ used = {}
  /\ suffixes = <<>> /\ candidates = {} /\ modified = {} /\ result = <<>>
  /\ greedy = FALSE
  /\ curText = 0 /\ index = 0 /\ codes = <<>>

AddLine ==
  /\ cwPc = "add"
  /\ added < Len(lines)
  /\ LET s == lines[added + 1]
     IN  /\ used' = used \cup Range(s)
         /\ data' = IF Len(s) < 2 THEN data ELSE data \o Append(s, 0)
  /\ added' = added + 1
  /\ cwPc' = IF added' = Len(lines) THEN "scan" ELSE "add"
  /\ UNCHANGED <<lines, suffixes, candidates, modified, result, greedy, curText, index, codes>>

--------------------------------------------------------------------------------
(* saisxx: the places of the suffixes in their order.                      *)
Less(s, t) ==
  \E n \in 0 .. Len(s) :
    /\ n < Len(t)
    /\ SubSeq(s, 1, n) = SubSeq(t, 1, n)
    /\ n = Len(s) \/ s[n + 1] < t[n + 1]

SuffixArray(d) ==
  SortSeq([i \in DOMAIN d |-> i], LAMBDA i, j : Less(SubSeq(d, i, Len(d)), SubSeq(d, j, Len(d))))

(* How far two suffixes agree, up to a zero; at least height places do.    *)
Agreement(d, i, j, height) ==
  Min({h \in height .. Len(d) - Max({i, j}) : d[i + h] # d[j + h] \/ d[i + h] = 0})

(* The next suffix of the text agrees with the one before it in one place  *)
(* less at least.                                                          *)
NextHeight(height) == IF height > 0 THEN height - 1 ELSE 0

(* How far each suffix agrees with the one before it in the array.         *)
ComputeLCP(d, sa) ==
  LET inverse == [p \in DOMAIN sa |-> CHOOSE i \in DOMAIN sa : sa[i] = p]
      step(s, p) ==
        IF inverse[p] = 1 THEN s
        ELSE LET height == Agreement(d, p, sa[inverse[p] - 1], s.height)
             IN  [height |-> NextHeight(height), lcp |-> [s.lcp EXCEPT ![inverse[p]] = height]]
  IN  FoldLeft(step, [height |-> 0, lcp |-> [i \in DOMAIN sa |-> 0]], [p \in DOMAIN sa |-> p]).lcp

(* Each occurrence saves len - 1 bytes, and the symbol itself takes len.   *)
ComputeGain(len, count) == Max({0, (len - 1) * count - len})

(* One of the queues per length: only the best QueueMax are kept.          *)
Pushed(list, c) ==
  LET least == CHOOSE x \in list \cup {c} : \A y \in list \cup {c} : x.gain <= y.gain
  IN  CASE c.gain = 0                    -> list
        [] c.gain > 0 /\ Cardinality(list) < QueueMax  -> list \cup {c}
        [] c.gain > 0 /\ Cardinality(list) >= QueueMax ->
             IF c.gain > least.gain THEN (list \cup {c}) \ {least} ELSE list

(* flushTo: the runs of suffixes that agree in more than target places end *)
(* before pos.                                                             *)
FlushTo(d, sa, s, pos, target) ==
  [len \in 2 .. MaxLength |->
     IF len <= target \/ len > s.depth THEN s.lists[len]
     ELSE Pushed(s.lists[len],
                 [symbol |-> SubSeq(d, sa[pos - 1], sa[pos - 1] + len - 1),
                  gain   |-> ComputeGain(len, pos - s.begins[len]),
                  from   |-> s.begins[len], to |-> pos, step |-> 0])]

(* The scan of the LCP array; mutant: a run begins where its agreement is  *)
(* first seen, one too late.                                               *)
Begin_late(i) == i
Begin(i)      == i - 1

Candidates(d, sa) ==
  LET lcp == ComputeLCP(d, sa)
      start == [depth |-> 0, begins |-> [len \in 1 .. MaxLength |-> 0], lists |-> [len \in 2 .. MaxLength |-> {}]]
      step(s, i) ==
        LET depth == Min({lcp[i], MaxLength})
        IN  [depth  |-> depth,
             begins |-> [len \in 1 .. MaxLength |->
                           IF len \in s.depth + 1 .. depth THEN Begin(i) ELSE s.begins[len]],
             lists  |-> FlushTo(d, sa, s, i, depth)]
      last == FoldLeft(step, start, [i \in DOMAIN sa |-> i])
  IN  UNION Range(FlushTo(d, sa, last, Len(sa) + 1, 0))

Scan ==
  /\ cwPc = "scan"
  /\ suffixes' = SuffixArray(data)
  /\ candidates' = Candidates(data \o [i \in 1 .. MaxLength |-> 0], suffixes')
  /\ cwPc' = "select"
  /\ UNCHANGED <<lines, added, data, used, modified, result, greedy, curText, index, codes>>

--------------------------------------------------------------------------------
(* The selection, an action per turn of its loop.                          *)
Places(c) == {suffixes[i] : i \in c.from .. c.to - 1}
Extent(c, p) == p .. p + Len(c.symbol) - 1

(* recomputeGain: only the occurrences count that no symbol took part of.  *)
Recomputed(c) ==
  [c EXCEPT !.gain = ComputeGain(Len(c.symbol), Cardinality({p \in Places(c) : Extent(c, p) \cap modified = {}})),
            !.step = Len(result)]

Best(c) == c \in candidates /\ \A x \in candidates : x.gain <= c.gain

(* The symbol of a code that is a byte; a table entry of 0 is empty.       *)
OwnSymbol(b) == IF b = 0 THEN <<>> ELSE <<b>>

KeepByte ==
  /\ cwPc = "select"
  /\ Len(result) < CodeBase
  /\ Len(result) \in used \/ candidates = {}
  /\ result' = Append(result, OwnSymbol(Len(result)))
  /\ UNCHANGED <<cwPc, lines, added, data, used, suffixes, candidates, modified, greedy, curText, index, codes>>

(* Whether the gain is older than this code; mutant: than the first.       *)
Stale_never(c) == FALSE
Stale(c)       == c.step < Len(result)

Recompute ==
  /\ cwPc = "select"
  /\ Len(result) < CodeBase
  /\ Len(result) \notin used
  /\ \E c \in candidates :
       /\ Best(c)
       /\ Stale(c)
       /\ candidates' = (candidates \ {c}) \cup {x \in {Recomputed(c)} : x.gain > 0}
  /\ UNCHANGED <<cwPc, lines, added, data, used, suffixes, modified, result, greedy, curText, index, codes>>

Pick ==
  /\ cwPc = "select"
  /\ Len(result) < CodeBase
  /\ Len(result) \notin used
  /\ \E c \in candidates :
       /\ Best(c)
       /\ ~ Stale(c)
       /\ result' = Append(result, c.symbol)
       /\ modified' = modified \cup UNION {Extent(c, p) : p \in Places(c)}
       /\ candidates' = candidates \ {c}
  /\ UNCHANGED <<cwPc, lines, added, data, used, suffixes, greedy, curText, index, codes>>

Selected ==
  /\ cwPc = "select"
  /\ Len(result) = CodeBase
  /\ cwPc' = "compress"
  /\ UNCHANGED <<lines, added, select, greedy, curText, index, codes>>

--------------------------------------------------------------------------------
(* The symbols of two bytes or more, by their first byte, longer ones      *)
(* before shorter ones, and where the entries of each byte start.          *)
Entries ==
  LET longer == {c \in Byte : Len(result[c + 1]) > 1}
      sym(c) == result[c + 1]
      before(c1, c2) == sym(c1)[1] < sym(c2)[1] \/ (sym(c1)[1] = sym(c2)[1] /\ Len(sym(c1)) > Len(sym(c2)))
  IN  LET sorted == SortSeq(SetToSeq(longer), before)
      IN  [i \in DOMAIN sorted |-> [c |-> sorted[i], symbol |-> sym(sorted[i])]]

TableOf(entries) ==
  [v \in 0 .. CodeBase |->
     Min({i \in 0 .. Len(entries) - 1 : entries[i + 1].symbol[1] >= v} \cup {Len(entries)})]

(* findExpansions, the longest first.  Mutant: each replaces the last.     *)
FindExpansions_one(entries, table, s) ==
  LET matches(e) == IsPrefix(e.symbol, s)
      all == SelectSeq(SubSeq(entries, table[s[1]] + 1, table[s[1] + 1]), matches)
  IN  IF all = <<>> THEN all ELSE <<Last(all)>>

FindExpansions(entries, table, s) ==
  LET matches(e) == IsPrefix(e.symbol, s)
  IN  SelectSeq(SubSeq(entries, table[s[1]] + 1, table[s[1] + 1]), matches)

(* compress128.  dp[i] is the cheapest way to the first i bytes.           *)
DPTable(entries, table, s) ==
  LET to(i, cost, c) == [prev |-> i, cost |-> cost + 1, c |-> c]
      single(dp, i) ==
        IF dp[i].cost + 1 <= dp[i + 1].cost
          THEN [dp EXCEPT ![i + 1] = to(i, dp[i].cost, s[i + 1])] ELSE dp
      multi(i, dp, e) ==
        IF dp[i].cost + 1 < dp[i + Len(e.symbol)].cost
          THEN [dp EXCEPT ![i + Len(e.symbol)] = to(i, dp[i].cost, e.c)] ELSE dp
      step(dp, i) ==
        FoldLeft(LAMBDA d, e : multi(i, d, e), single(dp, i),
                 FindExpansions(entries, table, SubSeq(s, i + 1, Min({i + MaxLength, Len(s)}))))
  IN  FoldLeft(step,
               [i \in 0 .. Len(s) |-> [prev |-> 0, cost |-> IF i = 0 THEN 0 ELSE Len(s) + 1, c |-> 0]],
               [k \in 1 .. Len(s) |-> k - 1])

(* From the end of the string back.                                        *)
Compress128(entries, table, s) ==
  LET dp == DPTable(entries, table, s)
      recover[i \in 0 .. Len(s)] == IF i = 0 THEN <<>> ELSE Append(recover[dp[i].prev], dp[i].c)
  IN  recover[Len(s)]

(* findExpansion and compressGreedy: the longest symbol, or one byte.      *)
CompressGreedy(entries, table, s) ==
  LET from[i \in 0 .. Len(s)] ==
        IF i = Len(s) THEN <<>>
        ELSE LET found == FindExpansions(entries, table, SubSeq(s, i + 1, Min({i + MaxLength, Len(s)})))
             IN  IF found = <<>> THEN <<s[i + 1]>> \o from[i + 1]
                 ELSE <<Head(found).c>> \o from[i + Len(Head(found).symbol)]
  IN  from[0]

(* One chunk of a line, or the whole line when the program is greedy.      *)
CompressChunk ==
  /\ cwPc = "compress"
  /\ LET s       == lines[curText]
         chunk   == IF greedy THEN s ELSE SubSeq(s, index + 1, Min({index + ChunkMax, Len(s)}))
         entries == Entries
         table   == TableOf(entries)
         new     == IF greedy THEN CompressGreedy(entries, table, chunk) ELSE Compress128(entries, table, chunk)
         soFar   == [codes EXCEPT ![curText] = codes[curText] \o new]
         isLast  == index + Len(chunk) = Len(s)
     IN  /\ index' = IF isLast THEN 0 ELSE index + Len(chunk)
         /\ curText' = IF isLast THEN curText + 1 ELSE curText
         /\ codes' = IF isLast /\ curText < Len(lines) THEN Append(soFar, <<>>) ELSE soFar
         /\ cwPc' = IF isLast /\ curText = Len(lines) THEN "compressed" ELSE "compress"
  /\ UNCHANGED <<lines, added, select, greedy>>

(* decompress.                                                             *)
Decompress(cs) == FlattenSeq([i \in DOMAIN cs |-> result[cs[i] + 1]])

Next == AddLine \/ Scan \/ KeepByte \/ Recompute \/ Pick \/ Selected \/ CompressChunk
--------------------------------------------------------------------------------
(* The strings of two bytes or more, without a zero, with their places.    *)
Occurrences(s) == {p \in DOMAIN data : p + Len(s) - 1 <= Len(data) /\ SubSeq(data, p, p + Len(s) - 1) = s}
Strings(len) ==
  {s \in {SubSeq(data, p, p + len - 1) : p \in 1 .. Len(data) - len + 1} : 0 \notin Range(s)}
Worth(len) == {s \in Strings(len) : ComputeGain(len, Cardinality(Occurrences(s))) > 0}

(* The scan of the suffix array finds exactly the strings that are worth a *)
(* symbol, each with all of its occurrences; of too many the most          *)
(* profitable ones (cw.cpp:245 to 269).                                    *)
CandidatesExact ==
  cwPc = "select" /\ result = <<>> =>
    \A len \in 2 .. MaxLength :
      LET kept == {c \in candidates : Len(c.symbol) = len}
          symbols == {c.symbol : c \in kept}
          gain(s) == ComputeGain(len, Cardinality(Occurrences(s)))
      IN  /\ symbols \subseteq Worth(len)
          /\ Cardinality(kept) = Min({QueueMax, Cardinality(Worth(len))})
          /\ \A c \in kept : Places(c) = Occurrences(c.symbol) /\ c.gain = gain(c.symbol)
          /\ \A s \in Worth(len) \ symbols : \A c \in kept : gain(s) <= gain(c.symbol)

(* A symbol is picked for the gain that it has by then, and no candidate   *)
(* has more: gains only sink, so one that is out of date is too large      *)
(* (cw.cpp:297).                                                           *)
PicksBest ==
  [][ Len(result') > Len(result) /\ candidates' # candidates =>
        LET picked == CHOOSE c \in candidates \ candidates' : TRUE
            gain(c) == Recomputed(c).gain
        IN  gain(picked) > 0 /\ \A c \in candidates : gain(c) <= gain(picked) ]_<<candidates, result>>

(* The lines, or what is compressed of them, come back.                    *)
RoundTrip ==
  \A i \in DOMAIN codes :
    Decompress(codes[i]) = IF i = curText THEN SubSeq(lines[i], 1, index) ELSE lines[i]

(* The fewest codes a string can be cut into.                              *)
Fewest(s) ==
  LET from[i \in 0 .. Len(s)] ==
        IF i = Len(s) THEN 0
        ELSE 1 + Min({from[i + Len(x)] :
                        x \in {x \in Range(result) : x # <<>> /\ IsPrefix(x, SubSeq(s, i + 1, Len(s)))}})
  IN  from[0]

(* Each chunk takes as few codes as the table allows (cw.cpp:410), which   *)
(* is seldom what greedy matching takes.                                   *)
Minimal ==
  cwPc = "compress" /\ ~ greedy =>
    LET s == SubSeq(lines[curText], index + 1, Min({index + ChunkMax, Len(lines[curText])}))
        entries == Entries
    IN  Len(Compress128(entries, TableOf(entries), s)) = Fewest(s)
================================================================================
