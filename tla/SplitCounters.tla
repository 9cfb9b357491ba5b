----------------------------- MODULE SplitCounters -----------------------------
(***************************************************************************)
(* What the counters of pairs read after any number of increments          *)
(* (libfsst.hpp and libfsst12.hpp, count2Inc and count2GetNext).  A        *)
(* counter of two codes has 12 bits: a low byte, and a high part of four   *)
(* bits that is incremented whenever the low byte leaves zero.  The high   *)
(* parts of an even second code and the odd one after it share a byte, so  *)
(* what overflows the even one is added to the odd one.  Counters shows    *)
(* that this is what the increments of a row lead to, in any order.        *)
(***************************************************************************)
EXTENDS Integers

CONSTANTS
  LowBase,     \* the values of a low part, 256
  High2Base    \* the values of a high part of count2, 16

ASSUME SplitAssumption ==
  /\ LowBase \in Nat \ {0, 1}
  /\ High2Base \in Nat \ {0, 1}

(* count1GetNext and count2GetNext decrement the high part, which is early.*)
Combine(h, l) == IF l = 0 THEN h * LowBase ELSE (h - 1) * LowBase + l

(* How often the high part is incremented by n increments.                 *)
HighIncs(n) == (n + LowBase - 1) \div LowBase

(* The largest count a high part has room for, 3840.                       *)
PairLimit == LowBase * (High2Base - 1)

(* The pair whose high part shares a byte with that of a pair.             *)
EvenBefore(p) == <<p[1], p[2] - 1>>
OddAfter(p)   == <<p[1], p[2] + 1>>

(* How often a pair occurred, of counts a bag of pairs of codes.           *)
CountOf(p, counts) == IF p \in DOMAIN counts THEN counts[p] ELSE 0

(* Its high part.                                                          *)
High2(counts, p) ==
  LET own == HighIncs(CountOf(p, counts))
  IN  IF p[2] % 2 = 0 THEN own % High2Base
      ELSE (own + HighIncs(CountOf(EvenBefore(p), counts)) \div High2Base) % High2Base

(* What a scan reads: of the pairs that occurred and those they may have   *)
(* overflown into, the ones whose high part is not zero.                   *)
Count2Read(counts) ==
  LET touched == DOMAIN counts \cup {OddAfter(p) : p \in {q \in DOMAIN counts : q[2] % 2 = 0}}
  IN  [p \in {q \in touched : High2(counts, q) # 0} |->
         Combine(High2(counts, p), CountOf(p, counts) % LowBase)]
================================================================================
