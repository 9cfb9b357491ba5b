------------------------------- MODULE Counters --------------------------------
(***************************************************************************)
(* The split counters of the table construction (libfsst.hpp, the second   *)
(* struct Counters): one array of them, either count1 or a row of count2.  *)
(* The low part of a counter has a byte of its own.  The high part is a    *)
(* byte in count1, and in count2 four bits of a byte that two neighbours   *)
(* share.  The high part is incremented early, when the low part leaves    *)
(* zero, so that a scan can skip runs of zero counters by looking at the   *)
(* high parts alone.                                                       *)
(*                                                                         *)
(* compressCount increments counters; when it is done makeTable sets one   *)
(* counter of count1 to the largest value and scans with GetNext.          *)
(***************************************************************************)
EXTENDS SplitCounters, FiniteSets, FiniteSetsExt, Functions

CONSTANTS
  High1Base,              \* the values of a high part of count1, 256
  Window1, Window2,       \* how many high parts one read covers, 8 and 16
  NPos,                   \* the number of counters, FSST_CODE_MAX
  SampleMax               \* how many increments the sample can cause

ASSUME CountersAssumption ==
  /\ High1Base \in Nat \ {0, 1}
  /\ Window1 \in Nat \ {0} /\ Window2 \in Nat \ {0, 1}
  /\ NPos \in Nat \ {0}
  /\ SampleMax \in Nat

VARIABLES
  shared,    \* whether two counters share a byte of high parts (count2)
  low,       \* count1Low, or a row of count2Low
  high,      \* count1High, or a row of count2High: its bytes
  phase,     \* "count", "scan" or "done"
  set,       \* the counter that was set to the largest value, if any
  pos,       \* the position of the scan
  seen,      \* what the scan has returned: positions and counts
  exact      \* how often each counter was incremented (history)

vars == <<shared, low, high, phase, set, pos, seen, exact>>

Pos == 0 .. NPos - 1
NoPos == NPos

(* The byte of high with the high part of a counter, the number that is    *)
(* added to it to increment the high part, and the number of its values.   *)
(* Mutant: of two that share a byte the even one has the upper half.       *)
HighBase      == IF shared THEN High2Base ELSE High1Base
ByteOf(p)     == IF shared THEN p \div 2 ELSE p
Unit_above(p) == IF shared /\ p % 2 = 0 THEN HighBase ELSE 1
Unit(p)       == IF shared /\ p % 2 = 1 THEN HighBase ELSE 1
HighByte      == IF shared THEN HighBase * HighBase ELSE HighBase

HighPart(p) == (high[ByteOf(p)] \div Unit(p)) % HighBase

Value(p) == Combine(HighPart(p), low[p])

(* The largest count that is kept exactly.                                 *)
Limit == LowBase * (HighBase - 1)

Init ==
  /\ shared \in BOOLEAN
  /\ low = [p \in Pos |-> 0]
  /\ high = [b \in {ByteOf(p) : p \in Pos} |-> 0]
  /\ phase = "count"
  /\ set = NoPos
  /\ pos = 0
  /\ seen = {}
  /\ exact = [p \in Pos |-> 0]

(* When the high part is incremented; mutant: as in ordinary arithmetic.   *)
Carries_late(l) == l = LowBase - 1
Carries(l)      == l = 0

NextLow(l)      == (l + 1) % LowBase

(* count1Inc, count2Inc: the arithmetic of bytes wraps.                    *)
Inc(p) ==
  /\ phase = "count"
  /\ SumFunction(exact) < SampleMax
  /\ low' = [low EXCEPT ![p] = NextLow(@)]
  /\ high' = IF Carries(low[p])
               THEN [high EXCEPT ![ByteOf(p)] = (@ + Unit(p)) % HighByte]
               ELSE high
  /\ exact' = [exact EXCEPT ![p] = @ + 1]
  /\ UNCHANGED <<shared, phase, set, pos, seen>>

(* The high byte of 65535; mutant: of the largest signed number.           *)
AllOnes_signed == HighBase \div 2 - 1
AllOnes        == HighBase - 1

(* makeTable: the terminator's counter is set to all ones, low and high    *)
(* (count1Set).  There is no such step for count2.                         *)
SetTerminator(p) ==
  /\ phase = "count"
  /\ ~ shared
  /\ low' = [low EXCEPT ![p] = LowBase - 1]
  /\ high' = [high EXCEPT ![p] = AllOnes]
  /\ set' = p
  /\ phase' = "scan"
  /\ UNCHANGED <<shared, pos, seen, exact>>

StartScan ==
  /\ phase = "count"
  /\ shared
  /\ phase' = "scan"
  /\ UNCHANGED <<shared, low, high, set, pos, seen, exact>>

(***************************************************************************)
(* One iteration of a scan.  GetNext reads the high parts of the positions *)
(* [pos, pos + WindowAt(pos)) at once and advances to the first that is    *)
(* not zero, or to the last position of the window; the loop then adds 1.  *)
(* Behind the last counter the read sees other memory, whatever it holds.  *)
(***************************************************************************)
WindowAt(p) == IF shared THEN Window2 - (p % 2) ELSE Window1

NonZero(p, beyond) ==
  {k \in 0 .. WindowAt(p) - 1 :
     IF p + k < NPos THEN HighPart(p + k) # 0 ELSE p + k \in beyond}

(* Mutant: from an odd position a window of zeros is skipped as from an    *)
(* even one.                                                               *)
Advance_even(p, beyond) ==
  p + (IF NonZero(p, beyond) = {} THEN WindowAt(0) - 1 ELSE Min(NonZero(p, beyond)))

Advance(p, beyond) ==
  p + (IF NonZero(p, beyond) = {} THEN WindowAt(p) - 1 ELSE Min(NonZero(p, beyond)))

GetNext(beyond) ==
  /\ phase = "scan"
  /\ pos < NPos
  /\ LET next == Advance(pos, beyond)
     IN  /\ pos' = next + 1
         /\ seen' = IF next < NPos /\ NonZero(pos, beyond) # {}
                      THEN seen \cup {<<next, Value(next)>>} ELSE seen
  /\ UNCHANGED <<shared, low, high, phase, set, exact>>

EndScan ==
  /\ phase = "scan"
  /\ pos >= NPos
  /\ phase' = "done"
  /\ UNCHANGED <<shared, low, high, set, pos, seen, exact>>

Next ==
  \/ \E p \in Pos : Inc(p) \/ SetTerminator(p)
  \/ StartScan
  \/ \E beyond \in SUBSET (NPos .. NPos + WindowAt(0) - 2) : GetNext(beyond)
  \/ EndScan

Spec == Init /\ [][Next]_vars

--------------------------------------------------------------------------------
(* Counters that share a byte with p, p included.                          *)
Mates(p) == {q \in Pos : ByteOf(q) = ByteOf(p)}

(* The counter was incremented by count1Inc or count2Inc only, and neither *)
(* it nor its neighbour went past the limit.                               *)
Reliable(p) == p # set /\ \A q \in Mates(p) : exact[q] <= Limit

(* "(high > 0) <=> (cnt > 0)" (libfsst.hpp:392, 396) and the two parts     *)
(* together are the count: however increments of the neighbours in a byte  *)
(* interleave, and whatever overflow disturbs the other bytes.             *)
HighEarly ==
  \A p \in Pos : Reliable(p) =>
    /\ HighPart(p) > 0 <=> exact[p] > 0
    /\ Value(p) = exact[p]

(* makeTable relies on the terminator's counter being the largest.  All    *)
(* ones are not read back as such, as the low part is not zero, but only a *)
(* counter that reached the limit reads higher.                            *)
TerminatorLargest ==
  set # NoPos =>
    \A q \in Pos : exact[q] < Limit /\ q # set => exact[q] <= Value(set)

(* Past the limit, too, a row reads what its counts lead to, with the      *)
(* nibble that overflows added to the other one (libfsst.hpp:398):         *)
(* whatever order the counters were incremented in.                        *)
RowRead ==
  shared =>
    LET counts == [p \in {<<0, q>> : q \in {q \in Pos : exact[q] > 0}} |-> exact[p[2]]]
        read   == Count2Read(counts)
    IN  \A p \in Pos :
          /\ HighPart(p) # 0 <=> <<0, p>> \in DOMAIN read
          /\ HighPart(p) # 0 => Value(p) = read[<<0, p>>]

(* A scan that jumps from window to window misses no counter, returns none *)
(* twice, and returns none that is zero.                                   *)
ScanComplete ==
  phase = "done" =>
    \A p \in Pos : Reliable(p) =>
      {e \in seen : e[1] = p} = IF exact[p] = 0 THEN {} ELSE {<<p, exact[p]>>}
================================================================================
