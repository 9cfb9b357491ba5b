----------------------------- MODULE CountersProof -----------------------------
(***************************************************************************)
(* The split counters count, for every base, window and number of          *)
(* counters.  The argument is arithmetic: after n increments the high part *)
(* is n / LowBase rounded up, as long as neither the counter nor the one   *)
(* it shares a byte with has gone past the limit; and a scan passes only   *)
(* counters whose high part is zero.  Past the limit, the two high parts   *)
(* of a byte of count2 are the two digits of one number, the sum of what   *)
(* both counters have added to it.                                         *)
(***************************************************************************)
EXTENDS Counters, WellFoundedInduction, TLAPS

(* How often a counter has carried after n increments: n / LowBase,        *)
(* rounded up.                                                             *)
Carried(n) == IF n % LowBase = 0 THEN n \div LowBase ELSE n \div LowBase + 1

(* The values of the variables.                                            *)
Typed ==
  /\ shared \in BOOLEAN
  /\ low \in [Pos -> 0 .. LowBase - 1]
  /\ high \in [{ByteOf(p) : p \in Pos} -> 0 .. HighByte - 1]
  /\ exact \in [Pos -> Nat]
  /\ pos \in Nat
  /\ phase \in {"count", "scan", "done"}

(* The terminator's counter is set once, to all ones, and never in count2. *)
SetOnce ==
  /\ phase = "count" => set = NoPos
  /\ set # NoPos => set \in Pos /\ ~ shared /\ low[set] = LowBase - 1 /\ high[set] = AllOnes

(* The low part is the count modulo its base, the high part the number of  *)
(* carries.                                                                *)
Parts ==
  /\ \A p \in Pos : p # set => low[p] = exact[p] % LowBase
  /\ \A p \in Pos : Reliable(p) => HighPart(p) = Carried(exact[p])

(* The scan has returned the counters before its position that are not     *)
(* zero, and nothing else.                                                 *)
Scanned ==
  /\ phase = "count" => pos = 0 /\ seen = {}
  /\ phase = "done" => pos >= NPos
  /\ \A p \in Pos : Reliable(p) =>
       {e \in seen : e[1] = p} =
         IF p < pos /\ exact[p] > 0 THEN {<<p, exact[p]>>} ELSE {}

CInv == Typed /\ SetOnce /\ Parts /\ Scanned

--------------------------------------------------------------------------------
(* A set of numbers that is not empty has a least element.                 *)
LEMMA LeastNat ==
  ASSUME NEW T \in SUBSET Nat, T # {}
  PROVE  \E x \in T : \A y \in T : x <= y
<1> DEFINE R == {p \in Nat \X Nat : p[1] < p[2]}
<1>1. IsWellFoundedOn(R, Nat)
  BY NatLessThanWellFounded DEF OpToRel
<1>2. \A x, y \in Nat : <<x, y>> \in R <=> x < y
  OBVIOUS
<1> HIDE DEF R
<1>3. PICK x \in T : \A y \in T : ~ (<<y, x>> \in R)
  BY <1>1, WFMin
<1>4. ASSUME NEW y \in T PROVE x <= y
  <2>1. x \in Nat /\ y \in Nat /\ ~ (<<y, x>> \in R)
    BY <1>3
  <2>2. ~ (y < x)
    BY <2>1, <1>2
  <2> QED
    BY <2>1, <2>2
<1> QED
  BY <1>4

(* A quotient and a remainder determine the number, and the other way.     *)
LEMMA DivMod ==
  ASSUME NEW b \in Nat \ {0}, NEW a \in Nat
  PROVE  /\ a \div b \in Nat /\ a % b \in 0 .. b - 1
         /\ a = (b * (a \div b)) + (a % b)
OBVIOUS

LEMMA DivModUnique ==
  ASSUME NEW b \in Nat \ {0}, NEW q \in Nat, NEW r \in 0 .. b - 1
  PROVE  (b * q + r) \div b = q /\ (b * q + r) % b = r
OBVIOUS

(* The next number: the remainder wraps when the quotient grows.           *)
LEMMA DivModNext ==
  ASSUME NEW b \in Nat \ {0, 1}, NEW a \in Nat
  PROVE  IF a % b = b - 1
           THEN (a + 1) % b = 0 /\ (a + 1) \div b = (a \div b) + 1
           ELSE (a + 1) % b = (a % b) + 1 /\ (a + 1) \div b = a \div b
<1> DEFINE q == a \div b
           r == a % b
<1>1. q \in Nat /\ r \in 0 .. b - 1 /\ a = (b * q) + r
  BY DivMod
<1> HIDE DEF q, r
<1>2. CASE r = b - 1
  <2>1. a + 1 = b * (q + 1) + 0
    BY <1>1, <1>2
  <2>2. (a + 1) \div b = q + 1 /\ (a + 1) % b = 0
    <3>1. q + 1 \in Nat /\ 0 \in 0 .. b - 1
      BY <1>1
    <3>2. (b * (q + 1) + 0) \div b = q + 1 /\ (b * (q + 1) + 0) % b = 0
      BY <3>1, DivModUnique
    <3> QED
      BY <2>1, <3>2
  <2> QED
    BY <1>2, <2>2 DEF q, r
<1>3. CASE r # b - 1
  <2>1. a + 1 = b * q + (r + 1) /\ r + 1 \in 0 .. b - 1
    BY <1>1, <1>3
  <2>2. (a + 1) \div b = q /\ (a + 1) % b = r + 1
    BY <2>1, <1>1, DivModUnique
  <2> QED
    BY <1>3, <2>2 DEF q, r
<1> QED
  BY <1>2, <1>3

(* A counter carries when its low part leaves zero; within the limit there *)
(* is room for it; the two parts read back as the count.                   *)
LEMMA CarriedCounts ==
  ASSUME NEW n \in Nat, shared \in BOOLEAN
  PROVE  /\ Carried(n) \in Nat
         /\ Carried(n + 1) = IF n % LowBase = 0 THEN Carried(n) + 1 ELSE Carried(n)
         /\ (n + 1) % LowBase = NextLow(n % LowBase)
         /\ Carried(n) > 0 <=> n > 0
         /\ Combine(Carried(n), n % LowBase) = n
         /\ n <= Limit => Carried(n) <= HighBase - 1
<1> DEFINE q == n \div LowBase
           r == n % LowBase
<1>0. LowBase \in Nat \ {0, 1} /\ HighBase \in Nat \ {0, 1}
  BY CountersAssumption, SplitAssumption DEF HighBase
<1>1. q \in Nat /\ r \in 0 .. LowBase - 1 /\ n = (LowBase * q) + r
  BY <1>0, DivMod
<1>2. IF r = LowBase - 1
        THEN (n + 1) % LowBase = 0 /\ (n + 1) \div LowBase = q + 1
        ELSE (n + 1) % LowBase = r + 1 /\ (n + 1) \div LowBase = q
  BY <1>0, DivModNext
<1>3. Carried(n) = IF r = 0 THEN q ELSE q + 1
  BY DEF Carried
<1>4. Carried(n + 1) = IF (n + 1) % LowBase = 0 THEN (n + 1) \div LowBase
                       ELSE (n + 1) \div LowBase + 1
  BY DEF Carried
<1>5. NextLow(r) = (r + 1) % LowBase
  BY DEF NextLow
<1>6. Combine(Carried(n), r) = IF r = 0 THEN Carried(n) * LowBase
                               ELSE (Carried(n) - 1) * LowBase + r
  BY DEF Combine
<1>7. Limit = LowBase * (HighBase - 1)
  BY DEF Limit
<1> HIDE DEF q, r
<1>8. Carried(n) \in Nat
  BY <1>1, <1>3
<1>9. Carried(n + 1) = IF r = 0 THEN Carried(n) + 1 ELSE Carried(n)
  BY <1>0, <1>1, <1>2, <1>3, <1>4
<1>10. NextLow(r) = (n + 1) % LowBase
  <2>1. CASE r = LowBase - 1
    <3>1. r + 1 = (LowBase * 1) + 0
      BY <2>1, <1>0
    <3>2. (r + 1) % LowBase = 0
      <4>1. 1 \in Nat /\ 0 \in 0 .. LowBase - 1
        BY <1>0
      <4> QED
        BY <3>1, <4>1, <1>0, DivModUnique
    <3> QED
      BY <3>2, <1>2, <2>1, <1>5
  <2>2. CASE r # LowBase - 1
    <3>1. r + 1 = (LowBase * 0) + (r + 1) /\ r + 1 \in 0 .. LowBase - 1
      BY <2>2, <1>0, <1>1
    <3>2. (r + 1) % LowBase = r + 1
      BY <3>1, <1>0, DivModUnique
    <3> QED
      BY <3>2, <1>2, <2>2, <1>5
  <2> QED
    BY <2>1, <2>2
<1>11. Carried(n) > 0 <=> n > 0
  <2>1. CASE r = 0
    <3>1. n = LowBase * q /\ Carried(n) = q
      BY <2>1, <1>0, <1>1, <1>3
    <3>2. LowBase * q > 0 <=> q > 0
      BY <1>0, <1>1
    <3> QED
      BY <3>1, <3>2
  <2>2. CASE r # 0
    BY <2>2, <1>0, <1>1, <1>3
  <2> QED
    BY <2>1, <2>2
<1>12. Combine(Carried(n), r) = n
  BY <1>0, <1>1, <1>3, <1>6
<1>13. ASSUME n <= Limit PROVE Carried(n) <= HighBase - 1
  <2>1. LowBase * q + r <= LowBase * (HighBase - 1)
    BY <1>13, <1>7, <1>1
  <2>2. CASE r = 0
    <3>1. q <= HighBase - 1
      BY <2>1, <2>2, <1>0, <1>1
    <3> QED
      BY <3>1, <2>2, <1>3
  <2>3. CASE r # 0
    <3>1. q < HighBase - 1
      BY <2>1, <2>3, <1>0, <1>1
    <3> QED
      BY <3>1, <2>3, <1>3, <1>0, <1>1
  <2> QED
    BY <2>2, <2>3, <1>1
<1> QED
  BY <1>8, <1>9, <1>10, <1>11, <1>12, <1>13 DEF r

--------------------------------------------------------------------------------
(* A high part as a function of its byte.                                  *)
Part(x, u) == (x \div u) % HighBase

(* A number below another is its own remainder.                            *)
LEMMA ModBelow == ASSUME NEW b \in Nat \ {0}, NEW r \in 0 .. b - 1 PROVE r % b = r /\ r \div b = 0
<1>1. (b * 0 + r) \div b = 0 /\ (b * 0 + r) % b = r
  BY DivModUnique
<1>2. b * 0 + r = r
  OBVIOUS
<1> QED
  BY <1>1, <1>2

(* The two parts of a byte: an increment of one that does not overflow     *)
(* leaves the other alone.                                                 *)
LEMMA TwoParts ==
  ASSUME shared = TRUE, NEW x \in 0 .. HighByte - 1
  PROVE  /\ Part(x, 1) \in 0 .. HighBase - 1 /\ Part(x, HighBase) \in 0 .. HighBase - 1
         /\ Part(x, 1) < HighBase - 1 =>
              /\ Part((x + 1) % HighByte, 1) = Part(x, 1) + 1
              /\ Part((x + 1) % HighByte, HighBase) = Part(x, HighBase)
         /\ Part(x, HighBase) < HighBase - 1 =>
              /\ Part((x + HighBase) % HighByte, 1) = Part(x, 1)
              /\ Part((x + HighBase) % HighByte, HighBase) = Part(x, HighBase) + 1
<1> DEFINE H == HighBase
           a == x % H
           c == x \div H
<1>0. H \in Nat \ {0, 1} /\ HighByte = H * H
  BY CountersAssumption, SplitAssumption DEF HighBase, HighByte
<1>1. x \in Nat /\ c \in Nat /\ a \in 0 .. H - 1 /\ x = (H * c) + a
  BY <1>0, DivMod
<1> HIDE DEF a, c
<1>2. c \in 0 .. H - 1
  <2>1. H * c < H * H
    BY <1>0, <1>1
  <2>2. c < H
    BY <2>1, <1>0, <1>1
  <2> QED
    BY <2>2, <1>0, <1>1
<1>3. ASSUME NEW d \in 0 .. H - 1, NEW e \in 0 .. H - 1
      PROVE  /\ H * d + e \in 0 .. HighByte - 1
             /\ Part(H * d + e, 1) = e /\ Part(H * d + e, H) = d
             /\ (H * d + e) % HighByte = H * d + e
  <2>1. H * d + e \in 0 .. HighByte - 1
    <3>1. H * d <= H * (H - 1)
      BY <1>0
    <3> QED
      BY <3>1, <1>0
  <2>2. (H * d + e) \div H = d /\ (H * d + e) % H = e
    BY <1>0, DivModUnique
  <2>3. (H * d + e) \div 1 = H * d + e
    BY <2>1
  <2>4. d % H = d
    BY <1>0, ModBelow
  <2>5. HighByte \in Nat \ {0}
    BY <1>0
  <2>6. (H * d + e) % HighByte = H * d + e
    BY <2>1, <2>5, ModBelow
  <2>7. Part(H * d + e, 1) = e
    BY <2>2, <2>3 DEF Part
  <2>8. Part(H * d + e, H) = d
    BY <2>2, <2>4 DEF Part
  <2> QED
    BY <2>1, <2>6, <2>7, <2>8
<1>4. Part(x, 1) = a /\ Part(x, H) = c
  BY <1>1, <1>2, <1>3
<1>5. ASSUME a < H - 1 PROVE /\ Part((x + 1) % HighByte, 1) = a + 1
                             /\ Part((x + 1) % HighByte, H) = c
  <2>1. x + 1 = H * c + (a + 1) /\ a + 1 \in 0 .. H - 1
    BY <1>5, <1>0, <1>1, <1>2
  <2>2. (x + 1) % HighByte = x + 1 /\ Part(x + 1, 1) = a + 1 /\ Part(x + 1, H) = c
    BY <2>1, <1>2, <1>3
  <2> QED
    BY <2>2
<1>6. ASSUME c < H - 1 PROVE /\ Part((x + H) % HighByte, 1) = a
                             /\ Part((x + H) % HighByte, H) = c + 1
  <2>1. x + H = H * (c + 1) + a /\ c + 1 \in 0 .. H - 1
    BY <1>6, <1>0, <1>1, <1>2
  <2>2. (x + H) % HighByte = x + H /\ Part(x + H, 1) = a /\ Part(x + H, H) = c + 1
    BY <2>1, <1>1, <1>3
  <2> QED
    BY <2>2
<1> HIDE DEF H
<1> QED
  BY <1>1, <1>2, <1>4, <1>5, <1>6 DEF H

(* The one part of a byte of count1.                                       *)
LEMMA OnePart ==
  ASSUME shared = FALSE, NEW x \in 0 .. HighByte - 1
  PROVE  /\ Part(x, 1) = x
         /\ x < HighBase - 1 => Part((x + 1) % HighByte, 1) = x + 1
<1>0. HighBase \in Nat \ {0, 1} /\ HighByte = HighBase
  BY CountersAssumption DEF HighBase, HighByte
<1>1. ASSUME NEW y \in 0 .. HighBase - 1 PROVE y % HighBase = y /\ Part(y, 1) = y
  <2>1. y \div 1 = y /\ y % HighBase = y
    BY <1>0, ModBelow
  <2> QED
    BY <2>1 DEF Part
<1>2. ASSUME x < HighBase - 1 PROVE x + 1 \in 0 .. HighBase - 1
  BY <1>0, <1>2
<1> QED
  BY <1>0, <1>1, <1>2

(* Which counters share a byte.                                            *)
LEMMA MatesAre ==
  ASSUME NEW p \in Pos, NEW q \in Pos, shared \in BOOLEAN
  PROVE  /\ p \in Mates(p)
         /\ q \in Mates(p) <=> p \in Mates(q)
         /\ q \in Mates(p) => Mates(q) = Mates(p)
         /\ q \notin Mates(p) <=> ByteOf(q) # ByteOf(p)
         /\ ~ shared => Unit(p) = 1 /\ ByteOf(p) = p
         /\ shared => Unit(p) \in {1, HighBase}
         /\ shared /\ q \in Mates(p) /\ q # p => Unit(q) # Unit(p)
<1>1. NPos \in Nat /\ p \in Nat /\ q \in Nat /\ HighBase # 1
  BY CountersAssumption, SplitAssumption DEF Pos, HighBase
<1>2. q \in Mates(p) <=> ByteOf(q) = ByteOf(p)
  BY DEF Mates
<1>3. ASSUME shared = TRUE, ByteOf(q) = ByteOf(p), q # p PROVE Unit(q) # Unit(p)
  <2>1. p = (2 * (p \div 2)) + (p % 2) /\ q = (2 * (q \div 2)) + (q % 2)
    BY <1>1, DivMod
  <2>2. p \div 2 = q \div 2
    BY <1>3 DEF ByteOf
  <2>3. p % 2 \in 0 .. 1 /\ q % 2 \in 0 .. 1 /\ p % 2 # q % 2
    <3>1. p % 2 \in 0 .. 1 /\ q % 2 \in 0 .. 1
      BY <1>1
    <3> QED
      BY <3>1, <2>1, <2>2, <1>3
  <2>4. p % 2 = 1 <=> q % 2 # 1
    BY <2>3
  <2> QED
    BY <2>4, <1>1, <1>3 DEF Unit
<1> QED
  BY <1>1, <1>2, <1>3 DEF Mates, Unit, ByteOf

(* An increment of an undisturbed counter increments its high part exactly *)
(* when the low part was zero, and leaves its neighbour's.                 *)
LEMMA IncParts ==
  ASSUME Typed, Parts, set = NoPos, NEW p \in Pos, Inc(p), NEW q \in Pos, Reliable(q)'
  PROVE  HighPart(q)' = Carried(exact[q])'
<1> DEFINE x == high[ByteOf(p)]
<1>1. /\ low \in [Pos -> 0 .. LowBase - 1] /\ exact \in [Pos -> Nat] /\ shared \in BOOLEAN
      /\ exact' = [exact EXCEPT ![p] = exact[p] + 1] /\ shared' = shared /\ set' = set
      /\ high' = IF low[p] = 0
                   THEN [high EXCEPT ![ByteOf(p)] = (x + Unit(p)) % HighByte] ELSE high
      /\ high \in [{ByteOf(r) : r \in Pos} -> 0 .. HighByte - 1]
  BY DEF Typed, Inc, Carries
<1>2. /\ HighBase' = HighBase /\ ByteOf(q)' = ByteOf(q) /\ Unit(q)' = Unit(q)
      /\ HighByte' = HighByte
  BY <1>1 DEF HighBase, ByteOf, Unit, HighByte
<1>3. p \in Nat /\ p # set /\ q # set
  BY CountersAssumption DEF Pos, NoPos
<1>4. exact[p]' = exact[p] + 1 /\ \A r \in Pos : r # p => exact[r]' = exact[r]
  BY <1>1
<1>5. Mates(q)' = Mates(q) /\ Limit' = Limit /\ Limit \in Int
  BY <1>1, <1>2, CountersAssumption, SplitAssumption DEF Mates, Limit, ByteOf, HighBase
<1>6. \A r \in Mates(q) : exact[r]' <= Limit
  BY <1>5 DEF Reliable
<1>7. \A r \in Mates(q) : exact[r] <= exact[r]' /\ exact[r] <= Limit
  <2>1. \A r \in Mates(q) : r \in Pos /\ exact[r] \in Nat /\ exact[r]' \in Nat
    BY <1>1, <1>4 DEF Mates
  <2> QED
    BY <2>1, <1>4, <1>5, <1>6
<1>8. Reliable(q) /\ HighPart(q) = Carried(exact[q])
  BY <1>3, <1>7 DEF Reliable, Parts
<1>9. HighPart(q) = Part(high[ByteOf(q)], Unit(q)) /\ HighPart(q)' = Part(high'[ByteOf(q)], Unit(q))
  BY <1>2 DEF HighPart, Part
<1>10. x \in 0 .. HighByte - 1
  BY <1>1
<1> HIDE DEF x
<1>11. CASE q \notin Mates(p)
  <2>1. high'[ByteOf(q)] = high[ByteOf(q)] /\ q # p
    BY <1>1, <1>11, MatesAre
  <2> QED
    BY <2>1, <1>4, <1>8, <1>9, <1>2
<1>12. CASE q \in Mates(p)
  <2>1. p \in Mates(q) /\ ByteOf(p) = ByteOf(q) /\ Mates(q) = Mates(p)
    BY <1>12, <1>1, MatesAre
  <2>2. Reliable(p) /\ exact[p] \in Nat /\ exact[p] + 1 <= Limit
    BY <2>1, <1>1, <1>3, <1>4, <1>6, <1>7 DEF Reliable
  <2>3. HighPart(p) = Carried(exact[p]) /\ low[p] = exact[p] % LowBase
    BY <2>2, <1>3 DEF Parts
  <2>4. HighPart(p) = Part(x, Unit(p)) /\ HighPart(q) = Part(x, Unit(q))
    BY <2>1, <1>9 DEF HighPart, Part, x
  <2>5. CASE low[p] # 0
    <3>1. high' = high
      BY <2>5, <1>1
    <3>2. Carried(exact[p] + 1) = Carried(exact[p])
      BY <2>2, <2>3, <2>5, <1>1, CarriedCounts
    <3> QED
      BY <3>1, <3>2, <1>4, <1>8, <1>9, <2>3
  <2>6. CASE low[p] = 0
    <3> DEFINE y == (x + Unit(p)) % HighByte
    <3>1. high'[ByteOf(q)] = y
      BY <2>6, <1>1, <2>1
    <3>2. Carried(exact[p] + 1) = Carried(exact[p]) + 1
      BY <2>2, <2>3, <2>6, <1>1, CarriedCounts
    <3>3. Carried(exact[p]) < HighBase - 1
      <4>1. exact[p] + 1 \in Nat
        BY <2>2
      <4>2. Carried(exact[p] + 1) <= HighBase - 1 /\ Carried(exact[p]) \in Nat
        BY <4>1, <2>2, <1>1, CarriedCounts
      <4> QED
        BY <4>2, <3>2, CountersAssumption, SplitAssumption DEF HighBase
    <3>4. Part(x, Unit(p)) < HighBase - 1
      BY <3>3, <2>3, <2>4
    <3>5. CASE ~ shared
      <4>1. Unit(p) = 1 /\ q = p
        BY <3>5, <2>1, <1>1, MatesAre
      <4>2. Part(y, 1) = Part(x, 1) + 1
        BY <4>1, <3>4, <3>5, <1>1, <1>10, OnePart
      <4> QED
        BY <4>1, <4>2, <3>1, <3>2, <2>3, <2>4, <1>4, <1>9
    <3>6. CASE shared
      <4>1. /\ Part(y, Unit(p)) = Part(x, Unit(p)) + 1
            /\ \A u \in {1, HighBase} : u # Unit(p) => Part(y, u) = Part(x, u)
        BY <3>4, <3>6, <1>1, <1>10, TwoParts, MatesAre
      <4>2. CASE q = p
        BY <4>1, <4>2, <3>1, <3>2, <2>3, <2>4, <1>4, <1>9
      <4>3. CASE q # p
        <5>1. Unit(q) # Unit(p) /\ Unit(q) \in {1, HighBase}
          BY <4>3, <3>6, <1>1, <1>12, MatesAre
        <5> QED
          BY <5>1, <4>1, <4>3, <3>1, <2>4, <1>4, <1>8, <1>9
      <4> QED
        BY <4>2, <4>3
    <3> QED
      BY <3>5, <3>6, <1>1
  <2> QED
    BY <2>5, <2>6
<1> QED
  BY <1>11, <1>12

--------------------------------------------------------------------------------
(* A window that is entered: where the scan goes, and what it passes.      *)
LEMMA Window ==
  ASSUME Typed, NEW beyond
  PROVE  /\ Advance(pos, beyond) \in Nat /\ pos <= Advance(pos, beyond)
         /\ \A p \in Pos : pos <= p /\ p < Advance(pos, beyond) => HighPart(p) = 0
         /\ NonZero(pos, beyond) # {} /\ Advance(pos, beyond) \in Pos =>
              HighPart(Advance(pos, beyond)) # 0
         /\ NonZero(pos, beyond) = {} /\ Advance(pos, beyond) \in Pos =>
              HighPart(Advance(pos, beyond)) = 0
<1> DEFINE W == WindowAt(pos)
           Z == NonZero(pos, beyond)
<1>1. W \in Nat \ {0} /\ pos \in Nat /\ NPos \in Nat
  BY CountersAssumption DEF WindowAt, Typed
<1>2. /\ \A k \in Z : k \in 0 .. W - 1
      /\ \A k \in 0 .. W - 1 : pos + k < NPos => (k \in Z <=> HighPart(pos + k) # 0)
  BY DEF NonZero
<1>3. Advance(pos, beyond) = pos + (IF Z = {} THEN W - 1 ELSE Min(Z))
  BY DEF Advance
<1>4. ASSUME Z # {} PROVE Min(Z) \in Z /\ \A k \in Z : Min(Z) <= k
  <2>1. Z \in SUBSET Nat
    BY <1>1, <1>2
  <2>2. \E x \in Z : \A y \in Z : x <= y
    BY <1>4, <2>1, LeastNat
  <2> QED
    BY <2>2 DEF Min
<1> HIDE DEF W, Z
<1>5. PICK m \in 0 .. W - 1 : /\ Advance(pos, beyond) = pos + m
                              /\ Z = {} => m = W - 1
                              /\ Z # {} => m \in Z /\ \A k \in Z : m <= k
  BY <1>1, <1>2, <1>3, <1>4
<1>6. \A k \in 0 .. W - 1 : k < m => k \notin Z
  BY <1>1, <1>2, <1>5
<1>7. ASSUME NEW p \in Pos, pos <= p, p < pos + m PROVE HighPart(p) = 0
  <2> DEFINE k == p - pos
  <2>1. k \in 0 .. W - 1 /\ k < m /\ pos + k = p /\ p < NPos
    BY <1>1, <1>5, <1>7 DEF Pos
  <2> HIDE DEF k
  <2> QED
    BY <2>1, <1>2, <1>6
<1>8. ASSUME pos + m \in Pos PROVE (Z # {}) <=> (HighPart(pos + m) # 0)
  <2>1. pos + m < NPos
    BY <1>8, <1>1 DEF Pos
  <2> QED
    BY <2>1, <1>2, <1>5
<1>9. pos + m \in Nat /\ pos <= pos + m
  BY <1>1, <1>5
<1> QED
  BY <1>5, <1>7, <1>8, <1>9 DEF Z

(* The invariant says enough of the counters it calls reliable.            *)
LEMMA ValueIs ==
  ASSUME Typed, Parts, NEW p \in Pos, Reliable(p)
  PROVE  /\ HighPart(p) > 0 <=> exact[p] > 0
         /\ Value(p) = exact[p]
         /\ exact[p] \in Nat /\ HighPart(p) \in Nat
<1>1. exact[p] \in Nat /\ shared \in BOOLEAN
  BY DEF Typed
<1>2. HighPart(p) = Carried(exact[p]) /\ low[p] = exact[p] % LowBase
  BY DEF Parts, Reliable
<1> QED
  BY <1>1, <1>2, CarriedCounts DEF Value

(* One step of a scan.                                                     *)
LEMMA ScanStep ==
  ASSUME CInv, NEW beyond, GetNext(beyond)
  PROVE  Scanned'
<1> DEFINE next == Advance(pos, beyond)
<1>1. /\ next \in Nat /\ pos <= next
      /\ \A p \in Pos : pos <= p /\ p < next => HighPart(p) = 0
      /\ NonZero(pos, beyond) # {} /\ next \in Pos => HighPart(next) # 0
      /\ NonZero(pos, beyond) = {} /\ next \in Pos => HighPart(next) = 0
  BY Window DEF CInv
<1>2. /\ phase = "scan" /\ phase' = "scan" /\ pos < NPos /\ pos' = next + 1
      /\ seen' = IF next < NPos /\ NonZero(pos, beyond) # {}
                   THEN seen \cup {<<next, Value(next)>>} ELSE seen
  BY DEF GetNext
<1>3. UNCHANGED <<shared, low, high, set, exact>>
  BY DEF GetNext
<1>4. \A p \in Pos : Reliable(p)' <=> Reliable(p)
  BY <1>3 DEF Reliable, Mates, ByteOf, Limit, HighBase
<1>5. pos \in Nat /\ NPos \in Nat /\ \A p \in Pos : p \in Nat /\ p < NPos
  BY CountersAssumption DEF CInv, Typed, Pos
<1>6. next < NPos <=> next \in Pos
  BY <1>1, <1>5 DEF Pos
<1>7. \A p \in Pos : Reliable(p) =>
        /\ HighPart(p) > 0 <=> exact[p] > 0
        /\ Value(p) = exact[p] /\ exact[p] \in Nat /\ HighPart(p) \in Nat
  BY ValueIs DEF CInv
<1> HIDE DEF next
<1>8. ASSUME NEW p \in Pos, Reliable(p)
      PROVE {e \in seen' : e[1] = p} =
              IF p < pos' /\ exact[p] > 0 THEN {<<p, exact[p]>>} ELSE {}
  <2>1. {e \in seen : e[1] = p} = IF p < pos /\ exact[p] > 0 THEN {<<p, exact[p]>>} ELSE {}
    BY <1>8 DEF CInv, Scanned
  <2>2. exact[p] > 0 <=> HighPart(p) # 0
    BY <1>7, <1>8
  <2>3. CASE p < pos
    <3>1. p # next /\ p < pos'
      BY <2>3, <1>1, <1>2, <1>5
    <3>2. {e \in seen' : e[1] = p} = {e \in seen : e[1] = p}
      BY <3>1, <1>2
    <3> QED
      BY <3>1, <3>2, <2>1, <2>3
  <2>4. CASE pos <= p /\ p < next
    <3>1. p # next /\ p < pos' /\ ~ (p < pos) /\ ~ (exact[p] > 0)
      BY <2>2, <2>4, <1>1, <1>2, <1>5
    <3>2. {e \in seen' : e[1] = p} = {e \in seen : e[1] = p}
      BY <3>1, <1>2
    <3> QED
      BY <3>1, <3>2, <2>1
  <2>5. CASE p = next
    <3>1. next \in Pos /\ p < pos' /\ ~ (p < pos)
      BY <2>5, <1>1, <1>2, <1>5
    <3>2. {e \in seen : e[1] = p} = {}
      BY <3>1, <2>1
    <3>3. CASE NonZero(pos, beyond) # {}
      <4>1. exact[p] > 0 /\ Value(next) = exact[p]
        BY <2>2, <2>5, <3>1, <3>3, <1>1, <1>7, <1>8
      <4>2. seen' = seen \cup {<<p, exact[p]>>}
        BY <4>1, <3>1, <3>3, <2>5, <1>2, <1>6
      <4> QED
        BY <4>1, <4>2, <3>1, <3>2
    <3>4. CASE NonZero(pos, beyond) = {}
      <4>1. ~ (exact[p] > 0) /\ seen' = seen
        BY <2>2, <2>5, <3>1, <3>4, <1>1, <1>2
      <4> QED
        BY <4>1, <3>2
    <3> QED
      BY <3>3, <3>4
  <2>6. CASE next < p
    <3>1. p # next /\ ~ (p < pos') /\ ~ (p < pos)
      BY <2>6, <1>1, <1>2, <1>5
    <3>2. {e \in seen' : e[1] = p} = {e \in seen : e[1] = p}
      BY <3>1, <1>2
    <3> QED
      BY <3>1, <3>2, <2>1
  <2> QED
    BY <2>3, <2>4, <2>5, <2>6, <1>1, <1>5
<1> QED
  BY <1>2, <1>3, <1>4, <1>8 DEF Scanned

--------------------------------------------------------------------------------
(* CInv is inductive.                                                      *)
THEOREM Counting == Spec => []CInv
<1>1. Init => CInv
  <2> SUFFICES ASSUME Init PROVE CInv
    OBVIOUS
  <2>0. /\ LowBase \in Nat \ {0, 1} /\ HighBase \in Nat \ {0, 1} /\ shared \in BOOLEAN
        /\ NPos \in Nat
    BY CountersAssumption, SplitAssumption DEF HighBase, Init
  <2>1. HighByte - 1 \in Nat /\ LowBase - 1 \in Nat
    <3>1. HighBase * HighBase - 1 \in Nat
      BY <2>0
    <3> QED
      BY <3>1, <2>0 DEF HighByte
  <2>2. Typed
    BY <2>0, <2>1 DEF Init, Typed
  <2>3. SetOnce
    BY DEF Init, SetOnce
  <2>4. Parts
    <3>1. 0 % LowBase = 0 /\ 0 \div LowBase = 0
      BY <2>0, ModBelow
    <3>2. 0 \in 0 .. HighByte - 1 /\ Part(0, 1) = 0
      <4>1. 0 \in 0 .. HighByte - 1
        BY <2>1
      <4> QED
        BY <4>1, <2>0, OnePart, TwoParts, ModBelow DEF Part
    <3>3. ASSUME NEW p \in Pos PROVE HighPart(p) = 0 /\ low[p] = 0 /\ exact[p] = 0
      <4>1. high[ByteOf(p)] = 0 /\ low[p] = 0 /\ exact[p] = 0
        BY DEF Init
      <4>2. Unit(p) \in {1, HighBase}
        BY DEF Unit
      <4>3. 0 \div Unit(p) = 0 /\ 0 % HighBase = 0
        BY <4>2, <2>0, ModBelow
      <4> QED
        BY <4>1, <4>3 DEF HighPart
    <3>4. Carried(0) = 0
      BY <3>1 DEF Carried
    <3> QED
      BY <3>1, <3>3, <3>4 DEF Parts
  <2>5. Scanned
    BY <2>0 DEF Init, Scanned, Pos
  <2> QED
    BY <2>2, <2>3, <2>4, <2>5 DEF CInv
<1>2. CInv /\ [Next]_vars => CInv'
  <2> SUFFICES ASSUME CInv, [Next]_vars PROVE CInv'
    OBVIOUS
  <2>0. /\ LowBase \in Nat \ {0, 1} /\ HighBase \in Nat \ {0, 1} /\ shared \in BOOLEAN
        /\ NPos \in Nat
    BY CountersAssumption, SplitAssumption DEF HighBase, CInv, Typed
  <2>1. ASSUME NEW p \in Pos, Inc(p) PROVE CInv'
    <3>1. /\ phase = "count" /\ UNCHANGED <<shared, phase, set, pos, seen>>
          /\ low' = [low EXCEPT ![p] = NextLow(low[p])]
          /\ exact' = [exact EXCEPT ![p] = exact[p] + 1]
          /\ high' = IF low[p] = 0
                       THEN [high EXCEPT ![ByteOf(p)] = (high[ByteOf(p)] + Unit(p)) % HighByte]
                       ELSE high
      BY <2>1 DEF Inc, Carries
    <3>2. /\ low \in [Pos -> 0 .. LowBase - 1] /\ exact \in [Pos -> Nat] /\ set = NoPos
          /\ high \in [{ByteOf(r) : r \in Pos} -> 0 .. HighByte - 1]
      BY <3>1 DEF CInv, Typed, SetOnce
    <3>3. Typed'
      <4>1. NextLow(low[p]) \in 0 .. LowBase - 1
        <5>1. low[p] + 1 \in Nat
          BY <3>2, <2>0
        <5> QED
          BY <5>1, <2>0, DivMod DEF NextLow
      <4>2. (high[ByteOf(p)] + Unit(p)) % HighByte \in 0 .. HighByte - 1
        <5>1. HighByte \in Nat \ {0}
          <6>1. HighBase * HighBase \in Nat \ {0}
            BY <2>0
          <6> QED
            BY <6>1, <2>0 DEF HighByte
        <5>2. high[ByteOf(p)] \in Nat /\ Unit(p) \in Nat
          BY <3>2, <2>0 DEF Unit
        <5>3. high[ByteOf(p)] + Unit(p) \in Nat
          BY <5>2
        <5> QED
          BY <5>1, <5>3, DivMod
      <4>3. /\ ByteOf(p) \in {ByteOf(r) : r \in Pos} /\ HighByte' = HighByte
            /\ \A r \in Pos : ByteOf(r)' = ByteOf(r)
        BY <3>1 DEF HighByte, HighBase, ByteOf
      <4>4. high' \in [{ByteOf(r) : r \in Pos} -> 0 .. HighByte - 1]
        BY <3>1, <3>2, <4>2, <4>3
      <4>5. low' \in [Pos -> 0 .. LowBase - 1] /\ exact' \in [Pos -> Nat]
        BY <3>1, <3>2, <4>1
      <4>6. {ByteOf(r) : r \in Pos}' = {ByteOf(r) : r \in Pos}
        BY <4>3
      <4>7. shared' \in BOOLEAN /\ pos' \in Nat /\ phase' \in {"count", "scan", "done"}
        BY <3>1 DEF CInv, Typed
      <4> QED
        BY <4>3, <4>4, <4>5, <4>6, <4>7 DEF Typed
    <3>4. SetOnce'
      BY <3>1, <3>2 DEF SetOnce
    <3>5. Parts'
      <4>1. ASSUME NEW q \in Pos PROVE low'[q] = exact'[q] % LowBase
        <5>1. low[q] = exact[q] % LowBase
          BY <3>2, <2>0 DEF CInv, Parts, NoPos, Pos
        <5>2. CASE q # p
          BY <5>1, <5>2, <3>1, <3>2
        <5>3. CASE q = p
          <6>1. (exact[p] + 1) % LowBase = NextLow(exact[p] % LowBase)
            BY <3>2, <2>0, CarriedCounts
          <6> QED
            BY <6>1, <5>1, <5>3, <3>1, <3>2
        <5> QED
          BY <5>2, <5>3
      <4>2. ASSUME NEW q \in Pos, Reliable(q)' PROVE HighPart(q)' = Carried(exact[q])'
        BY <4>2, <2>1, <3>2, IncParts DEF CInv
      <4> QED
        BY <4>1, <4>2 DEF Parts
    <3>6. Scanned'
      <4>1. /\ pos' = 0 /\ seen' = {}
        BY <3>1 DEF CInv, Scanned
      <4>2. \A q \in Pos : ~ (q < 0)
        BY <2>0 DEF Pos
      <4> QED
        BY <4>1, <4>2, <3>1 DEF Scanned
    <3> QED
      BY <3>3, <3>4, <3>5, <3>6 DEF CInv
  <2>2. ASSUME NEW p \in Pos, SetTerminator(p) PROVE CInv'
    <3>1. /\ phase = "count" /\ phase' = "scan" /\ ~ shared /\ set' = p /\ set = NoPos
          /\ UNCHANGED <<shared, pos, seen, exact>>
          /\ low' = [low EXCEPT ![p] = LowBase - 1]
          /\ high' = [high EXCEPT ![p] = AllOnes]
      BY <2>2 DEF SetTerminator, CInv, SetOnce
    <3>2. /\ low \in [Pos -> 0 .. LowBase - 1] /\ exact \in [Pos -> Nat]
          /\ high \in [{ByteOf(r) : r \in Pos} -> 0 .. HighByte - 1]
          /\ \A q \in Pos : ByteOf(q) = q /\ q # set
      BY <3>1, <2>0 DEF CInv, Typed, ByteOf, NoPos, Pos
    <3>3. /\ \A q : ByteOf(q)' = ByteOf(q) /\ Unit(q)' = Unit(q)
          /\ HighBase' = HighBase /\ HighByte' = HighByte /\ Limit' = Limit
      BY <3>1 DEF ByteOf, Unit, HighBase, HighByte, Limit
    <3>4. LowBase - 1 \in 0 .. LowBase - 1 /\ AllOnes \in 0 .. HighByte - 1
      BY <3>1, <2>0 DEF AllOnes, HighByte
    <3>5. Typed'
      <4>1. {ByteOf(r) : r \in Pos}' = {ByteOf(r) : r \in Pos}
        BY <3>3
      <4>2. high' \in [{ByteOf(r) : r \in Pos} -> 0 .. HighByte - 1]
        BY <3>1, <3>2, <3>4
      <4>3. low' \in [Pos -> 0 .. LowBase - 1]
        BY <3>1, <3>2, <3>4
      <4> QED
        BY <4>1, <4>2, <4>3, <3>1, <3>3 DEF Typed, CInv
    <3>6. SetOnce'
      <4>1. low'[p] = LowBase - 1 /\ high'[p] = AllOnes
        BY <3>1, <3>2
      <4> QED
        BY <4>1, <3>1, <3>3 DEF SetOnce, AllOnes
    <3>7. ASSUME NEW q \in Pos, q # p
          PROVE  low'[q] = low[q] /\ HighPart(q)' = HighPart(q)
      BY <3>7, <3>1, <3>2, <3>3 DEF HighPart
    <3>8. \A q \in Pos : Reliable(q)' => Reliable(q) /\ q # p
      <4>1. \A q \in Pos : Mates(q)' = Mates(q)
        BY <3>3 DEF Mates
      <4> QED
        BY <4>1, <3>1, <3>2, <3>3 DEF Reliable
    <3>9. Parts'
      <4>1. ASSUME NEW q \in Pos, q # p PROVE low'[q] = exact'[q] % LowBase
        BY <4>1, <3>1, <3>2, <3>7 DEF CInv, Parts
      <4>2. ASSUME NEW q \in Pos, Reliable(q)' PROVE HighPart(q)' = Carried(exact[q])'
        <5>1. Reliable(q) /\ q # p /\ Carried(exact[q])' = Carried(exact[q])
          BY <4>2, <3>1, <3>8
        <5> QED
          BY <5>1, <3>7 DEF CInv, Parts
      <4> QED
        BY <4>1, <4>2, <3>1 DEF Parts
    <3>10. Scanned'
      <4>1. pos' = 0 /\ seen' = {} /\ \A q \in Pos : ~ (q < 0)
        BY <3>1, <2>0 DEF CInv, Scanned, Pos
      <4> QED
        BY <4>1, <3>1 DEF Scanned
    <3> QED
      BY <3>5, <3>6, <3>9, <3>10 DEF CInv
  <2>3. ASSUME UNCHANGED <<shared, low, high, set, exact>>
        PROVE  /\ Parts'
               /\ \A p \in Pos : Reliable(p)' <=> Reliable(p)
               /\ {ByteOf(r) : r \in Pos}' = {ByteOf(r) : r \in Pos}
               /\ HighByte' = HighByte /\ AllOnes' = AllOnes
    <3>1. /\ \A q : ByteOf(q)' = ByteOf(q) /\ Unit(q)' = Unit(q)
          /\ HighBase' = HighBase /\ Limit' = Limit
      BY <2>3 DEF ByteOf, Unit, HighBase, Limit
    <3>2. \A p \in Pos : HighPart(p)' = HighPart(p) /\ Mates(p)' = Mates(p)
      BY <2>3, <3>1 DEF HighPart, Mates
    <3>3. \A p \in Pos : Reliable(p)' <=> Reliable(p)
      BY <2>3, <3>1, <3>2 DEF Reliable
    <3>4. HighByte' = HighByte /\ AllOnes' = AllOnes
      BY <2>3, <3>1 DEF HighByte, AllOnes
    <3>5. Parts'
      BY <2>3, <3>2, <3>3 DEF CInv, Parts, Carried
    <3> QED
      BY <3>1, <3>3, <3>4, <3>5
  <2>4. CASE StartScan
    <3>1. /\ UNCHANGED <<shared, low, high, set, exact>>
          /\ phase = "count" /\ phase' = "scan" /\ pos' = pos /\ seen' = seen
      BY <2>4 DEF StartScan
    <3> QED
      BY <3>1, <2>3 DEF CInv, Typed, SetOnce, Scanned
  <2>5. ASSUME NEW beyond, GetNext(beyond) PROVE CInv'
    <3>1. /\ UNCHANGED <<shared, low, high, set, exact>>
          /\ phase = "scan" /\ phase' = "scan" /\ pos' = Advance(pos, beyond) + 1
      BY <2>5 DEF GetNext
    <3>2. pos' \in Nat
      BY <3>1, Window DEF CInv
    <3>3. Scanned'
      BY <2>5, ScanStep
    <3> QED
      BY <3>1, <3>2, <3>3, <2>3 DEF CInv, Typed, SetOnce
  <2>6. CASE EndScan
    <3>1. /\ UNCHANGED <<shared, low, high, set, exact>>
          /\ pos >= NPos /\ phase = "scan" /\ phase' = "done" /\ pos' = pos /\ seen' = seen
      BY <2>6 DEF EndScan
    <3> QED
      BY <3>1, <2>3 DEF CInv, Typed, SetOnce, Scanned
  <2>7. CASE UNCHANGED vars
    <3>1. UNCHANGED <<shared, low, high, set, exact, phase, pos, seen>>
      BY <2>7 DEF vars
    <3> QED
      BY <3>1, <2>3 DEF CInv, Typed, SetOnce, Scanned
  <2> QED
    BY <2>1, <2>2, <2>4, <2>5, <2>6, <2>7 DEF Next
<1> QED
  BY <1>1, <1>2, PTL DEF Spec

(* The two parts together are the count, and the high part alone tells     *)
(* whether it is zero (libfsst.hpp:392), however the increments of two     *)
(* neighbours interleave.                                                  *)
THEOREM HighEarlyAlways == Spec => []HighEarly
<1>1. CInv => HighEarly
  BY ValueIs DEF CInv, HighEarly
<1> QED
  BY <1>1, Counting, PTL

(* The terminator's counter reads highest of all below the limit.          *)
THEOREM TerminatorLargestAlways == Spec => []TerminatorLargest
<1>1. CInv => TerminatorLargest
  <2> SUFFICES ASSUME CInv, set # NoPos, NEW q \in Pos, exact[q] < Limit
               PROVE  exact[q] <= Value(set)
    BY DEF TerminatorLargest
  <2>0. LowBase \in Nat \ {0, 1} /\ HighBase \in Nat \ {0, 1} /\ exact[q] \in Nat
    BY CountersAssumption, SplitAssumption DEF HighBase, CInv, Typed
  <2>1. /\ set \in Pos /\ shared = FALSE /\ low[set] = LowBase - 1
        /\ high[set] = HighBase - 1
    BY DEF CInv, SetOnce, Typed, AllOnes
  <2>2. HighPart(set) = HighBase - 1
    <3>1. ByteOf(set) = set /\ Unit(set) = 1
      BY <2>1 DEF ByteOf, Unit
    <3>2. HighBase - 1 \in 0 .. HighByte - 1
      BY <2>0, <2>1 DEF HighByte
    <3>3. Part(HighBase - 1, 1) = HighBase - 1
      BY <3>2, <2>1, OnePart
    <3> QED
      BY <3>1, <3>3, <2>1 DEF HighPart, Part
  <2>3. Value(set) = (HighBase - 1 - 1) * LowBase + (LowBase - 1)
    BY <2>0, <2>1, <2>2 DEF Value, Combine
  <2>4. Limit = Value(set) + 1
    BY <2>0, <2>3 DEF Limit
  <2>5. Value(set) \in Int
    BY <2>0, <2>3
  <2> QED
    BY <2>0, <2>4, <2>5
<1> QED
  BY <1>1, Counting, PTL

(* A scan returns every counter that is not zero, once, and no other.      *)
THEOREM ScanCompleteAlways == Spec => []ScanComplete
<1>1. CInv => ScanComplete
  <2> SUFFICES ASSUME CInv, phase = "done", NEW p \in Pos, Reliable(p)
               PROVE  {e \in seen : e[1] = p} = IF exact[p] = 0 THEN {} ELSE {<<p, exact[p]>>}
    BY DEF ScanComplete
  <2>1. {e \in seen : e[1] = p} = IF p < pos /\ exact[p] > 0 THEN {<<p, exact[p]>>} ELSE {}
    BY DEF CInv, Scanned
  <2>2. p < pos
    BY CountersAssumption DEF CInv, Scanned, Typed, Pos
  <2>3. exact[p] \in Nat
    BY DEF CInv, Typed
  <2> QED
    BY <2>1, <2>2, <2>3
<1> QED
  BY <1>1, Counting, PTL

--------------------------------------------------------------------------------
(* What a row of count2 reads beyond the limit.                            *)

(* An addition after a remainder was taken.                                *)
LEMMA ModAdd ==
  ASSUME NEW m \in Nat \ {0}, NEW x \in Nat, NEW y \in Nat
  PROVE  ((x % m) + y) % m = (x + y) % m
<1> DEFINE k == x \div m
           r == x % m
<1>1. k \in Nat /\ r \in 0 .. m - 1 /\ x = (m * k) + r
  BY DivMod
<1> HIDE DEF k, r
<1> DEFINE j == (r + y) \div m
           t == (r + y) % m
<1>2. r + y \in Nat
  BY <1>1
<1>3. j \in Nat /\ t \in 0 .. m - 1 /\ r + y = (m * j) + t
  BY <1>2, DivMod
<1> HIDE DEF j, t
<1>4. k + j \in Nat /\ x + y = (m * (k + j)) + t
  BY <1>1, <1>3
<1>5. ((m * (k + j)) + t) % m = t
  BY <1>3, <1>4, DivModUnique
<1> QED
  BY <1>4, <1>5 DEF r, t

(* The two digits that are left of a sum in which the lower one overflows. *)
LEMMA TwoDigits ==
  ASSUME NEW b \in Nat \ {0, 1}, NEW e \in Nat, NEW o \in Nat
  PROVE  LET a == (e + (b * o)) % (b * b)
         IN  a \in Nat /\ a % b = e % b /\ (a \div b) % b = (o + (e \div b)) % b
<1> DEFINE k == e \div b
           r == e % b
<1>1. k \in Nat /\ r \in 0 .. b - 1 /\ e = (b * k) + r
  BY DivMod
<1> HIDE DEF k, r
<1> DEFINE j == (o + k) \div b
           t == (o + k) % b
<1>2. o + k \in Nat
  BY <1>1
<1>3. j \in Nat /\ t \in 0 .. b - 1 /\ o + k = (b * j) + t
  BY <1>2, DivMod
<1> HIDE DEF j, t
<1> DEFINE d == (b * t) + r
           m == b * b
<1>4. m \in Nat \ {0} /\ d \in 0 .. m - 1
  <2>1. b * t <= b * (b - 1)
    BY <1>3
  <2> QED
    BY <2>1, <1>1, <1>3
<1>5. e + (b * o) = (m * j) + d
  <2>1. e + (b * o) = (b * (o + k)) + r
    BY <1>1
  <2>2. b * ((b * j) + t) = (m * j) + (b * t)
    BY <1>3
  <2> QED
    BY <2>1, <2>2, <1>1, <1>3
<1>6. d \div b = t /\ d % b = r /\ t % b = t
  BY <1>1, <1>3, DivModUnique, ModBelow
<1> HIDE DEF d, m
<1>7. ((m * j) + d) % m = d
  BY <1>3, <1>4, DivModUnique
<1>8. (e + (b * o)) % m = d /\ d \in Nat
  BY <1>4, <1>5, <1>7
<1> QED
  BY <1>6, <1>8 DEF k, r, t, m

(* The increments of a high part are its carries.                          *)
LEMMA IncsAre ==
  ASSUME NEW n \in Nat, shared \in BOOLEAN
  PROVE  /\ HighIncs(n) \in Nat
         /\ HighIncs(n + 1) = IF n % LowBase = 0 THEN HighIncs(n) + 1 ELSE HighIncs(n)
         /\ HighIncs(n) = 0 <=> n = 0
<1>0. LowBase \in Nat \ {0, 1}
  BY SplitAssumption
<1>1. ASSUME NEW k \in Nat PROVE HighIncs(k) = Carried(k)
  <2> DEFINE q == k \div LowBase
             r == k % LowBase
  <2>1. q \in Nat /\ r \in 0 .. LowBase - 1 /\ k = (LowBase * q) + r
    BY <1>0, DivMod
  <2>2. HighIncs(k) = (k + LowBase - 1) \div LowBase
    BY DEF HighIncs
  <2>3. Carried(k) = IF r = 0 THEN q ELSE q + 1
    BY DEF Carried
  <2> HIDE DEF q, r
  <2>4. CASE r = 0
    <3>1. k + LowBase - 1 = (LowBase * q) + (LowBase - 1) /\ LowBase - 1 \in 0 .. LowBase - 1
      BY <1>0, <2>1, <2>4
    <3>2. ((LowBase * q) + (LowBase - 1)) \div LowBase = q
      BY <3>1, <1>0, <2>1, DivModUnique
    <3> QED
      BY <3>1, <3>2, <2>2, <2>3, <2>4
  <2>5. CASE r # 0
    <3>1. k + LowBase - 1 = (LowBase * (q + 1)) + (r - 1) /\ r - 1 \in 0 .. LowBase - 1 /\ q + 1 \in Nat
      BY <1>0, <2>1, <2>5
    <3>2. ((LowBase * (q + 1)) + (r - 1)) \div LowBase = q + 1
      BY <3>1, <1>0, DivModUnique
    <3> QED
      BY <3>1, <3>2, <2>2, <2>3, <2>5
  <2> QED
    BY <2>4, <2>5
<1>2. /\ Carried(n) \in Nat
      /\ Carried(n + 1) = IF n % LowBase = 0 THEN Carried(n) + 1 ELSE Carried(n)
      /\ Carried(n) > 0 <=> n > 0
  BY CarriedCounts
<1>3. HighIncs(n) = Carried(n) /\ HighIncs(n + 1) = Carried(n + 1)
  BY <1>1
<1> QED
  BY <1>2, <1>3

(* A byte of high parts is the sum of what its two counters have added,    *)
(* as far as it has room for it.                                           *)
Added(p) == IF p \in Pos THEN HighIncs(exact[p]) ELSE 0
Sum(b)   == Added(2 * b) + (HighBase * Added(2 * b + 1))
RowBytes == shared => \A p \in Pos : high[p \div 2] = Sum(p \div 2) % HighByte
RInv     == CInv /\ RowBytes

(* A position and the two of a byte.                                       *)
LEMMA Halves ==
  /\ \A p \in Nat : /\ p \div 2 \in Nat
                    /\ p % 2 = 0 => p = 2 * (p \div 2)
                    /\ p % 2 # 0 => p % 2 = 1 /\ p = 2 * (p \div 2) + 1
  /\ \A b, p \in Nat : p = 2 * b \/ p = 2 * b + 1 => b = p \div 2
OBVIOUS

LEMMA SumType ==
  ASSUME Typed, NEW b \in Nat
  PROVE  Added(2 * b) \in Nat /\ Added(2 * b + 1) \in Nat /\ Sum(b) \in Nat
<1>1. \A p \in Pos : HighIncs(exact[p]) \in Nat
  BY IncsAre DEF Typed
<1>2. Added(2 * b) \in Nat /\ Added(2 * b + 1) \in Nat /\ HighBase \in Nat
  BY <1>1, CountersAssumption, SplitAssumption DEF Added, HighBase
<1> QED
  BY <1>2 DEF Sum

(* An increment adds to the sum of its own byte, if the high part carries. *)
LEMMA SumNext ==
  ASSUME Typed, Parts, shared, set = NoPos, NEW p \in Pos, Inc(p), NEW b \in Nat
  PROVE  Sum(b)' = IF b = p \div 2 /\ low[p] = 0 THEN Sum(b) + Unit(p) ELSE Sum(b)
<1>1. /\ exact \in [Pos -> Nat] /\ exact' = [exact EXCEPT ![p] = exact[p] + 1]
      /\ shared' = shared /\ p \in Nat
  BY CountersAssumption DEF Typed, Inc, Pos
<1>2. low[p] = exact[p] % LowBase
  BY <1>1, CountersAssumption DEF Parts, Pos, NoPos
<1>3. HighBase' = HighBase /\ HighBase \in Nat
  BY <1>1, CountersAssumption, SplitAssumption DEF HighBase
<1> DEFINE c == IF low[p] = 0 THEN 1 ELSE 0
<1>4. Added(p)' = Added(p) + c
  <2>1. HighIncs(exact[p]) \in Nat
        /\ HighIncs(exact[p] + 1) = IF exact[p] % LowBase = 0 THEN HighIncs(exact[p]) + 1 ELSE HighIncs(exact[p])
    BY <1>1, IncsAre
  <2>2. Added(p)' = HighIncs(exact[p] + 1) /\ Added(p) = HighIncs(exact[p])
    BY <1>1 DEF Added
  <2> QED
    BY <2>1, <2>2, <1>2
<1>5. ASSUME NEW q, q # p PROVE Added(q)' = Added(q)
  BY <1>1, <1>5 DEF Added
<1>6. Added(2 * b) \in Nat /\ Added(2 * b + 1) \in Nat
  BY SumType
<1>7. Sum(b) = Added(2 * b) + (HighBase * Added(2 * b + 1))
      /\ Sum(b)' = Added(2 * b)' + (HighBase * Added(2 * b + 1)')
  BY <1>3 DEF Sum
<1>8. CASE b # p \div 2
  <2>1. 2 * b # p /\ 2 * b + 1 # p
    BY <1>1, <1>8, Halves
  <2>2. Added(2 * b)' = Added(2 * b) /\ Added(2 * b + 1)' = Added(2 * b + 1)
    BY <2>1, <1>5
  <2> QED
    BY <2>2, <1>7, <1>8
<1>9. CASE b = p \div 2 /\ p % 2 = 0
  <2>1. p = 2 * b /\ 2 * b + 1 # p /\ Unit(p) = 1
    BY <1>1, <1>9, Halves DEF Unit
  <2>2. Added(2 * b)' = Added(2 * b) + c /\ Added(2 * b + 1)' = Added(2 * b + 1)
    BY <2>1, <1>4, <1>5
  <2>3. Sum(b)' = Sum(b) + c
    BY <2>2, <1>3, <1>6, <1>7
  <2> QED
    BY <2>1, <2>3, <1>3, <1>6, <1>7, <1>9
<1>10. CASE b = p \div 2 /\ p % 2 # 0
  <2>1. p = 2 * b + 1 /\ 2 * b # p /\ Unit(p) = HighBase
    BY <1>1, <1>10, Halves DEF Unit
  <2>2. Added(2 * b)' = Added(2 * b) /\ Added(2 * b + 1)' = Added(2 * b + 1) + c
    BY <2>1, <1>4, <1>5
  <2>3. Sum(b)' = Sum(b) + HighBase * c
    BY <2>2, <1>3, <1>6, <1>7
  <2> QED
    BY <2>1, <2>3, <1>3, <1>6, <1>7, <1>10
<1> QED
  BY <1>8, <1>9, <1>10

(* RowBytes is inductive with CInv.                                        *)
THEOREM RowCounting == Spec => []RInv
<1>1. Init => RowBytes
  <2> SUFFICES ASSUME Init, shared, NEW p \in Pos
               PROVE  high[p \div 2] = Sum(p \div 2) % HighByte
    BY DEF RowBytes
  <2>1. HighBase \in Nat \ {0, 1} /\ HighByte = HighBase * HighBase /\ p \in Nat
    BY CountersAssumption, SplitAssumption DEF HighBase, HighByte, Pos
  <2>2. high[p \div 2] = 0
    BY DEF Init, ByteOf
  <2>3. \A q : Added(q) = 0
    BY IncsAre DEF Added, Init
  <2>4. Sum(p \div 2) = 0
    BY <2>1, <2>3 DEF Sum
  <2>5. HighByte \in Nat \ {0}
    BY <2>1
  <2>6. 0 % HighByte = 0
    BY <2>5, ModBelow
  <2> QED
    BY <2>2, <2>4, <2>6
<1>2. CInv /\ RowBytes /\ [Next]_vars => RowBytes'
  <2> SUFFICES ASSUME CInv, RowBytes, [Next]_vars, shared', NEW q \in Pos
               PROVE  high'[q \div 2] = Sum(q \div 2)' % HighByte'
    BY DEF RowBytes
  <2> DEFINE b == q \div 2
  <2>1. shared' = shared
    BY DEF Next, Inc, SetTerminator, StartScan, GetNext, EndScan, vars
  <2>2. /\ shared /\ high[b] = Sum(b) % HighByte /\ HighByte' = HighByte
        /\ HighBase \in Nat \ {0, 1} /\ HighByte = HighBase * HighBase
        /\ b \in Nat /\ ByteOf(q) = b
    BY <2>1, Halves, CountersAssumption, SplitAssumption DEF RowBytes, HighByte, HighBase, Pos, ByteOf
  <2> HIDE DEF b
  <2>3. ASSUME NEW p \in Pos, Inc(p) PROVE high'[b] = Sum(b)' % HighByte
    <3>1. Typed /\ Parts /\ set = NoPos
      BY <2>3 DEF CInv, SetOnce, Inc
    <3>2. Sum(b)' = IF b = p \div 2 /\ low[p] = 0 THEN Sum(b) + Unit(p) ELSE Sum(b)
      BY <3>1, <2>2, <2>3, SumNext
    <3>3. /\ high' = IF low[p] = 0
                       THEN [high EXCEPT ![p \div 2] = (high[p \div 2] + Unit(p)) % HighByte]
                       ELSE high
          /\ b \in DOMAIN high
      BY <2>2, <2>3, <3>1 DEF Inc, Carries, ByteOf, Typed
    <3>4. Sum(b) \in Nat /\ Unit(p) \in Nat /\ HighByte \in Nat \ {0}
      BY <3>1, <2>2, SumType DEF Unit
    <3>5. CASE b = p \div 2 /\ low[p] = 0
      <4>1. high'[b] = ((Sum(b) % HighByte) + Unit(p)) % HighByte
        BY <3>3, <3>5, <2>2
      <4>2. high'[b] = (Sum(b) + Unit(p)) % HighByte
        BY <4>1, <3>4, ModAdd
      <4> QED
        BY <4>2, <3>2, <3>5
    <3>6. CASE ~ (b = p \div 2 /\ low[p] = 0)
      <4>1. high'[b] = high[b]
        BY <3>3, <3>6
      <4> QED
        BY <4>1, <3>2, <3>6, <2>2
    <3> QED
      BY <3>5, <3>6
  <2>4. ASSUME high' = high, exact' = exact PROVE high'[b] = Sum(b)' % HighByte
    <3>1. Sum(b)' = Sum(b)
      BY <2>1, <2>4 DEF Sum, Added, HighBase
    <3> QED
      BY <3>1, <2>2, <2>4
  <2>5. \A p \in Pos : ~ SetTerminator(p)
    BY <2>2 DEF SetTerminator
  <2> QED
    BY <2>2, <2>3, <2>4, <2>5 DEF Next, StartScan, GetNext, EndScan, vars, b
<1> QED
  BY <1>1, <1>2, Counting, PTL DEF Spec, RInv

(* What a row of count2 reads, overflow included, is what its counts say   *)
(* (libfsst.hpp:395 to 426): in whatever order the increments came, the    *)
(* carries out of the lower four bits of a byte go to the upper four.      *)
THEOREM RowReadAlways == Spec => []RowRead
<1>1. RInv => RowRead
  <2> DEFINE counts == [p \in {<<0, q>> : q \in {q \in Pos : exact[q] > 0}} |-> exact[p[2]]]
             read   == Count2Read(counts)
  <2> SUFFICES ASSUME RInv, shared, NEW p \in Pos
               PROVE  /\ HighPart(p) # 0 <=> <<0, p>> \in DOMAIN read
                      /\ HighPart(p) # 0 => Value(p) = read[<<0, p>>]
    BY DEF RowRead
  <2> DEFINE b == p \div 2
             x == high[b]
             e == Added(2 * b)
             o == Added(2 * b + 1)
  <2>1. /\ Typed /\ Parts /\ set = NoPos /\ exact \in [Pos -> Nat]
        /\ p \in Nat /\ p # set
    BY CountersAssumption DEF RInv, CInv, Typed, SetOnce, Pos, NoPos
  <2>2. /\ HighBase = High2Base /\ HighBase \in Nat \ {0, 1} /\ HighByte = HighBase * HighBase
        /\ b \in Nat /\ x = Sum(b) % HighByte /\ e \in Nat /\ o \in Nat
        /\ Sum(b) = e + (HighBase * o)
    BY <2>1, Halves, SumType, SplitAssumption DEF RInv, RowBytes, HighBase, HighByte, Sum
  <2>4. ASSUME NEW q \in Pos
        PROVE  /\ CountOf(<<0, q>>, counts) = exact[q] /\ Added(q) = HighIncs(exact[q])
               /\ <<0, q>> \in DOMAIN counts <=> exact[q] > 0
    <3>1. <<0, q>> \in DOMAIN counts <=> exact[q] > 0
      OBVIOUS
    <3>2. exact[q] > 0 => counts[<<0, q>>] = exact[q]
      OBVIOUS
    <3> HIDE DEF counts
    <3>3. CountOf(<<0, q>>, counts) = exact[q]
      BY <3>1, <3>2, <2>1 DEF CountOf
    <3> QED
      BY <3>1, <3>3 DEF Added
  <2> HIDE DEF counts, b, x, e, o
  <2>3. x \in Nat /\ x % HighBase = e % HighBase /\ (x \div HighBase) % HighBase = (o + (e \div HighBase)) % HighBase
    <3>1. x = (e + (HighBase * o)) % (HighBase * HighBase)
      BY <2>2
    <3>2. HighBase \in Nat \ {0, 1} /\ e \in Nat /\ o \in Nat
      BY <2>2
    <3>3. LET a == (e + (HighBase * o)) % (HighBase * HighBase)
          IN  a \in Nat /\ a % HighBase = e % HighBase /\ (a \div HighBase) % HighBase = (o + (e \div HighBase)) % HighBase
      BY <3>2, TwoDigits, Zenon
    <3> QED
      BY <3>1, <3>3
  <2>odd. p % 2 # 0 => p % 2 = 1 /\ p = 2 * b + 1 /\ 2 * b = p - 1 /\ 2 * b \in Pos
    <3>1. p % 2 # 0 => p % 2 = 1 /\ p = 2 * b + 1
      BY <2>1, Halves DEF b
    <3>2. p \in 0 .. NPos - 1 /\ NPos \in Nat
      BY CountersAssumption DEF Pos
    <3>3. p = 2 * b + 1 => 2 * b = p - 1 /\ 2 * b \in 0 .. NPos - 1
      BY <3>2, <2>1, <2>2
    <3> QED
      BY <3>1, <3>3 DEF Pos
  <2>5. High2(counts, <<0, p>>) = HighPart(p)
    <3>1. CASE p % 2 = 0
      <4>1. HighPart(p) = x % HighBase
        BY <3>1, <2>3 DEF HighPart, ByteOf, Unit, x, b
      <4>2. e = HighIncs(exact[p])
        BY <3>1, <2>1, <2>4, Halves DEF e, b
      <4> QED
        BY <4>1, <4>2, <3>1, <2>2, <2>3, <2>4 DEF High2
    <3>2. CASE p % 2 # 0
      <4>1. p % 2 = 1 /\ p = 2 * b + 1 /\ 2 * b = p - 1 /\ 2 * b \in Pos
        BY <3>2, <2>odd
      <4>2. HighPart(p) = (x \div HighBase) % HighBase
        BY <4>1 DEF HighPart, ByteOf, Unit, x, b
      <4>3. o = HighIncs(exact[p]) /\ e = HighIncs(CountOf(EvenBefore(<<0, p>>), counts))
        BY <4>1, <2>4 DEF o, e, EvenBefore
      <4>4. High2(counts, <<0, p>>) = (o + (e \div High2Base)) % High2Base
        BY <3>2, <4>3, <2>4 DEF High2
      <4> QED
        BY <4>2, <4>4, <2>2, <2>3
    <3> QED
      BY <3>1, <3>2
  <2>6. HighPart(p) # 0 => <<0, p>> \in DOMAIN counts \cup {OddAfter(r) : r \in {r \in DOMAIN counts : r[2] % 2 = 0}}
    <3> SUFFICES ASSUME HighPart(p) # 0, <<0, p>> \notin DOMAIN counts
                 PROVE  \E r \in DOMAIN counts : r[2] % 2 = 0 /\ OddAfter(r) = <<0, p>>
      OBVIOUS
    <3>1. exact[p] = 0 /\ HighIncs(exact[p]) = 0 /\ Added(p) = 0
      BY <2>1, <2>4, IncsAre DEF Typed
    <3>2. 0 % HighBase = 0 /\ 0 \div HighBase = 0
      BY <2>2, ModBelow
    <3>3. p % 2 # 0
      <4>1. ASSUME p % 2 = 0 PROVE FALSE
        <5>1. High2(counts, <<0, p>>) = 0 % HighBase
          BY <4>1, <3>1, <2>2, <2>4 DEF High2
        <5> QED
          BY <5>1, <3>2, <2>5
      <4> QED
        BY <4>1
    <3>4. p % 2 = 1 /\ p = 2 * b + 1 /\ 2 * b = p - 1 /\ 2 * b \in Pos /\ (2 * b) % 2 = 0
      <4>1. (2 * b) % 2 = 0
        BY <2>2
      <4> QED
        BY <4>1, <3>3, <2>odd
    <3>5. exact[2 * b] > 0
      <4>1. ASSUME exact[2 * b] = 0 PROVE FALSE
        <5>1. HighIncs(CountOf(EvenBefore(<<0, p>>), counts)) = 0
          BY <4>1, <3>1, <3>4, <2>4 DEF EvenBefore
        <5>2. High2(counts, <<0, p>>) = 0 % HighBase
          BY <5>1, <3>1, <3>2, <3>3, <2>2, <2>4 DEF High2
        <5> QED
          BY <5>2, <3>2, <2>5
      <4>2. exact[2 * b] \in Nat
        BY <3>4, <2>1
      <4> QED
        BY <4>1, <4>2
    <3>6. <<0, 2 * b>> \in DOMAIN counts /\ OddAfter(<<0, 2 * b>>) = <<0, p>>
      BY <3>4, <3>5, <2>4 DEF OddAfter
    <3> QED
      BY <3>4, <3>6
  <2>7. low[p] = CountOf(<<0, p>>, counts) % LowBase
    BY <2>1, <2>4 DEF Parts
  <2> QED
    BY <2>5, <2>6, <2>7 DEF Count2Read, Value
<1> QED
  BY <1>1, RowCounting, PTL
================================================================================
