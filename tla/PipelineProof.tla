----------------------------- MODULE PipelineProof -----------------------------
(***************************************************************************)
(* Proofs about the command line tool, for every block size, every file    *)
(* length and both directions: no buffer is raced for, and what is written *)
(* is the blocks of the result, whole, in order and, once main believes    *)
(* so, all of them.  The invariant counts the blocks that were read, sent  *)
(* off and written, says which of them each full buffer holds, and where   *)
(* the reader is in the file.  And about the semaphores the tool is built  *)
(* on, for any number of threads: mutual exclusion, no lost wakeup, and    *)
(* that every step of the class is a step of the atomic semaphore that the *)
(* pipeline uses, or changes nothing that its user can see.                *)
(***************************************************************************)
EXTENDS Pipeline, BinarySemaphore, FiniteSets, FiniteSetsExt, Functions,
        FiniteSetTheorems, WellFoundedInduction, TLAPS

(* Main has not yet begun to release the other threads.                    *)
InLoop ==
  pcM \in {"waitSrc", "waitDst", "test", "process", "postSrc", "postDst", "report", "stop"}

(* The values of the semaphores and the places of the threads; the buffers *)
(* stay two.                                                               *)
Places ==
  /\ srcDoneIO \in [Buffer -> BOOLEAN] /\ srcDoneCPU \in [Buffer -> BOOLEAN]
  /\ dstDoneIO \in [Buffer -> BOOLEAN] /\ dstDoneCPU \in [Buffer -> BOOLEAN]
  /\ pcR \in {"wait", "check", "read", "post", "ended"}
  /\ pcM \in {"waitSrc", "waitDst", "test", "process", "postSrc", "postDst", "report",
              "crashed", "stop", "releaseSrc", "releaseDst", "await", "join", "exit"}
  /\ pcW \in {"wait", "test", "write", "post", "drain", "ended"}
  /\ swapR \in Buffer /\ swapM \in Buffer /\ swapW \in Buffer
  /\ srcBuf = [b \in Buffer |-> srcBuf[b]] /\ srcLen = [b \in Buffer |-> srcLen[b]]
  /\ dstBuf = [b \in Buffer |-> dstBuf[b]] /\ dstLen = [b \in Buffer |-> dstLen[b]]

(* An input buffer is in one hand.                                         *)
SourceOwned(b) ==
  /\ ~ (srcDoneCPU[b] /\ (ReaderHas(b) \/ srcDoneIO[b] \/ MainHasSrc(b)))
  /\ ~ (ReaderHas(b) /\ (srcDoneIO[b] \/ MainHasSrc(b)))
  /\ ~ (srcDoneIO[b] /\ MainHasSrc(b))

(* An output buffer is in one hand.                                        *)
TargetOwned(b) ==
  /\ ~ (dstDoneIO[b] /\ (MainHasDst(b) \/ dstDoneCPU[b] \/ WriterHas(b)))
  /\ ~ (MainHasDst(b) /\ (dstDoneCPU[b] \/ WriterHas(b)))
  /\ ~ (dstDoneCPU[b] /\ WriterHas(b))

(* The writer is given nothing empty before the loop has ended, so that it *)
(* does not stop, and does not give away buffers, too early.               *)
OutputComes ==
  /\ pcW \notin {"drain", "ended"}
  /\ \A b \in Buffer :
       dstDoneCPU[b] \/ WriterHas(b) \/ (pcM \in {"postSrc", "postDst"} /\ swapM = b)
         => dstLen[b] > 0

SourceInv == Places /\ (InLoop => \A b \in Buffer : SourceOwned(b))

TargetInv == InLoop => OutputComes /\ \A b \in Buffer : TargetOwned(b)

--------------------------------------------------------------------------------
(* Induction over the numbers, and sequences of sequences.                 *)

(* A set of numbers that is not empty has a least element.                 *)
LEMMA LeastNat ==
  ASSUME NEW T \in SUBSET Nat, T # {}
  PROVE  \E x \in T : \A y \in T : x <= y
<1> DEFINE R == {p \in Nat \X Nat : p[1] < p[2]}
<1>1. IsWellFoundedOn(R, Nat)
  BY NatLessThanWellFounded DEF OpToRel
<1>2. \A x, y \in Nat : <<x, y>> \in R <=> x < y
  OBVIOUS
<1> HIDE DEF R
<1>3. PICK x \in T : \A y \in T : ~ (<<y, x>> \in R)
  BY <1>1, WFMin
<1>4. ASSUME NEW y \in T PROVE x <= y
  <2>1. x \in Nat /\ y \in Nat /\ ~ (<<y, x>> \in R)
    BY <1>3
  <2>2. ~ (y < x)
    BY <2>1, <1>2
  <2> QED
    BY <2>1, <2>2
<1> QED
  BY <1>4

(* Induction over the numbers, for the set of those that have a property.  *)
LEMMA SetInduction ==
  ASSUME NEW T, 0 \in T, \A n \in Nat : n \in T => n + 1 \in T
  PROVE  \A n \in Nat : n \in T
<1> DEFINE B == Nat \ T
<1>1. ASSUME B # {} PROVE FALSE
  <2>1. PICK x \in B : \A y \in B : x <= y
    BY <1>1, LeastNat
  <2>2. x \in Nat /\ x # 0 /\ x - 1 \in Nat
    BY <2>1
  <2>3. x - 1 \in T
    <3>1. ~ (x - 1 \in B)
      BY <2>1, <2>2
    <3> QED
      BY <3>1, <2>2
  <2>4. x - 1 + 1 \in T
    BY <2>2, <2>3
  <2> QED
    BY <2>1, <2>2, <2>4
<1> QED
  BY <1>1

(* Sequences that are written one behind the other.                        *)
Joins(ss, f, n) == \A i \in 1 .. n : f[i] = IF i = 1 THEN ss[i] ELSE f[i - 1] \o ss[i]

Joined(ss) ==
  CHOOSE f : f = [i \in 1 .. Len(ss) |-> IF i = 1 THEN ss[i] ELSE f[i - 1] \o ss[i]]

(* The recursive function of FlattenSeq exists.                            *)
LEMMA JoinedExists ==
  ASSUME NEW ss, Len(ss) \in Nat
  PROVE  Joins(ss, Joined(ss), Len(ss))
<1> DEFINE n == Len(ss)
           Step(f, i) == IF i = 1 THEN ss[i] ELSE f[i - 1] \o ss[i]
           T == {e \in Nat : \E f : f = [i \in 1 .. n |-> f[i]] /\
                               \A i \in 1 .. n : i <= e => f[i] = Step(f, i)}
<1>0. n \in Nat
  OBVIOUS
<1>1. 0 \in T
  <2> DEFINE f == [i \in 1 .. n |-> 0]
  <2>1. f = [i \in 1 .. n |-> f[i]] /\ \A i \in 1 .. n : ~ (i <= 0)
    BY <1>0
  <2> HIDE DEF f, Step
  <2> QED
    BY <2>1
<1>2. ASSUME NEW e \in Nat, e \in T PROVE e + 1 \in T
  <2>1. PICK f : f = [i \in 1 .. n |-> f[i]] /\ \A i \in 1 .. n : i <= e => f[i] = Step(f, i)
    BY <1>2
  <2> DEFINE g == [i \in 1 .. n |-> Step(f, i)]
  <2>2. \A i \in 1 .. n : g[i] = Step(f, i)
    BY Zenon
  <2>3. \A i \in 1 .. n : i <= e => g[i] = f[i]
    BY <2>1, <2>2
  <2>4. g = [i \in 1 .. n |-> g[i]]
    OBVIOUS
  <2> HIDE DEF g
  <2>5. ASSUME NEW i \in 1 .. n, i <= e + 1 PROVE g[i] = Step(g, i)
    <3>1. CASE i = 1
      BY <2>2, <3>1
    <3>2. CASE i # 1
      <4>1. i - 1 \in 1 .. n /\ i - 1 <= e
        BY <2>5, <3>2
      <4>2. g[i - 1] = f[i - 1]
        BY <4>1, <2>3
      <4> QED
        BY <4>2, <2>2, <3>2
    <3> QED
      BY <3>1, <3>2
  <2> HIDE DEF Step
  <2>6. \E h : h = [i \in 1 .. n |-> h[i]] /\ \A i \in 1 .. n : i <= e + 1 => h[i] = Step(h, i)
    BY <2>4, <2>5, Zenon
  <2>7. e + 1 \in Nat
    OBVIOUS
  <2> QED
    BY <2>6, <2>7, Zenon
<1>3. n \in T
  <2> HIDE DEF T
  <2> QED
    BY <1>1, <1>2, SetInduction
<1>4. PICK f : f = [i \in 1 .. n |-> f[i]] /\ \A i \in 1 .. n : i <= n => f[i] = Step(f, i)
  BY <1>3
<1>5. f = [i \in 1 .. n |-> Step(f, i)]
  <2>1. \A i \in 1 .. n : f[i] = Step(f, i)
    <3> HIDE DEF Step
    <3>1. \A i \in 1 .. n : i <= n
      BY <1>0
    <3> QED
      BY <1>4, <3>1
  <2> DEFINE g == [i \in 1 .. n |-> Step(f, i)]
  <2>2. g = [i \in 1 .. n |-> g[i]] /\ \A i \in 1 .. n : g[i] = Step(f, i)
    OBVIOUS
  <2>3. f = [i \in 1 .. n |-> f[i]]
    BY <1>4
  <2> HIDE DEF g, Step
  <2>4. \A i \in 1 .. n : f[i] = g[i]
    BY <2>1, <2>2
  <2>5. f = g
    BY <2>2, <2>3, <2>4
  <2> QED
    BY <2>5 DEF g
<1>6. Joined(ss) = [i \in 1 .. n |-> Step(Joined(ss), i)]
  BY <1>5, Zenon DEF Joined
<1> QED
  BY <1>6, Zenon DEF Joins

(* FlattenSeq is the last of these functions' values.                      *)
LEMMA FlattenIsJoined ==
  ASSUME NEW ss, Len(ss) # 0
  PROVE  FlattenSeq(ss) = Joined(ss)[Len(ss)]
BY Zenon DEF FlattenSeq, Joined

(* Sequences with the same elements are the same.                          *)
LEMMA SameElements ==
  ASSUME NEW S, NEW a \in Seq(S), NEW b \in Seq(S), Len(a) = Len(b),
         \A i \in 1 .. Len(a) : a[i] = b[i]
  PROVE  a = b
<1>1. Len(a) \in Nat /\ DOMAIN a = 1 .. Len(a) /\ DOMAIN b = 1 .. Len(b)
  OBVIOUS
<1>2. a = [i \in 1 .. Len(a) |-> a[i]] /\ b = [i \in 1 .. Len(b) |-> b[i]]
  OBVIOUS
<1> QED
  BY <1>1, <1>2

(* The two parts of a concatenation.                                       *)
Concatenates(S, a, b, c) ==
  /\ c \in Seq(S) /\ Len(c) = Len(a) + Len(b)
  /\ \A j \in 1 .. Len(a) : c[j] = a[j]
  /\ \A k \in 1 .. Len(b) : c[Len(a) + k] = b[k]

LEMMA ConcatParts ==
  ASSUME NEW S, NEW a \in Seq(S), NEW b \in Seq(S)
  PROVE  Concatenates(S, a, b, a \o b)
BY DEF Concatenates

(* Each part is found where it begins.                                     *)
PartsFound(S, ss, at, whole) ==
  /\ whole \in Seq(S)
  /\ Len(whole) = at[Len(ss)]
  /\ \A i \in 1 .. Len(ss) :
       /\ at[i] <= at[Len(ss)]
       /\ \A k \in 1 .. Len(ss[i]) : whole[at[i - 1] + k] = ss[i][k]

LEMMA FlattenParts ==
  ASSUME NEW S, NEW ss \in Seq(Seq(S)), NEW at \in [0 .. Len(ss) -> Nat], at[0] = 0,
         \A i \in 1 .. Len(ss) : at[i] = at[i - 1] + Len(ss[i])
  PROVE  PartsFound(S, ss, at, FlattenSeq(ss))
<1> DEFINE n == Len(ss)
           f == Joined(ss)
           Part(e, i) == /\ at[i] <= at[e]
                         /\ \A k \in 1 .. Len(ss[i]) : f[e][at[i - 1] + k] = ss[i][k]
           T == {e \in Nat : e \in 1 .. n =>
                   /\ f[e] \in Seq(S) /\ Len(f[e]) = at[e]
                   /\ \A i \in 1 .. e : Part(e, i)}
<1>0. n \in Nat /\ Joins(ss, f, n) /\ \A i \in 1 .. n : ss[i] \in Seq(S) /\ Len(ss[i]) \in Nat
  BY JoinedExists
<1> HIDE DEF f
<1>1. 0 \in T
  OBVIOUS
<1>2. ASSUME NEW e \in Nat, e \in T PROVE e + 1 \in T
  <2> SUFFICES ASSUME e + 1 \in 1 .. n
               PROVE  /\ f[e + 1] \in Seq(S) /\ Len(f[e + 1]) = at[e + 1]
                      /\ \A i \in 1 .. e + 1 : Part(e + 1, i)
    OBVIOUS
  <2>1. ss[e + 1] \in Seq(S) /\ (e + 1) - 1 = e
    BY <1>0
  <2>2. at[e + 1] = at[e] + Len(ss[e + 1]) /\ at[e] \in Nat /\ at[e + 1] \in Nat
    <3>1. e \in 0 .. Len(ss) /\ e + 1 \in 0 .. Len(ss) /\ e + 1 \in 1 .. Len(ss)
      BY <1>0
    <3> QED
      BY <3>1, <2>1
  <2>3. CASE e = 0
    <3>1. f[e + 1] = ss[e + 1]
      BY <2>3, <1>0 DEF Joins
    <3>2. Len(f[e + 1]) = at[e + 1] /\ at[e] = 0
      BY <3>1, <2>1, <2>2, <2>3
    <3>3. ASSUME NEW i \in 1 .. e + 1 PROVE Part(e + 1, i)
      <4>1. i = e + 1 /\ i - 1 = e
        BY <2>3, <2>1
      <4>2. \A k \in 1 .. Len(ss[i]) : at[i - 1] + k = k
        BY <4>1, <3>2
      <4>3. at[i] <= at[e + 1]
        <5> DEFINE q == at[e + 1]
        <5>1. q \in Nat /\ q <= q
          BY <2>2
        <5> QED
          BY <5>1, <4>1
      <4>4. \A k \in 1 .. Len(ss[i]) : f[e + 1][at[i - 1] + k] = ss[i][k]
        BY <4>1, <4>2, <3>1
      <4> QED
        BY <4>3, <4>4
    <3> QED
      BY <3>1, <3>2, <3>3, <2>1
  <2>4. CASE e # 0
    <3>1. e \in 1 .. n /\ e + 1 # 1
      BY <2>4, <1>0
    <3>2. f[e + 1] = f[e] \o ss[e + 1]
      BY <3>1, <2>1, <1>0 DEF Joins
    <3>3. f[e] \in Seq(S) /\ Len(f[e]) = at[e] /\ \A i \in 1 .. e : Part(e, i)
      BY <3>1, <1>2
    <3> DEFINE a == f[e]
               b == ss[e + 1]
    <3>4. a \in Seq(S) /\ b \in Seq(S) /\ f[e + 1] = a \o b /\ Len(a) = at[e]
      BY <3>2, <3>3, <2>1
    <3> HIDE DEF a, b
    <3>5. /\ f[e + 1] \in Seq(S) /\ Len(f[e + 1]) = Len(a) + Len(b)
          /\ \A j \in 1 .. Len(a) : f[e + 1][j] = a[j]
          /\ \A k \in 1 .. Len(b) : f[e + 1][Len(a) + k] = b[k]
      <4>1. a \in Seq(S) /\ b \in Seq(S)
        BY <3>4
      <4>2. /\ a \o b \in Seq(S) /\ Len(a \o b) = Len(a) + Len(b)
            /\ \A j \in 1 .. Len(a) : (a \o b)[j] = a[j]
            /\ \A k \in 1 .. Len(b) : (a \o b)[Len(a) + k] = b[k]
        BY <4>1, ConcatParts DEF Concatenates
      <4> QED
        BY <3>4, <4>2, Zenon
    <3>6. ASSUME NEW i \in 1 .. e PROVE Part(e + 1, i)
      <4>1. /\ at[i] <= at[e] /\ \A k \in 1 .. Len(ss[i]) : a[at[i - 1] + k] = ss[i][k]
        BY <3>3 DEF a
      <4>2. /\ at[i] \in Nat /\ at[i - 1] \in Nat /\ at[i] = at[i - 1] + Len(ss[i])
            /\ Len(ss[i]) \in Nat /\ Len(b) \in Nat /\ at[e + 1] = at[e] + Len(b)
        <5>1. i \in 1 .. Len(ss) /\ i \in 0 .. Len(ss) /\ i - 1 \in 0 .. Len(ss)
          BY <3>1
        <5> QED
          BY <5>1, <1>0, <2>2, <3>4 DEF b
      <4>3. \A k \in 1 .. Len(ss[i]) : at[i - 1] + k \in 1 .. Len(a)
        <5> DEFINE p == at[i - 1]
                   q == at[i]
                   r == at[e]
                   l == Len(ss[i])
        <5>1. p \in Nat /\ q = p + l /\ l \in Nat /\ q <= r /\ r \in Nat /\ Len(a) = r
          BY <4>1, <4>2, <3>4, <2>2
        <5> HIDE DEF p, q, r, l, a
        <5>2. \A k \in 1 .. l : p + k \in 1 .. Len(a)
          BY <5>1
        <5> QED
          BY <5>2 DEF p, l
      <4>4. \A k \in 1 .. Len(ss[i]) : f[e + 1][at[i - 1] + k] = ss[i][k]
        BY <4>1, <4>3, <3>5
      <4>5. at[i] <= at[e + 1]
        <5> DEFINE q == at[i]
                   r == at[e]
                   v == at[e + 1]
                   l == Len(b)
        <5>1. q \in Nat /\ r \in Nat /\ l \in Nat /\ q <= r /\ v = r + l
          BY <4>1, <4>2, <2>2
        <5> HIDE DEF q, r, v, l
        <5>2. q <= v
          BY <5>1
        <5> QED
          BY <5>2 DEF q, v
      <4> QED
        BY <4>4, <4>5
    <3>7. Part(e + 1, e + 1)
      <4>1. \A k \in 1 .. Len(ss[e + 1]) : f[e + 1][at[e] + k] = ss[e + 1][k]
        BY <3>4, <3>5 DEF b
      <4> DEFINE q == at[e + 1]
                 before == (e + 1) - 1
      <4>2. q \in Nat /\ before = e
        BY <2>1, <2>2
      <4> HIDE DEF q, before
      <4>3. q <= q /\ \A k \in 1 .. Len(ss[e + 1]) : f[e + 1][at[before] + k] = ss[e + 1][k]
        BY <4>1, <4>2
      <4> QED
        BY <4>3 DEF q, before
    <3>8. Len(f[e + 1]) = at[e + 1]
      BY <3>4, <3>5, <2>2 DEF b
    <3>9. \A i \in 1 .. e + 1 : i \in 1 .. e \/ i = e + 1
      OBVIOUS
    <3> HIDE DEF Part
    <3> QED
      BY <3>5, <3>6, <3>7, <3>8, <3>9
  <2> HIDE DEF Part
  <2> QED
    BY <2>3, <2>4
<1>3. \A e \in Nat : e \in T
  <2> HIDE DEF T
  <2> QED
    BY <1>1, <1>2, SetInduction
<1>4. CASE n = 0
  <2>1. FlattenSeq(ss) = <<>>
    BY <1>4, <1>0 DEF FlattenSeq
  <2> QED
    BY <2>1, <1>4 DEF PartsFound
<1>5. CASE n # 0
  <2>1. n \in T /\ n \in 1 .. n
    BY <1>0, <1>3, <1>5
  <2>2. FlattenSeq(ss) = f[n]
    BY <1>5, FlattenIsJoined DEF f
  <2>3. PartsFound(S, ss, at, f[n])
    <3> HIDE DEF f
    <3> QED
      BY <2>1 DEF PartsFound
  <2> QED
    BY <2>2, <2>3
<1> QED
  BY <1>4, <1>5

--------------------------------------------------------------------------------
(* The blocks of a file.                                                   *)

(* How many blocks d has, and how many items the first k of them.          *)
Count(d) == (Len(d) + BlockSize - 1) \div BlockSize
Ends(d, k) == IF k * BlockSize <= Len(d) THEN k * BlockSize ELSE Len(d)

(* The lesser of two numbers.                                              *)
LEMMA MinOfTwo ==
  ASSUME NEW a \in Nat, NEW b \in Nat
  PROVE  Min({a, b}) = IF a <= b THEN a ELSE b
BY DEF Min

(* A quotient that is rounded up.                                          *)
LEMMA RoundedUp ==
  ASSUME NEW b \in Nat \ {0}, NEW n \in Nat, NEW k \in Nat
  PROVE  /\ (n + b - 1) \div b \in Nat
         /\ k < (n + b - 1) \div b <=> k * b < n
<1> DEFINE a == n + b - 1
           q == a \div b
           r == a % b
<1>1. a \in Nat
  OBVIOUS
<1>2. q \in Nat /\ r \in 0 .. b - 1 /\ a = b * q + r
  BY <1>1
<1> HIDE DEF q, r
<1>3. ASSUME k < q PROVE k * b < n
  <2>1. PICK e \in Nat : q = k + 1 + e
    <3>1. q - k - 1 \in Nat /\ q = k + 1 + (q - k - 1)
      BY <1>2, <1>3
    <3> QED
      BY <3>1
  <2>2. b * q = k * b + b + b * e /\ b * e \in Nat /\ k * b \in Nat
    BY <2>1
  <2> QED
    BY <2>2, <1>2
<1>4. ASSUME ~ (k < q) PROVE ~ (k * b < n)
  <2>1. PICK e \in Nat : k = q + e
    <3>1. k - q \in Nat /\ k = q + (k - q)
      BY <1>2, <1>4
    <3> QED
      BY <3>1
  <2>2. k * b = b * q + b * e /\ b * e \in Nat /\ b * q \in Nat
    BY <2>1, <1>2
  <2> QED
    BY <2>2, <1>2
<1> QED
  BY <1>2, <1>3, <1>4 DEF q

(* Where the blocks of a file begin and end.                               *)
LEMMA EndsNext ==
  ASSUME NEW d, Len(d) \in Nat, NEW k \in Nat
  PROVE  /\ Count(d) \in Nat /\ Ends(d, k) \in 0 .. Len(d) /\ Ends(d, 0) = 0
         /\ Ends(d, k + 1) = IF Ends(d, k) + BlockSize <= Len(d) THEN Ends(d, k) + BlockSize
                                                                ELSE Len(d)
         /\ k < Count(d) <=> Ends(d, k) < Len(d)
         /\ k < Count(d) => Ends(d, k) = k * BlockSize
<1>1. BlockSize \in Nat \ {0}
  BY PipelineAssumption
<1>2. Count(d) \in Nat /\ (k < Count(d) <=> k * BlockSize < Len(d))
  BY <1>1, RoundedUp DEF Count
<1>3. k * BlockSize \in Nat /\ (k + 1) * BlockSize = k * BlockSize + BlockSize /\ 0 * BlockSize = 0
  BY <1>1
<1> DEFINE p == k * BlockSize
           q == (k + 1) * BlockSize
<1> HIDE DEF p, q
<1>4. p \in Nat /\ q = p + BlockSize /\ (k < Count(d) <=> p < Len(d))
      /\ Ends(d, k) = (IF p <= Len(d) THEN p ELSE Len(d))
      /\ Ends(d, k + 1) = (IF q <= Len(d) THEN q ELSE Len(d))
  BY <1>2, <1>3 DEF p, q, Ends
<1>5. Ends(d, 0) = 0
  BY <1>3 DEF Ends
<1>6. /\ Ends(d, k) \in 0 .. Len(d)
      /\ Ends(d, k + 1) = IF Ends(d, k) + BlockSize <= Len(d) THEN Ends(d, k) + BlockSize ELSE Len(d)
      /\ k < Count(d) <=> Ends(d, k) < Len(d)
      /\ k < Count(d) => Ends(d, k) = p
  BY <1>1, <1>4
<1> QED
  BY <1>2, <1>5, <1>6 DEF p

(* A block is what lies between two of these.                              *)
BlockAt(d, k) ==
  /\ BlocksOf(d)[k + 1] = SubSeq(d, Ends(d, k) + 1, Ends(d, k + 1))
  /\ BlocksOf(d)[k + 1] \in Seq(Nat)
  /\ Len(BlocksOf(d)[k + 1]) = Ends(d, k + 1) - Ends(d, k)
  /\ Len(BlocksOf(d)[k + 1]) \in Nat \ {0}
  /\ Compressed(d)[k + 1] = WithSize(Encode(BlocksOf(d)[k + 1]))

LEMMA BlocksAre ==
  ASSUME NEW d \in Seq(Nat)
  PROVE  /\ DOMAIN BlocksOf(d) = 1 .. Count(d) /\ DOMAIN Compressed(d) = 1 .. Count(d)
         /\ Len(BlocksOf(d)) = Count(d) /\ Len(Compressed(d)) = Count(d)
         /\ \A k \in Nat : k < Count(d) => BlockAt(d, k)
<1>1. Len(d) \in Nat /\ Count(d) \in Nat
  BY EndsNext
<1>2. /\ DOMAIN BlocksOf(d) = 1 .. Count(d) /\ DOMAIN Compressed(d) = 1 .. Count(d)
      /\ Len(BlocksOf(d)) = Count(d) /\ Len(Compressed(d)) = Count(d)
  BY <1>1 DEF BlocksOf, Compressed, Count
<1>3. ASSUME NEW k \in Nat, k < Count(d) PROVE BlockAt(d, k)
  <2> DEFINE a == Ends(d, k)
             b == Ends(d, k + 1)
  <2>1. /\ a \in 0 .. Len(d) /\ a < Len(d) /\ a = k * BlockSize
        /\ b = (IF a + BlockSize <= Len(d) THEN a + BlockSize ELSE Len(d))
    BY <1>1, <1>3, EndsNext
  <2>2. k + 1 \in 1 .. Count(d) /\ (k + 1) - 1 = k
    BY <1>1, <1>3
  <2>3. BlockSize \in Nat \ {0} /\ (k + 1) * BlockSize = a + BlockSize
    BY <2>1, PipelineAssumption
  <2>4. Min({(k + 1) * BlockSize, Len(d)}) = b
    BY <2>1, <2>3, <1>1, MinOfTwo
  <2>5. BlocksOf(d)[k + 1] = SubSeq(d, a + 1, b)
    BY <2>1, <2>2, <2>4, <1>2 DEF BlocksOf, Count
  <2>6. a \in Nat /\ b \in Nat /\ a < b /\ b <= Len(d)
    BY <2>1, <2>3, <1>1
  <2> HIDE DEF a, b
  <2>7. SubSeq(d, a + 1, b) \in Seq(Nat) /\ Len(SubSeq(d, a + 1, b)) = b - a /\ b - a \in Nat \ {0}
    BY <2>6
  <2>8. Compressed(d)[k + 1] = WithSize(Encode(BlocksOf(d)[k + 1]))
    BY <2>2, <1>2 DEF Compressed
  <2> QED
    BY <2>5, <2>7, <2>8, Zenon DEF a, b, BlockAt
<1> QED
  BY <1>2, <1>3

(* What a compressed file is made of.                                      *)
Item == Nat \cup {"table"} \cup {<<"code", n>> : n \in Nat}

(* An element in front of a sequence.                                      *)
LEMMA Prepended ==
  ASSUME NEW S, NEW a \in S, NEW s \in Seq(S)
  PROVE  /\ <<a>> \o s \in Seq(S) /\ Len(<<a>> \o s) = Len(s) + 1 /\ Len(s) \in Nat
         /\ (<<a>> \o s)[1] = a
         /\ \A i \in 1 .. Len(s) : (<<a>> \o s)[i + 1] = s[i]
<1>1. <<a>> \in Seq(S) /\ Len(<<a>>) = 1 /\ <<a>>[1] = a /\ Len(s) \in Nat
  OBVIOUS
<1> DEFINE t == <<a>>
<1> HIDE DEF t
<1>2. t \o s \in Seq(S) /\ Len(t \o s) = Len(t) + Len(s)
      /\ (\A i \in 1 .. Len(t) : (t \o s)[i] = t[i])
      /\ (\A i \in 1 .. Len(s) : (t \o s)[Len(t) + i] = s[i])
  BY <1>1 DEF t
<1>3. Len(t) = 1 /\ t[1] = a
  BY <1>1 DEF t
<1>4. \A i \in 1 .. Len(s) : (t \o s)[i + 1] = s[i]
  <2>1. \A i \in 1 .. Len(s) : 1 + i = i + 1
    OBVIOUS
  <2> QED
    BY <2>1, <1>2, <1>3
<1>5. t \o s \in Seq(S) /\ Len(t \o s) = Len(s) + 1 /\ (t \o s)[1] = a
  BY <1>1, <1>2, <1>3
<1> QED
  BY <1>1, <1>4, <1>5 DEF t

(* An encoded block, and the same behind its size.                         *)
EncodedAs(x, e, w) ==
  /\ e \in Seq(Item) /\ Len(e) = Len(x) + 1 /\ DecodeBlock(e) = x
  /\ w \in Seq(Item) /\ Len(w) = Len(x) + 2 /\ w[1] = Len(x) + 2
  /\ \A i \in 1 .. Len(e) : w[i + 1] = e[i]

LEMMA EncodedIs ==
  ASSUME NEW x \in Seq(Nat)
  PROVE  EncodedAs(x, Encode(x), WithSize(Encode(x)))
<1> DEFINE codes == [i \in DOMAIN x |-> <<"code", x[i]>>]
           e     == Encode(x)
           w     == WithSize(e)
<1>1. /\ Len(x) \in Nat /\ DOMAIN x = 1 .. Len(x) /\ (\A i \in 1 .. Len(x) : x[i] \in Nat)
      /\ x = [i \in 1 .. Len(x) |-> x[i]]
  OBVIOUS
<1>2. \A i \in 1 .. Len(x) : <<"code", x[i]>> \in Item
  BY <1>1 DEF Item
<1>3. codes \in Seq(Item) /\ Len(codes) = Len(x) /\ \A i \in 1 .. Len(x) : codes[i] = <<"code", x[i]>>
  BY <1>1, <1>2
<1> HIDE DEF codes
<1>4. /\ e \in Seq(Item) /\ Len(e) = Len(codes) + 1
      /\ \A i \in 1 .. Len(codes) : e[i + 1] = codes[i]
  <2>1. e = <<"table">> \o codes
    BY DEF Encode, codes
  <2>2. "table" \in Item
    BY DEF Item
  <2> HIDE DEF e
  <2> QED
    BY <2>1, <2>2, <1>3, Prepended
<1> HIDE DEF e
<1>5. Len(e) = Len(x) + 1 /\ \A i \in 1 .. Len(x) : e[i + 1] = <<"code", x[i]>>
  BY <1>3, <1>4
<1>6. DecodeBlock(e) = x
  <2>1. Len(e) - 1 = Len(x)
    BY <1>1, <1>5
  <2>2. \A i \in 1 .. Len(x) : e[i + 1][2] = x[i]
    BY <1>5
  <2>3. DecodeBlock(e) = [i \in 1 .. Len(x) |-> e[i + 1][2]]
    BY <2>1 DEF DecodeBlock
  <2>4. DecodeBlock(e) = [i \in 1 .. Len(x) |-> x[i]]
    BY <2>2, <2>3
  <2> QED
    BY <2>4, <1>1
<1>7. /\ w \in Seq(Item) /\ Len(w) = Len(e) + 1 /\ w[1] = SizeField + Len(e)
      /\ \A i \in 1 .. Len(e) : w[i + 1] = e[i]
  <2>1. SizeField + Len(e) \in Item /\ w = <<SizeField + Len(e)>> \o e
    BY <1>1, <1>5 DEF Item, SizeField, WithSize
  <2> HIDE DEF w
  <2> QED
    BY <2>1, <1>4, Prepended
<1>8. SizeField + Len(e) = Len(x) + 2 /\ Len(e) + 1 = Len(x) + 2
  BY <1>1, <1>5 DEF SizeField
<1> HIDE DEF w
<1>9. EncodedAs(x, e, w)
  BY <1>4, <1>5, <1>6, <1>7, <1>8 DEF EncodedAs
<1> QED
  BY <1>9 DEF e, w

(* Where the blocks of a compressed file are.                              *)
Found(d, f, k) ==
  LET x == BlocksOf(d)[k + 1]
      p == Ends(d, k) + 2 * k
  IN  /\ f[p + 1] = Len(x) + 2
      /\ \A i \in 1 .. Len(x) + 1 : f[p + 1 + i] = Encode(x)[i]

(* Where each block of a compressed file is.                               *)
LEMMA CompressedFile ==
  ASSUME NEW d \in Seq(Nat)
  PROVE  LET f == FlattenSeq(Compressed(d))
         IN  /\ f \in Seq(Item) /\ Len(f) = Len(d) + 2 * Count(d)
             /\ \A k \in Nat : k < Count(d) => Found(d, f, k)
<1> DEFINE f  == FlattenSeq(Compressed(d))
           n  == Count(d)
           ss == Compressed(d)
           at == [k \in 0 .. n |-> Ends(d, k) + 2 * k]
<1>1. Len(d) \in Nat /\ n \in Nat /\ Len(ss) = n /\ DOMAIN ss = 1 .. n
  BY EndsNext, BlocksAre
<1>2. ASSUME NEW k \in Nat, k < n
      PROVE  /\ BlockAt(d, k) /\ EncodedAs(BlocksOf(d)[k + 1], Encode(BlocksOf(d)[k + 1]), ss[k + 1])
             /\ ss[k + 1] \in Seq(Item)
             /\ Len(ss[k + 1]) = Ends(d, k + 1) - Ends(d, k) + 2
  <2>1. BlockAt(d, k)
    BY <1>2, BlocksAre
  <2>2. BlocksOf(d)[k + 1] \in Seq(Nat) /\ ss[k + 1] = WithSize(Encode(BlocksOf(d)[k + 1]))
        /\ Len(BlocksOf(d)[k + 1]) = Ends(d, k + 1) - Ends(d, k)
    BY <2>1 DEF BlockAt
  <2>3. EncodedAs(BlocksOf(d)[k + 1], Encode(BlocksOf(d)[k + 1]), ss[k + 1])
    BY <2>2, EncodedIs
  <2> QED
    BY <2>1, <2>2, <2>3 DEF EncodedAs
<1>3. \A k \in 0 .. n : at[k] = Ends(d, k) + 2 * k /\ Ends(d, k) \in 0 .. Len(d) /\ at[k] \in Nat
  <2> SUFFICES ASSUME NEW k \in 0 .. n
               PROVE  at[k] = Ends(d, k) + 2 * k /\ Ends(d, k) \in 0 .. Len(d) /\ at[k] \in Nat
    OBVIOUS
  <2>1. at[k] = Ends(d, k) + 2 * k /\ k \in Nat
    BY <1>1
  <2>2. Ends(d, k) \in 0 .. Len(d)
    BY <1>1, <2>1, EndsNext
  <2> QED
    BY <1>1, <2>1, <2>2
<1>4. at \in [0 .. n -> Nat] /\ at[0] = 0
  <2>1. Ends(d, 0) = 0
    BY <1>1, EndsNext
  <2>2. at = [k \in 0 .. n |-> at[k]] /\ 0 \in 0 .. n
    BY <1>1
  <2> HIDE DEF at
  <2> QED
    BY <1>3, <2>1, <2>2
<1> HIDE DEF at, ss
<1>5. \A i \in 1 .. n : ss[i] \in Seq(Item) /\ at[i] = at[i - 1] + Len(ss[i])
  <2> SUFFICES ASSUME NEW i \in 1 .. n
               PROVE  ss[i] \in Seq(Item) /\ at[i] = at[i - 1] + Len(ss[i])
    OBVIOUS
  <2>1. PICK k \in Nat : k = i - 1 /\ k < n /\ k + 1 = i /\ k \in 0 .. n
    BY <1>1
  <2>2. ss[i] \in Seq(Item) /\ Len(ss[i]) = Ends(d, i) - Ends(d, k) + 2
    BY <2>1, <1>2
  <2>3. /\ at[i] = Ends(d, i) + 2 * i /\ at[k] = Ends(d, k) + 2 * k
        /\ Ends(d, i) \in Nat /\ Ends(d, k) \in Nat
    BY <2>1, <1>3, <1>1
  <2>4. Ends(d, i) + 2 * i = Ends(d, k) + 2 * k + (Ends(d, i) - Ends(d, k) + 2)
    BY <2>1, <2>3
  <2> QED
    BY <2>1, <2>2, <2>3, <2>4
<1>6. ss \in Seq(Seq(Item))
  <2>1. ss = [i \in 1 .. n |-> ss[i]]
    BY <1>1, Zenon DEF ss, Compressed
  <2> QED
    BY <2>1, <1>5, <1>1
<1>7. PartsFound(Item, ss, at, FlattenSeq(ss))
  BY <1>1, <1>4, <1>5, <1>6, FlattenParts
<1>8. f \in Seq(Item) /\ Len(f) = at[n] /\ \A i \in 1 .. n : \A k \in 1 .. Len(ss[i]) : f[at[i - 1] + k] = ss[i][k]
  BY <1>7, <1>1 DEF PartsFound, ss
<1> HIDE DEF f
<1>9. at[n] = Len(d) + 2 * n
  <2>1. ~ (n < n) /\ n \in 0 .. n
    BY <1>1
  <2>2. ~ (Ends(d, n) < Len(d)) /\ Ends(d, n) \in 0 .. Len(d)
    BY <1>1, <2>1, EndsNext
  <2>3. Ends(d, n) = Len(d)
    BY <2>2, <1>1
  <2> QED
    BY <2>1, <2>3, <1>3
<1>10. ASSUME NEW k \in Nat, k < n PROVE Found(d, f, k)
  <2> DEFINE x == BlocksOf(d)[k + 1]
             p == Ends(d, k) + 2 * k
  <2>1. EncodedAs(x, Encode(x), ss[k + 1]) /\ x \in Seq(Nat)
    BY <1>10, <1>2 DEF BlockAt
  <2>2. k + 1 \in 1 .. n /\ k + 1 - 1 = k /\ at[k] = p /\ p \in Nat
    BY <1>10, <1>1, <1>3
  <2> HIDE DEF x, p
  <2>3. Len(x) \in Nat /\ Len(Encode(x)) = Len(x) + 1 /\ Len(ss[k + 1]) = Len(x) + 2
        /\ ss[k + 1][1] = Len(x) + 2 /\ \A i \in 1 .. Len(x) + 1 : ss[k + 1][i + 1] = Encode(x)[i]
    BY <2>1 DEF EncodedAs
  <2>4. \A j \in 1 .. Len(x) + 2 : f[p + j] = ss[k + 1][j]
    BY <2>2, <2>3, <1>8
  <2>5. f[p + 1] = Len(x) + 2
    BY <2>3, <2>4
  <2>6. ASSUME NEW i \in 1 .. Len(x) + 1 PROVE f[p + 1 + i] = Encode(x)[i]
    <3>1. i + 1 \in 1 .. Len(x) + 2 /\ p + 1 + i = p + (i + 1)
      BY <2>2, <2>3
    <3> QED
      BY <3>1, <2>3, <2>4
  <2>7. f[p + 1] = Len(x) + 2 /\ \A i \in 1 .. Len(x) + 1 : f[p + 1 + i] = Encode(x)[i]
    BY <2>5, <2>6
  <2> QED
    BY <2>7, Zenon DEF x, p, Found
<1> QED
  BY <1>8, <1>9, <1>10 DEF f

--------------------------------------------------------------------------------
(* The files, and what the reader finds in the input: block r + 1 as main  *)
(* gets it, where the reader is after r reads, and how much it then asks   *)
(* for.                                                                    *)
FilesOk ==
  /\ data \in Seq(Nat) /\ decompress \in BOOLEAN
  /\ decompress => Len(data) > 0
  /\ srcFile = IF decompress THEN FlattenSeq(Compressed(data)) ELSE data

Input(r) ==
  IF r < Count(data)
    THEN IF decompress THEN Encode(BlocksOf(data)[r + 1]) ELSE BlocksOf(data)[r + 1]
    ELSE <<>>

ReadTo(r) ==
  IF ~ decompress THEN Ends(data, r)
  ELSE IF r < Count(data) THEN Ends(data, r) + 2 * r + 1
  ELSE Len(data) + 2 * Count(data)

Asks(r) ==
  IF ~ decompress THEN BlockSize
  ELSE IF r < Count(data) THEN Ends(data, r + 1) - Ends(data, r) + 2
  ELSE 0

AfterReads(r) == srcPos = ReadTo(r) /\ blksz = Asks(r)

(* What a read gives.                                                      *)
Reads(r, text, len, pos, size) ==
  /\ len = Len(Input(r)) /\ SubSeq(text, 1, len) = Input(r)
  /\ pos = ReadTo(r + 1) /\ size = Asks(r + 1)

(* The beginning of a part of a sequence.                                  *)
SubIs(s, a, l, u) == Len(u) = l /\ \A i \in 1 .. l : u[i] = s[a + i]

(* A part of a sequence has the elements of that part.                     *)
LEMMA SubSeqIs ==
  ASSUME NEW S, NEW s \in Seq(S), NEW a \in Nat, NEW l \in Nat, a + l <= Len(s)
  PROVE  SubSeq(s, a + 1, a + l) \in Seq(S) /\ SubIs(s, a, l, SubSeq(s, a + 1, a + l))
<1> DEFINE t == SubSeq(s, a + 1, a + l)
<1>1. Len(s) \in Nat /\ DOMAIN s = 1 .. Len(s)
  OBVIOUS
<1>2. t \in Seq(S) /\ Len(t) = l
  BY <1>1
<1>3. \A i \in 1 .. l : t[i] = s[a + i]
  BY <1>1
<1> QED
  BY <1>2, <1>3 DEF SubIs

PartIs(f, p, g, l, e) == SubSeq(SubSeq(f, p + 1, p + g), 1, l) = e

(* The beginning of a part is a part.                                      *)
LEMMA PartOf ==
  ASSUME NEW S, NEW f \in Seq(S), NEW e \in Seq(S), NEW p \in Nat, NEW g \in Nat, NEW l \in Nat,
         p + g <= Len(f), l <= g, SubIs(f, p, l, e)
  PROVE  PartIs(f, p, g, l, e)
<1> DEFINE t == SubSeq(f, p + 1, p + g)
           u == SubSeq(t, 1, l)
<1>1. t \in Seq(S) /\ SubIs(f, p, g, t)
  BY SubSeqIs
<1> HIDE DEF t
<1>2. u \in Seq(S) /\ SubIs(t, 0, l, u)
  <2>1. Len(t) = g /\ 0 + l <= g /\ 0 + 1 = 1 /\ 0 + l = l /\ 0 \in Nat
    BY <1>1 DEF SubIs
  <2> QED
    BY <1>1, <2>1, SubSeqIs
<1> HIDE DEF u
<1>3. Len(u) = l /\ Len(e) = l /\ \A i \in 1 .. l : u[i] = e[i]
  <2>1. \A i \in 1 .. l : u[i] = t[i]
    <3>1. \A i \in 1 .. l : u[i] = t[0 + i] /\ 0 + i = i
      BY <1>2 DEF SubIs
    <3> QED
      BY <3>1
  <2>2. \A i \in 1 .. l : t[i] = f[p + i] /\ f[p + i] = e[i]
    BY <1>1 DEF SubIs
  <2> QED
    BY <2>1, <2>2, <1>2 DEF SubIs
<1>4. u = e
  BY <1>2, <1>3, SameElements
<1> QED
  BY <1>4 DEF u, t, PartIs

(* A read, when the tool compresses.                                       *)
LEMMA ReadPlain ==
  ASSUME FilesOk, ~ decompress, NEW r \in Nat, AfterReads(r),
         NEW got, got = Min({blksz, Len(srcFile) - srcPos})
  PROVE  Reads(r, SubSeq(srcFile, srcPos + 1, srcPos + got), got, srcPos + got, blksz)
<1> DEFINE a == Ends(data, r)
           b == Ends(data, r + 1)
           n == Count(data)
<1>1. /\ data \in Seq(Nat) /\ Len(data) \in Nat /\ srcFile = data /\ srcPos = a /\ blksz = BlockSize
      /\ BlockSize \in Nat \ {0}
  BY PipelineAssumption DEF FilesOk, AfterReads, ReadTo, Asks
<1>2. /\ a \in 0 .. Len(data) /\ n \in Nat
      /\ b = (IF a + BlockSize <= Len(data) THEN a + BlockSize ELSE Len(data))
      /\ r < n <=> a < Len(data)
  BY <1>1, EndsNext
<1> HIDE DEF a, b
<1>3. got = b - a /\ b - a \in Nat /\ a \in Nat /\ b <= Len(data)
  <2>1. Len(data) - a \in Nat
    BY <1>1, <1>2
  <2>2. got = IF BlockSize <= Len(data) - a THEN BlockSize ELSE Len(data) - a
    BY <1>1, <2>1, MinOfTwo
  <2> QED
    BY <1>1, <1>2, <2>2
<1>4. srcPos + got = ReadTo(r + 1) /\ blksz = Asks(r + 1)
  BY <1>1, <1>3, <1>2 DEF ReadTo, Asks, b
<1>5. Input(r) \in Seq(Nat) /\ SubIs(data, a, got, Input(r))
  <2>1. CASE r < n
    <3>1. BlockAt(data, r) /\ Input(r) = BlocksOf(data)[r + 1]
      BY <1>1, <2>1, BlocksAre DEF Input, n
    <3>2. Input(r) = SubSeq(data, a + 1, b) /\ Input(r) \in Seq(Nat) /\ Len(Input(r)) = b - a
      BY <3>1 DEF BlockAt, a, b
    <3>3. b = a + got /\ a + got <= Len(data) /\ got \in Nat /\ a \in Nat
      BY <1>2, <1>3, <1>1
    <3>4. SubIs(data, a, got, SubSeq(data, a + 1, a + got))
      BY <1>1, <3>3, SubSeqIs
    <3> QED
      BY <3>2, <3>3, <3>4
  <2>2. CASE ~ (r < n)
    <3>1. Input(r) = <<>> /\ got = 0
      BY <1>1, <1>2, <1>3, <2>2 DEF Input, n
    <3>2. Input(r) \in Seq(Nat) /\ Len(Input(r)) = 0 /\ 1 .. 0 = {}
      BY <3>1
    <3> QED
      BY <3>1, <3>2 DEF SubIs
  <2> QED
    BY <2>1, <2>2
<1>6. PartIs(data, a, got, got, Input(r))
  <2>1. a + got <= Len(data) /\ got \in Nat /\ a \in Nat /\ got <= got
    BY <1>1, <1>2, <1>3
  <2> QED
    BY <1>1, <1>5, <2>1, PartOf
<1> QED
  BY <1>1, <1>4, <1>5, <1>6 DEF Reads, SubIs, PartIs

(* A read of a compressed block, with the size that follows it.            *)
LEMMA ReadCoded ==
  ASSUME FilesOk, decompress, NEW r \in Nat, AfterReads(r),
         NEW got, got = Min({blksz, Len(srcFile) - srcPos})
  PROVE  Reads(r, SubSeq(srcFile, srcPos + 1, srcPos + got),
               IF Full(got) THEN got - SizeField ELSE got,
               srcPos + got,
               IF Full(got) THEN srcFile[srcPos + got] ELSE 0)
<1> DEFINE a == Ends(data, r)
           b == Ends(data, r + 1)
           n == Count(data)
           d == Len(data)
<1>1. /\ data \in Seq(Nat) /\ d \in Nat /\ srcFile \in Seq(Item) /\ Len(srcFile) = d + 2 * n
      /\ \A k \in Nat : k < n => Found(data, srcFile, k)
  <2>1. data \in Seq(Nat) /\ srcFile = FlattenSeq(Compressed(data))
    BY DEF FilesOk
  <2> QED
    BY <2>1, CompressedFile
<1>2. /\ a \in 0 .. d /\ n \in Nat /\ b \in 0 .. d
      /\ r < n <=> a < d
      /\ r + 1 < n <=> b < d
  BY <1>1, EndsNext
<1>3. srcPos = ReadTo(r) /\ blksz = Asks(r)
  BY DEF AfterReads
<1>4. CASE r < n
  <2> DEFINE x == BlocksOf(data)[r + 1]
             l == Len(x)
             p == a + 2 * r + 1
  <2>1. BlockAt(data, r) /\ Input(r) = Encode(x)
    BY <1>1, <1>4, BlocksAre DEF Input
  <2>2. x \in Seq(Nat) /\ l = b - a /\ l \in Nat \ {0}
    BY <2>1 DEF BlockAt
  <2>3. EncodedAs(x, Encode(x), WithSize(Encode(x)))
    BY <2>2, EncodedIs
  <2>4. Input(r) \in Seq(Item) /\ Len(Input(r)) = l + 1
    BY <2>1, <2>3 DEF EncodedAs
  <2>5. srcPos = p /\ blksz = l + 2
    BY <1>3, <1>4, <2>2 DEF ReadTo, Asks
  <2>6. SubIs(srcFile, p, l + 1, Input(r))
    <3>1. \A i \in 1 .. l + 1 : srcFile[p + i] = Input(r)[i]
      BY <1>1, <1>4, <2>1 DEF Found
    <3> HIDE DEF x, l, p
    <3> QED
      BY <2>4, <3>1 DEF SubIs
  <2> HIDE DEF x, l, a, b, n, d
  <2>7. p \in Nat /\ SizeField = 1 /\ p = a + 2 * r + 1 /\ a \in Nat /\ b \in Nat /\ l + 1 \in Nat
    BY <1>1, <1>2, <2>2 DEF SizeField
  <2> HIDE DEF p
  <2>8. CASE r + 1 < n
    <3>1. b < d /\ Len(srcFile) - p >= l + 2 /\ Len(srcFile) - p \in Nat
      BY <1>1, <1>2, <2>2, <2>7, <2>8
    <3>2. got = l + 2
      <4>1. got = IF l + 2 <= Len(srcFile) - p THEN l + 2 ELSE Len(srcFile) - p
        BY <2>2, <2>5, <3>1, MinOfTwo
      <4> QED
        BY <4>1, <3>1, <2>2
    <3>3. Full(got)
      BY <2>2, <2>5, <3>2 DEF Full
    <3>4. got - SizeField = l + 1
      BY <2>2, <2>7, <3>2
    <3>5. srcPos + got = b + 2 * (r + 1) + 1 /\ srcPos + got = ReadTo(r + 1)
      <4>1. srcPos + got = b + 2 * (r + 1) + 1
        BY <2>2, <2>5, <2>7, <3>2
      <4>2. ReadTo(r + 1) = b + 2 * (r + 1) + 1
        BY <2>8 DEF ReadTo, n, b
      <4> QED
        BY <4>1, <4>2
    <3>6. srcFile[srcPos + got] = Asks(r + 1)
      <4>1. Found(data, srcFile, r + 1) /\ BlockAt(data, r + 1)
        BY <1>1, <2>8, BlocksAre DEF n
      <4>2. srcFile[b + 2 * (r + 1) + 1] = Len(BlocksOf(data)[r + 1 + 1]) + 2
            /\ Len(BlocksOf(data)[r + 1 + 1]) = Ends(data, r + 1 + 1) - b
        BY <4>1 DEF Found, BlockAt, b
      <4>3. Asks(r + 1) = Ends(data, r + 1 + 1) - b + 2
        BY <2>8 DEF Asks, b, n
      <4> QED
        BY <4>2, <4>3, <3>5
    <3>7. PartIs(srcFile, p, got, l + 1, Input(r))
      <4>1. p + got <= Len(srcFile) /\ l + 1 <= got /\ got \in Nat /\ l + 1 \in Nat
        BY <1>1, <1>2, <2>2, <2>7, <3>1, <3>2
      <4> QED
        BY <4>1, <1>1, <2>4, <2>6, <2>7, PartOf
    <3> QED
      BY <2>4, <2>5, <3>3, <3>4, <3>5, <3>6, <3>7 DEF Reads, PartIs
  <2>9. CASE ~ (r + 1 < n)
    <3>1. b = d /\ r + 1 = n /\ Len(srcFile) - p = l + 1
      BY <1>1, <1>2, <1>4, <2>2, <2>7, <2>9
    <3>2. got = l + 1
      <4>1. l + 2 \in Nat /\ l + 1 \in Nat /\ ~ (l + 2 <= l + 1)
        BY <2>2
      <4>2. got = Min({l + 2, l + 1})
        BY <2>5, <3>1
      <4> QED
        BY <4>1, <4>2, MinOfTwo
    <3>3. ~ Full(got)
      BY <2>2, <2>5, <3>2 DEF Full
    <3>4. srcPos + got = ReadTo(r + 1) /\ 0 = Asks(r + 1)
      <4>1. srcPos + got = d + 2 * n
        <5>1. Len(srcFile) = d + 2 * n /\ d \in Nat /\ n \in Nat
          BY <1>1, <1>2
        <5> QED
          BY <5>1, <2>5, <2>7, <3>1, <3>2
      <4>2. ReadTo(r + 1) = d + 2 * n /\ 0 = Asks(r + 1)
        BY <2>9 DEF ReadTo, Asks, d, n
      <4> QED
        BY <4>1, <4>2
    <3>5. PartIs(srcFile, p, got, got, Input(r))
      <4>1. p + got <= Len(srcFile) /\ got <= got /\ got \in Nat /\ got = l + 1
        BY <1>1, <1>2, <2>2, <2>7, <3>1, <3>2
      <4> QED
        BY <4>1, <1>1, <2>4, <2>6, <2>7, PartOf
    <3> QED
      BY <2>4, <2>5, <3>2, <3>3, <3>4, <3>5 DEF Reads, PartIs
  <2> QED
    BY <2>8, <2>9
<1>5. CASE ~ (r < n)
  <2>1. srcPos = Len(srcFile) /\ blksz = 0 /\ Input(r) = <<>>
    BY <1>1, <1>3, <1>5 DEF ReadTo, Asks, Input
  <2>2. got = 0
    <3>1. Len(srcFile) - srcPos = 0
      BY <1>1, <1>2, <2>1
    <3> QED
      BY <3>1, <2>1, MinOfTwo
  <2>3. ~ Full(got)
    BY <2>1 DEF Full
  <2>4. srcPos + got = ReadTo(r + 1) /\ 0 = Asks(r + 1)
    BY <1>1, <1>2, <1>5, <2>1, <2>2 DEF ReadTo, Asks
  <2>5. Len(Input(r)) = 0 /\ SubSeq(SubSeq(srcFile, srcPos + 1, srcPos + got), 1, 0) = <<>>
    <3>1. srcPos \in Nat /\ Len(srcFile) \in Nat
      BY <1>1, <1>2, <2>1
    <3>2. SubSeq(srcFile, srcPos + 1, srcPos + got) \in Seq(Item)
      <4>1. srcPos + got <= Len(srcFile) /\ got \in Nat
        BY <2>1, <2>2, <3>1
      <4> QED
        BY <1>1, <3>1, <4>1, SubSeqIs
    <3> DEFINE t == SubSeq(srcFile, srcPos + 1, srcPos + got)
    <3> HIDE DEF t
    <3>3. SubSeq(t, 1, 0) = <<>>
      BY <3>2 DEF t
    <3> QED
      BY <2>1, <3>3 DEF t
  <2> HIDE DEF a, b, n, d
  <2> QED
    BY <2>1, <2>2, <2>3, <2>4, <2>5 DEF Reads
<1> QED
  BY <1>4, <1>5

--------------------------------------------------------------------------------
(* The beginning of a sequence of sequences, written out.                  *)
LEMMA FlattenNext ==
  ASSUME NEW S, NEW ss \in Seq(Seq(S)), NEW k \in Nat, k < Len(ss)
  PROVE  FlattenSeq(SubSeq(ss, 1, k + 1)) = FlattenSeq(SubSeq(ss, 1, k)) \o ss[k + 1]
<1> DEFINE a == SubSeq(ss, 1, k)
           b == SubSeq(ss, 1, k + 1)
           f == Joined(a)
           g == Joined(b)
           T == {e \in Nat : e \in 1 .. k => g[e] = f[e]}
<1>1. Len(a) = k /\ Len(b) = k + 1 /\ Len(ss) \in Nat
  OBVIOUS
<1>2. /\ \A i \in 1 .. k : a[i] = ss[i] /\ b[i] = ss[i]
      /\ b[k + 1] = ss[k + 1] /\ ss[k + 1] \in Seq(S)
  OBVIOUS
<1> HIDE DEF a, b
<1>3. /\ \A i \in 1 .. k : (i = 1 => f[i] = a[i]) /\ (i # 1 => f[i] = f[i - 1] \o a[i])
      /\ \A i \in 1 .. k + 1 : (i = 1 => g[i] = b[i]) /\ (i # 1 => g[i] = g[i - 1] \o b[i])
  <2>1. Joins(a, f, Len(a)) /\ Joins(b, g, Len(b))
    BY <1>1, JoinedExists
  <2> HIDE DEF f, g
  <2>2. Joins(a, f, k) /\ Joins(b, g, k + 1)
    BY <2>1, <1>1
  <2> QED
    BY <2>2, Zenon DEF Joins
<1>4. FlattenSeq(b) = g[k + 1]
  <2>1. Len(b) # 0
    BY <1>1
  <2>2. FlattenSeq(b) = Joined(b)[Len(b)]
    BY <2>1, FlattenIsJoined
  <2> QED
    BY <2>2, <1>1
<1> HIDE DEF f, g
<1>5. 0 \in T
  OBVIOUS
<1>6. ASSUME NEW e \in Nat, e \in T PROVE e + 1 \in T
  <2>1. SUFFICES ASSUME e + 1 \in 1 .. k PROVE g[e + 1] = f[e + 1]
    OBVIOUS
  <2>2. PICK j : j = e + 1
    OBVIOUS
  <2>3. j \in 1 .. k /\ j \in 1 .. k + 1 /\ a[j] = b[j] /\ (j # 1 => j - 1 = e /\ e \in 1 .. k)
    BY <2>1, <2>2, <1>2
  <2>4. CASE j = 1
    <3>1. g[j] = b[j] /\ f[j] = a[j]
      BY <2>3, <2>4, <1>3, Zenon
    <3> QED
      BY <3>1, <2>2, <2>3
  <2>5. CASE j # 1
    <3>1. g[j] = g[j - 1] \o b[j] /\ f[j] = f[j - 1] \o a[j]
      BY <2>3, <2>5, <1>3, Zenon
    <3>2. g[j - 1] = f[j - 1]
      BY <1>6, <2>3, <2>5
    <3> QED
      BY <3>1, <3>2, <2>2, <2>3
  <2> QED
    BY <2>4, <2>5
<1>7. k \in T
  <2> HIDE DEF T
  <2> QED
    BY <1>5, <1>6, SetInduction
<1>8. CASE k = 0
  <2>1. FlattenSeq(a) = <<>>
    <3>1. a = <<>>
      BY <1>8 DEF a
    <3> QED
      BY <3>1 DEF FlattenSeq
  <2>2. g[1] = b[1]
    BY <1>3, <1>8
  <2>3. <<>> \o ss[k + 1] = ss[k + 1]
    BY <1>2
  <2>4. FlattenSeq(b) = FlattenSeq(a) \o ss[k + 1]
    BY <2>1, <2>2, <2>3, <1>2, <1>4, <1>8
  <2> QED
    BY <2>4 DEF a, b
<1>9. CASE k # 0
  <2>1. FlattenSeq(a) = f[k]
    <3>1. FlattenSeq(a) = Joined(a)[Len(a)]
      BY <1>1, <1>9, FlattenIsJoined
    <3> QED
      BY <3>1, <1>1 DEF f
  <2>2. PICK j : j = k + 1 /\ j \in 1 .. k + 1 /\ j # 1 /\ j - 1 = k /\ k \in 1 .. k
    BY <1>9
  <2>3. g[j] = g[j - 1] \o b[j]
    BY <2>2, <1>3, Zenon
  <2>4. FlattenSeq(b) = FlattenSeq(a) \o ss[k + 1]
    BY <2>1, <2>2, <2>3, <1>2, <1>4, <1>7
  <2> QED
    BY <2>4 DEF a, b
<1> QED
  BY <1>8, <1>9

(* What main makes of a block is a block of the result.                    *)
LEMMA ProcessIs ==
  ASSUME FilesOk, NEW r \in Nat
  PROVE  LET block  == Input(r)
             output == IF decompress THEN DecodeBlock(block) ELSE WithSize(Encode(block))
         IN  /\ Len(block) \in Nat /\ (Len(block) = 0 <=> ~ (r < Count(data)))
             /\ r < Count(data) =>
                  /\ output = Result[r + 1] /\ Len(output) \in Nat \ {0}
                  /\ SubSeq(output, 1, Len(output)) = output
<1> DEFINE block  == Input(r)
           output == IF decompress THEN DecodeBlock(block) ELSE WithSize(Encode(block))
           x == BlocksOf(data)[r + 1]
<1>1. CASE r < Count(data)
  <2>1. data \in Seq(Nat) /\ BlockAt(data, r) /\ decompress \in BOOLEAN
    BY <1>1, BlocksAre DEF FilesOk
  <2>2. x \in Seq(Nat) /\ Len(x) \in Nat \ {0} /\ Compressed(data)[r + 1] = WithSize(Encode(x))
    BY <2>1 DEF BlockAt
  <2>3. EncodedAs(x, Encode(x), WithSize(Encode(x)))
    BY <2>2, EncodedIs
  <2>4. block = (IF decompress THEN Encode(x) ELSE x)
    BY <1>1 DEF Input
  <2>5. output = (IF decompress THEN x ELSE WithSize(Encode(x))) /\ output = Result[r + 1]
    BY <2>1, <2>2, <2>3, <2>4 DEF EncodedAs, Result
  <2>6. Len(block) \in Nat /\ Len(block) # 0
    BY <2>2, <2>3, <2>4 DEF EncodedAs
  <2>7. output \in Seq(Item) /\ Len(output) \in Nat \ {0}
    <3>1. x \in Seq(Item)
      BY <2>2 DEF Item
    <3> QED
      BY <3>1, <2>2, <2>3, <2>5 DEF EncodedAs
  <2> HIDE DEF output, block, x
  <2>8. SubSeq(output, 1, Len(output)) = output
    BY <2>7
  <2>9. /\ Len(block) \in Nat /\ (Len(block) = 0 <=> ~ (r < Count(data)))
        /\ r < Count(data) =>
             /\ output = Result[r + 1] /\ Len(output) \in Nat \ {0}
             /\ SubSeq(output, 1, Len(output)) = output
    BY <2>5, <2>6, <2>7, <2>8, <1>1
  <2> QED
    BY <2>9, Zenon DEF output, block
<1>2. CASE ~ (r < Count(data))
  <2>1. block = <<>>
    BY <1>2 DEF Input
  <2>2. Len(block) = 0
    BY <2>1
  <2> HIDE DEF output, block
  <2>3. /\ Len(block) \in Nat /\ (Len(block) = 0 <=> ~ (r < Count(data)))
        /\ r < Count(data) =>
             /\ output = Result[r + 1] /\ Len(output) \in Nat \ {0}
             /\ SubSeq(output, 1, Len(output)) = output
    BY <2>2, <1>2
  <2> QED
    BY <2>3, Zenon DEF output, block
<1> QED
  BY <1>1, <1>2

(* FileCopy means the same by FlattenSeq.                                  *)
LEMMA CopyFlattens == \A ss : Copy!FlattenSeq(ss) = FlattenSeq(ss)
BY DEF Copy!FlattenSeq, FlattenSeq

(* The output file, block by block.                                        *)
LEMMA ResultIs ==
  ASSUME FilesOk
  PROVE  /\ Count(data) \in Nat /\ Len(Result) = Count(data) /\ DOMAIN Result = 1 .. Count(data)
         /\ Copy!UpTo(0) = <<>>
         /\ \A k \in Nat : k < Count(data) => Copy!UpTo(k + 1) = Copy!UpTo(k) \o Result[k + 1]
<1>1. data \in Seq(Nat) /\ Len(data) \in Nat /\ decompress \in BOOLEAN
  BY DEF FilesOk
<1>2. Count(data) \in Nat
  BY <1>1, EndsNext
<1>3. Len(Result) = Count(data) /\ DOMAIN Result = 1 .. Count(data)
  BY <1>1, BlocksAre DEF Result
<1>4. \A i \in 1 .. Count(data) : Result[i] \in Seq(Item)
  <2> SUFFICES ASSUME NEW i \in 1 .. Count(data) PROVE Result[i] \in Seq(Item)
    OBVIOUS
  <2>1. PICK k \in Nat : k < Count(data) /\ k + 1 = i
    <3>1. i - 1 \in Nat /\ i - 1 < Count(data) /\ i - 1 + 1 = i
      BY <1>2
    <3> QED
      BY <3>1
  <2>2. BlockAt(data, k)
    BY <1>1, <2>1, BlocksAre
  <2> DEFINE x == BlocksOf(data)[k + 1]
  <2>3. x \in Seq(Nat) /\ Compressed(data)[k + 1] = WithSize(Encode(x))
    BY <2>2 DEF BlockAt
  <2>4. EncodedAs(x, Encode(x), WithSize(Encode(x)))
    BY <2>3, EncodedIs
  <2>5. x \in Seq(Item)
    BY <2>3 DEF Item
  <2> QED
    BY <2>1, <2>3, <2>4, <2>5 DEF EncodedAs, Result
<1>5. Result \in Seq(Seq(Item))
  <2>1. Result = [i \in 1 .. Count(data) |-> Result[i]]
    <3>1. Result = [i \in DOMAIN Result |-> Result[i]]
      BY <1>1 DEF Result, BlocksOf, Compressed
    <3> QED
      BY <3>1, <1>3
  <2> QED
    BY <2>1, <1>2, <1>4
<1>6. Copy!UpTo(0) = <<>>
  <2>1. SubSeq(Result, 1, 0) = <<>>
    BY <1>5
  <2> QED
    BY <2>1, CopyFlattens DEF Copy!UpTo, FlattenSeq
<1>7. ASSUME NEW k \in Nat, k < Count(data)
      PROVE  Copy!UpTo(k + 1) = Copy!UpTo(k) \o Result[k + 1]
  BY <1>3, <1>5, <1>7, FlattenNext, CopyFlattens DEF Copy!UpTo
<1> QED
  BY <1>2, <1>3, <1>6, <1>7

--------------------------------------------------------------------------------
(* The buffer of the i-th block, and what a full one has in it.            *)
Turn(i) == IF i % 2 = 0 THEN 0 ELSE 1

GotIn(b, i) == srcLen[b] = Len(Input(i)) /\ SubSeq(srcBuf[b], 1, srcLen[b]) = Input(i)

GotOut(b, i) ==
  /\ i < Count(data)
  /\ dstLen[b] \in Nat \ {0} /\ SubSeq(dstBuf[b], 1, dstLen[b]) = Result[i + 1]

InFlow     == pcM \in {"waitSrc", "waitDst", "test", "process", "postSrc", "postDst"}
HoldsSrc   == pcM \in {"waitDst", "test", "process", "postSrc"}
HoldsDst   == pcM \in {"test", "process", "postSrc", "postDst"}
ReaderActs == pcR \in {"check", "read", "post"}
WriterActs == pcW \in {"test", "write", "post"}
Drained    == pcW \in {"drain", "ended"}

(* While blocks flow: r were read, main has given back the input buffers   *)
(* of a, has sent off s, and w were written.                               *)
Freed(s) == IF pcM = "postDst" THEN s + 1 ELSE s

SourceBuffer(i, r, a) ==
  /\ srcDoneIO[Turn(i)] => r > i /\ ~ (i = a /\ HoldsSrc)
  /\ srcDoneCPU[Turn(i)] => r <= i /\ ~ (i = r /\ ReaderActs)
  /\ r > i => GotIn(Turn(i), i)

SourceFlow(r, a) ==
  /\ ~ stopThreads /\ pcR # "ended"
  /\ swapR = Turn(r) /\ r \in a .. a + 2
  /\ HoldsSrc => r > a
  /\ ReaderActs => r <= a + 1
  /\ SourceBuffer(a, r, a) /\ SourceBuffer(a + 1, r, a)
  /\ IF pcR = "post" THEN GotIn(swapR, r) /\ AfterReads(r + 1) ELSE AfterReads(r)

TargetFree(i, s, w) == dstDoneIO[Turn(i)] => i <= w + 1 /\ ~ (i = s /\ HoldsDst)

TargetFull(i, s, w) ==
  /\ dstDoneCPU[Turn(i)] => s > i /\ ~ (i = w /\ WriterActs)
  /\ s > i => GotOut(Turn(i), i)

TargetFlow(s, w) ==
  /\ pcW \in {"wait", "test", "write", "post"}
  /\ swapM = Turn(s) /\ s \in w .. w + 2 /\ s <= Count(data)
  /\ HoldsDst => s <= w + 1
  /\ WriterActs => s > w
  /\ TargetFree(s, s, w) /\ TargetFree(s + 1, s, w)
  /\ TargetFull(w, s, w) /\ TargetFull(w + 1, s, w)
  /\ pcM = "process" => s < Count(data)
  /\ pcM \in {"postSrc", "postDst"} => GotOut(swapM, s)
  /\ swapW = Turn(w)

(* When main has met an empty buffer and is on its way out.                *)
Ending(w) ==
  LET n == Count(data)
  IN  /\ n \in w .. w + 1
      /\ dstLen[Turn(n)] = 0
      /\ dstDoneIO[Turn(n)] => Drained
      /\ w < n => GotOut(Turn(w), w)
      /\ IF Drained THEN w = n ELSE swapW = Turn(w) /\ (pcW \in {"write", "post"} => w < n)
      /\ pcM = "await" /\ swapM = 1 /\ Turn(n) = 0 => Drained
      /\ pcM \in {"join", "exit"} => Drained

(* How many blocks the file has, where the writer is.                      *)
Out(w) == IF pcW = "post" THEN w + 1 ELSE w

Flow(r, s, w) ==
  /\ IF InFlow THEN SourceFlow(r, Freed(s)) /\ TargetFlow(s, w) ELSE Ending(w)
  /\ dstFile = Copy!UpTo(Out(w))

(* All of it: some counts fit.                                             *)
FlowInv == Places /\ FilesOk /\ \E r, s, w \in Nat : Flow(r, s, w)

(* The buffers take turns.                                                 *)
LEMMA TurnIs ==
  ASSUME NEW i \in Nat
  PROVE  /\ Turn(i) \in Buffer /\ Turn(i + 1) = Other(Turn(i)) /\ Turn(i + 1) # Turn(i)
         /\ Turn(i + 2) = Turn(i) /\ Turn(i + 1) \in Buffer
<1>1. i % 2 \in {0, 1} /\ (i + 2) % 2 = i % 2 /\ (i + 1) % 2 = 1 - (i % 2)
  OBVIOUS
<1> DEFINE p == i % 2
<1> HIDE DEF p
<1>2. p \in {0, 1} /\ Turn(i) = (IF p = 0 THEN 0 ELSE 1) /\ Turn(i + 2) = (IF p = 0 THEN 0 ELSE 1)
      /\ Turn(i + 1) = (IF 1 - p = 0 THEN 0 ELSE 1)
  BY <1>1 DEF p, Turn
<1> QED
  BY <1>2 DEF Buffer, Other

(* Nothing was read, sent or written yet.                                  *)
LEMMA FlowInit == Init => FlowInv
<1> SUFFICES ASSUME Init PROVE FlowInv
  OBVIOUS
<1>1. PICK n \in 0 .. MaxFile : data = [i \in 1 .. n |-> i]
  BY DEF Init
<1>2. n \in Nat
  BY PipelineAssumption
<1>3. data \in Seq(Nat) /\ Len(data) = n
  BY <1>1, <1>2
<1>4. FilesOk
  BY <1>3 DEF Init, FilesOk
<1>5. Places
  BY DEF Init, Places, Buffer
<1>6. AfterReads(0)
  <2>1. CASE ~ decompress
    <3>1. Ends(data, 0) = 0
      BY <1>3, EndsNext
    <3> QED
      BY <2>1, <3>1 DEF Init, AfterReads, ReadTo, Asks
  <2>2. CASE decompress
    <3>1. 0 < Len(data) /\ Ends(data, 0) = 0
      BY <2>2, <1>4, <1>3, EndsNext DEF FilesOk
    <3>2. 0 < Count(data)
      BY <3>1, <1>3, EndsNext
    <3>3. Found(data, srcFile, 0) /\ BlockAt(data, 0)
      BY <2>2, <3>2, <1>3, <1>4, CompressedFile, BlocksAre DEF FilesOk
    <3>4. srcFile[0 + 2 * 0 + 1] = Ends(data, 0 + 1) - 0 + 2
      BY <3>1, <3>3 DEF Found, BlockAt
    <3>5. blksz = srcFile[1] /\ srcPos = 1
      BY <2>2 DEF Init, SizeField
    <3>6. Asks(0) = Ends(data, 0 + 1) - Ends(data, 0) + 2 /\ ReadTo(0) = Ends(data, 0) + 2 * 0 + 1
      BY <2>2, <3>2 DEF Asks, ReadTo
    <3> QED
      BY <3>1, <3>4, <3>5, <3>6 DEF AfterReads
  <2> QED
    BY <2>1, <2>2
<1>7. Turn(0) = 0 /\ Turn(1) = 1
  BY DEF Turn
<1>8. /\ pcM = "waitSrc" /\ pcR = "wait" /\ pcW = "wait" /\ ~ stopThreads
      /\ swapR = 0 /\ swapM = 0 /\ swapW = 0 /\ dstFile = <<>>
      /\ ~ srcDoneIO[0] /\ ~ srcDoneIO[1] /\ ~ dstDoneCPU[0] /\ ~ dstDoneCPU[1]
  BY DEF Init, Buffer
<1>9. SourceFlow(0, 0)
  BY <1>6, <1>7, <1>8 DEF SourceFlow, SourceBuffer, HoldsSrc, ReaderActs
<1>10. TargetFlow(0, 0)
  <2>1. Count(data) \in Nat
    BY <1>3, EndsNext
  <2> QED
    BY <1>7, <1>8, <2>1 DEF TargetFlow, TargetFree, TargetFull, HoldsDst, WriterActs
<1>11. dstFile = Copy!UpTo(0)
  BY <1>4, <1>8, ResultIs
<1>12. Flow(0, 0, 0)
  BY <1>8, <1>9, <1>10, <1>11 DEF Flow, Freed, InFlow, Out
<1> QED
  BY <1>4, <1>5, <1>12 DEF FlowInv

--------------------------------------------------------------------------------
(* The files stay, and what depends on them.                               *)
LEMMA FilesStay ==
  ASSUME UNCHANGED files
  PROVE  /\ Count(data)' = Count(data) /\ Result' = Result
         /\ \A i : Input(i)' = Input(i) /\ ReadTo(i)' = ReadTo(i) /\ Asks(i)' = Asks(i)
         /\ \A i : Copy!UpTo(i)' = Copy!UpTo(i)
         /\ FilesOk' = FilesOk
<1>1. data' = data /\ decompress' = decompress /\ srcFile' = srcFile
  BY DEF files
<1>2. Count(data)' = Count(data) /\ Result' = Result
  BY <1>1 DEF Count, Result
<1>3. \A i : Input(i)' = Input(i) /\ ReadTo(i)' = ReadTo(i) /\ Asks(i)' = Asks(i)
  BY <1>1 DEF Input, ReadTo, Asks
<1>4. \A i : Copy!UpTo(i)' = Copy!UpTo(i)
  BY <1>2 DEF Copy!UpTo
<1>5. FilesOk' = FilesOk
  BY <1>1 DEF FilesOk
<1> QED
  BY <1>2, <1>3, <1>4, <1>5

(* What the output depends on, when none of it changes.                    *)
LEMMA TargetStays ==
  ASSUME NEW s, NEW w, UNCHANGED files, UNCHANGED target, pcM' = pcM, swapM' = swapM,
         UNCHANGED writer, UNCHANGED <<dstDoneIO, dstDoneCPU>>
  PROVE  /\ TargetFlow(s, w)' = TargetFlow(s, w) /\ Ending(w)' = Ending(w) /\ InFlow' = InFlow
         /\ dstFile' = dstFile /\ pcW' = pcW /\ Freed(s)' = Freed(s) /\ HoldsSrc' = HoldsSrc
<1>1. /\ dstLen' = dstLen /\ dstBuf' = dstBuf /\ pcW' = pcW /\ swapW' = swapW /\ dstFile' = dstFile
      /\ dstDoneIO' = dstDoneIO /\ dstDoneCPU' = dstDoneCPU
  BY DEF target, writer
<1>2. Count(data)' = Count(data) /\ Result' = Result
  BY FilesStay
<1>3. \A b, i : GotOut(b, i)' = GotOut(b, i)
  BY <1>1, <1>2 DEF GotOut
<1>4. HoldsDst' = HoldsDst /\ WriterActs' = WriterActs /\ Drained' = Drained
  BY <1>1 DEF HoldsDst, WriterActs, Drained
<1>5. \A i : TargetFree(i, s, w)' = TargetFree(i, s, w) /\ TargetFull(i, s, w)' = TargetFull(i, s, w)
  BY <1>1, <1>3, <1>4 DEF TargetFree, TargetFull
<1>6. TargetFlow(s, w)' = TargetFlow(s, w)
  BY <1>1, <1>2, <1>3, <1>4, <1>5 DEF TargetFlow
<1>7. Ending(w)' = Ending(w)
  BY <1>1, <1>2, <1>3, <1>4 DEF Ending
<1> QED
  BY <1>1, <1>6, <1>7 DEF InFlow, Freed, HoldsSrc

(* The reader.                                                             *)
LEMMA ReaderFlow ==
  ASSUME Places, FilesOk, NEW r \in Nat, NEW a \in Nat, SourceFlow(r, a), UNCHANGED files,
         stopThreads' = stopThreads, HoldsSrc' = HoldsSrc,
         ReaderWait \/ ReaderCheck \/ ReaderRead \/ ReaderPost
  PROVE  \E k \in Nat : SourceFlow(k, a)'
<1>1. /\ Turn(a) \in Buffer /\ Turn(a + 1) \in Buffer /\ Turn(a + 1) # Turn(a) /\ Turn(a + 2) = Turn(a)
      /\ Turn(r) \in Buffer /\ Turn(r + 1) = Other(Turn(r))
  BY TurnIs
<1>2. \A i : Input(i)' = Input(i) /\ ReadTo(i)' = ReadTo(i) /\ Asks(i)' = Asks(i)
  BY FilesStay
<1>3. r = a \/ r = a + 1 \/ r = a + 2
  BY DEF SourceFlow
<1>4. CASE ReaderWait
  <2>1. /\ srcDoneCPU[swapR] /\ srcDoneCPU' = [srcDoneCPU EXCEPT ![swapR] = FALSE]
        /\ pcR = "wait" /\ pcR' = "check" /\ swapR' = swapR /\ srcPos' = srcPos /\ blksz' = blksz
        /\ srcBuf' = srcBuf /\ srcLen' = srcLen /\ srcDoneIO' = srcDoneIO
    BY <1>4 DEF ReaderWait, Acquire, source
  <2>2. swapR = Turn(r) /\ srcDoneCPU[Turn(r)] /\ srcDoneCPU \in [Buffer -> BOOLEAN]
    BY <2>1 DEF SourceFlow, Places
  <2>3. r # a + 2
    BY <1>1, <2>2 DEF SourceFlow, SourceBuffer
  <2>4. ~ srcDoneCPU'[Turn(r)]
    BY <2>1, <2>2, <1>1
  <2>5. \A b \in Buffer : srcDoneCPU'[b] => srcDoneCPU[b]
    BY <2>1, <2>2
  <2>6. \A b, i : GotIn(b, i)' = GotIn(b, i)
    BY <1>2, <2>1 DEF GotIn
  <2>7. SourceBuffer(a, r, a)' /\ SourceBuffer(a + 1, r, a)'
    BY <1>1, <2>1, <2>3, <2>4, <2>5, <2>6 DEF SourceFlow, SourceBuffer, ReaderActs
  <2>8. AfterReads(r)'
    BY <1>2, <2>1 DEF SourceFlow, AfterReads
  <2> QED
    BY <1>3, <2>1, <2>3, <2>7, <2>8 DEF SourceFlow, ReaderActs
<1>5. CASE ReaderCheck
  <2>1. /\ pcR = "check" /\ pcR' = "read" /\ swapR' = swapR /\ srcPos' = srcPos /\ blksz' = blksz
        /\ srcBuf' = srcBuf /\ srcLen' = srcLen /\ srcDoneIO' = srcDoneIO /\ srcDoneCPU' = srcDoneCPU
    BY <1>5 DEF ReaderCheck, source, SourceFlow
  <2>2. \A b, i : GotIn(b, i)' = GotIn(b, i)
    BY <1>2, <2>1 DEF GotIn
  <2>3. SourceBuffer(a, r, a)' /\ SourceBuffer(a + 1, r, a)'
    BY <2>1, <2>2 DEF SourceFlow, SourceBuffer, ReaderActs
  <2>4. AfterReads(r)'
    BY <1>2, <2>1 DEF SourceFlow, AfterReads
  <2> QED
    BY <2>1, <2>3, <2>4 DEF SourceFlow, ReaderActs
<1>6. CASE ReaderRead
  <2> DEFINE got == Min({blksz, Len(srcFile) - srcPos})
             text == SubSeq(srcFile, srcPos + 1, srcPos + got)
             len == IF Full(got) THEN got - SizeField ELSE got
             size == IF Full(got) THEN srcFile[srcPos + got] ELSE IF decompress THEN 0 ELSE blksz
  <2>1. /\ pcR = "read" /\ pcR' = "post" /\ swapR' = swapR
        /\ srcDoneIO' = srcDoneIO /\ srcDoneCPU' = srcDoneCPU
        /\ srcBuf' = [srcBuf EXCEPT ![swapR] = text] /\ srcLen' = [srcLen EXCEPT ![swapR] = len]
        /\ blksz' = size /\ srcPos' = srcPos + got
    BY <1>6 DEF ReaderRead
  <2>2. swapR = Turn(r) /\ AfterReads(r) /\ r <= a + 1
    BY <2>1 DEF SourceFlow, ReaderActs
  <2>3. Reads(r, text, len, srcPos + got, size)
    <3>1. CASE decompress
      BY <2>2, <3>1, ReadCoded
    <3>2. CASE ~ decompress
      <4>1. ~ Full(got)
        BY <3>2 DEF Full
      <4> QED
        BY <2>2, <3>2, <4>1, ReadPlain
    <3> QED
      BY <3>1, <3>2
  <2> HIDE DEF got, text, len, size
  <2>4. srcBuf' [Turn(r)] = text /\ srcLen'[Turn(r)] = len
    BY <1>1, <2>1, <2>2 DEF Places
  <2>5. \A b \in Buffer : b # Turn(r) => srcBuf'[b] = srcBuf[b] /\ srcLen'[b] = srcLen[b]
    BY <2>1, <2>2 DEF Places
  <2>6. GotIn(Turn(r), r)' /\ AfterReads(r + 1)'
    BY <1>2, <2>1, <2>3, <2>4 DEF GotIn, AfterReads, Reads
  <2>7. \A b \in Buffer : b # Turn(r) => \A i : GotIn(b, i)' = GotIn(b, i)
    BY <1>2, <2>5 DEF GotIn
  <2>8. SourceBuffer(a, r, a)' /\ SourceBuffer(a + 1, r, a)'
    BY <1>1, <1>3, <2>1, <2>2, <2>7 DEF SourceFlow, SourceBuffer, ReaderActs
  <2> QED
    BY <2>1, <2>2, <2>6, <2>8 DEF SourceFlow, ReaderActs
<1>7. CASE ReaderPost
  <2>1. /\ pcR = "post" /\ pcR' = "wait" /\ swapR' = Other(swapR) /\ srcPos' = srcPos /\ blksz' = blksz
        /\ srcBuf' = srcBuf /\ srcLen' = srcLen /\ srcDoneCPU' = srcDoneCPU
        /\ srcDoneIO' = [srcDoneIO EXCEPT ![swapR] = TRUE]
    BY <1>7 DEF ReaderPost, Post, source
  <2>2. swapR = Turn(r) /\ AfterReads(r + 1) /\ GotIn(Turn(r), r) /\ r <= a + 1 /\ swapR' = Turn(r + 1)
    BY <1>1, <2>1 DEF SourceFlow, ReaderActs
  <2>3. \A b, i : GotIn(b, i)' = GotIn(b, i)
    BY <1>2, <2>1 DEF GotIn
  <2>4. AfterReads(r + 1)'
    BY <1>2, <2>1, <2>2 DEF AfterReads
  <2>5. \A b \in Buffer : b # Turn(r) => srcDoneIO'[b] = srcDoneIO[b]
    BY <2>1, <2>2 DEF Places
  <2>6. SourceBuffer(a, r + 1, a)' /\ SourceBuffer(a + 1, r + 1, a)'
    BY <1>1, <1>3, <2>1, <2>2, <2>3, <2>5 DEF SourceFlow, SourceBuffer, ReaderActs
  <2>7. SourceFlow(r + 1, a)'
    BY <1>3, <2>1, <2>2, <2>4, <2>6 DEF SourceFlow, ReaderActs
  <2> QED
    BY <2>7
<1> QED
  BY <1>4, <1>5, <1>6, <1>7

--------------------------------------------------------------------------------
(* What a step of main leaves alone.                                       *)
MainLeaves == UNCHANGED <<files, reader, writer, source>>

LEMMA MainKeeps ==
  ASSUME MainLeaves
  PROVE  /\ \A b, i : GotIn(b, i)' = GotIn(b, i)
         /\ \A i : AfterReads(i)' = AfterReads(i)
         /\ pcR' = pcR /\ swapR' = swapR /\ ReaderActs' = ReaderActs
         /\ pcW' = pcW /\ swapW' = swapW /\ WriterActs' = WriterActs /\ Drained' = Drained
         /\ dstFile' = dstFile /\ Count(data)' = Count(data) /\ Result' = Result
         /\ \A i : Copy!UpTo(i)' = Copy!UpTo(i)
         /\ FilesOk' = FilesOk
<1>1. /\ UNCHANGED files /\ srcBuf' = srcBuf /\ srcLen' = srcLen /\ srcPos' = srcPos /\ blksz' = blksz
      /\ pcR' = pcR /\ swapR' = swapR /\ pcW' = pcW /\ swapW' = swapW /\ dstFile' = dstFile
  BY DEF MainLeaves, reader, writer, source
<1>2. \A b, i : GotIn(b, i)' = GotIn(b, i)
  BY <1>1, FilesStay DEF GotIn
<1>3. \A i : AfterReads(i)' = AfterReads(i)
  BY <1>1, FilesStay DEF AfterReads
<1> QED
  BY <1>1, <1>2, <1>3, FilesStay DEF ReaderActs, WriterActs, Drained

LEMMA TargetKept ==
  ASSUME MainLeaves, UNCHANGED target
  PROVE  \A b, i : GotOut(b, i)' = GotOut(b, i)
BY MainKeeps DEF GotOut, target

(* Main, as far as the input buffers are concerned.                        *)
LEMMA MainSource ==
  ASSUME Places, MainLeaves, NEW r \in Nat, NEW s \in Nat, SourceFlow(r, Freed(s)), swapM = Turn(s),
         MainWaitSrc \/ MainWaitDst \/ MainTest \/ MainProcess \/ MainPostSrc
  PROVE  /\ InFlow' => SourceFlow(r, Freed(s))'
         /\ MainTest => GotIn(swapM, s)
         /\ MainProcess => GotIn(swapM, s)
<1> DEFINE a == Freed(s)
<1>1. a = s /\ r \in s .. s + 2 /\ pcM \notin {"postDst"}
  BY DEF Freed, SourceFlow, MainWaitSrc, MainWaitDst, MainTest, MainProcess, MainPostSrc
<1>2. /\ Turn(s) \in Buffer /\ Turn(s + 1) \in Buffer /\ Turn(s + 1) # Turn(s) /\ Turn(s + 2) = Turn(s)
      /\ Turn(s + 1 + 1) = Turn(s)
  <2>1. s + 1 + 1 = s + 2
    OBVIOUS
  <2> QED
    BY <2>1, TurnIs
<1>3. SourceFlow(r, s) /\ SourceBuffer(s, r, s) /\ SourceBuffer(s + 1, r, s)
  BY <1>1 DEF SourceFlow
<1>4. CASE MainWaitSrc
  <2>1. /\ pcM = "waitSrc" /\ pcM' = "waitDst" /\ srcDoneIO[Turn(s)]
        /\ srcDoneIO' = [srcDoneIO EXCEPT ![Turn(s)] = FALSE]
        /\ srcDoneCPU' = srcDoneCPU /\ stopThreads' = stopThreads
    BY <1>4 DEF MainWaitSrc, Acquire
  <2>2. Freed(s)' = s /\ r > s
    BY <2>1, <1>3 DEF Freed, SourceBuffer
  <2>3. ~ srcDoneIO'[Turn(s)] /\ srcDoneIO'[Turn(s + 1)] = srcDoneIO[Turn(s + 1)]
    BY <2>1, <1>2 DEF Places
  <2>4. SourceBuffer(s, r, s)' /\ SourceBuffer(s + 1, r, s)'
    BY <1>3, <2>1, <2>3, MainKeeps DEF SourceBuffer
  <2>5. SourceFlow(r, s)'
    BY <1>3, <2>1, <2>2, <2>4, MainKeeps DEF SourceFlow, HoldsSrc
  <2> QED
    BY <1>4, <2>1, <2>2, <2>5 DEF MainTest, MainProcess
<1>5. CASE MainWaitDst \/ MainTest \/ MainProcess
  <2>1. /\ pcM \in {"waitDst", "test", "process"} /\ pcM' \in {"test", "report", "process", "postSrc"}
        /\ srcDoneIO' = srcDoneIO /\ srcDoneCPU' = srcDoneCPU /\ stopThreads' = stopThreads
    BY <1>5 DEF MainWaitDst, MainTest, MainProcess
  <2>2. r > s /\ HoldsSrc
    BY <2>1, <1>3 DEF SourceFlow, HoldsSrc
  <2>3. GotIn(swapM, s)
    BY <2>2, <1>3 DEF SourceBuffer
  <2>4. CASE InFlow'
    <3>1. HoldsSrc' /\ Freed(s)' = s
      BY <2>1, <2>4 DEF InFlow, HoldsSrc, Freed
    <3>2. SourceBuffer(s, r, s)' /\ SourceBuffer(s + 1, r, s)'
      BY <1>3, <2>1, <2>2, <3>1, MainKeeps DEF SourceBuffer
    <3>3. SourceFlow(r, s)'
      BY <1>3, <2>1, <2>2, <3>1, <3>2, MainKeeps DEF SourceFlow
    <3> QED
      BY <2>3, <3>1, <3>3
  <2> QED
    BY <2>3, <2>4
<1>6. CASE MainPostSrc
  <2>1. /\ pcM = "postSrc" /\ pcM' = "postDst" /\ srcDoneIO' = srcDoneIO /\ stopThreads' = stopThreads
        /\ srcDoneCPU' = [srcDoneCPU EXCEPT ![Turn(s)] = TRUE]
    BY <1>6 DEF MainPostSrc, Post
  <2>2. Freed(s)' = s + 1 /\ r > s /\ HoldsSrc /\ ~ HoldsSrc'
    BY <2>1, <1>3 DEF Freed, SourceFlow, HoldsSrc
  <2>3. srcDoneCPU'[Turn(s + 1)] = srcDoneCPU[Turn(s + 1)]
    BY <2>1, <1>2 DEF Places
  <2>4. SourceBuffer(s + 1, r, s + 1)'
    <3> PICK n : n = s + 1
      OBVIOUS
    <3>1. SourceBuffer(n, r, s) /\ n # s /\ srcDoneCPU'[Turn(n)] = srcDoneCPU[Turn(n)]
      BY <1>3, <2>3
    <3>2. ReaderActs' = ReaderActs /\ GotIn(Turn(n), n)' = GotIn(Turn(n), n)
      BY MainKeeps
    <3>3. (srcDoneIO[Turn(n)])' => r > n /\ ~ HoldsSrc'
      BY <2>1, <2>2, <3>1 DEF SourceBuffer
    <3>4. (srcDoneCPU[Turn(n)])' => r <= n /\ ~ (n = r /\ ReaderActs')
      BY <2>1, <2>2, <3>1, <3>2 DEF SourceBuffer
    <3>5. r > n => GotIn(Turn(n), n)'
      BY <2>1, <2>2, <3>1, <3>2 DEF SourceBuffer
    <3>6. SourceBuffer(n, r, n)'
      BY <3>3, <3>4, <3>5 DEF SourceBuffer
    <3> QED
      BY <3>6
  <2>5. SourceBuffer(s + 1 + 1, r, s + 1)'
    <3>1. r <= s + 1 + 1 /\ ~ (s + 1 + 1 = r /\ ReaderActs) /\ ~ srcDoneIO[Turn(s)]
      BY <1>1, <1>3, <2>2 DEF SourceFlow, SourceBuffer
    <3> QED
      BY <1>2, <2>1, <3>1, MainKeeps DEF SourceBuffer
  <2>6. SourceFlow(r, s + 1)'
    <3>1. r \in s + 1 .. s + 1 + 2 /\ (ReaderActs => r <= s + 1 + 1)
      BY <1>1, <1>3, <2>2 DEF SourceFlow
    <3> QED
      BY <1>3, <2>1, <2>2, <2>4, <2>5, <3>1, MainKeeps DEF SourceFlow
  <2> QED
    BY <1>6, <2>1, <2>2, <2>6 DEF MainTest, MainProcess
<1> QED
  BY <1>4, <1>5, <1>6

(* Main, as far as the output buffers are concerned, up to the test.       *)
LEMMA MainTarget ==
  ASSUME Places, FilesOk, MainLeaves, NEW s \in Nat, NEW w \in Nat, TargetFlow(s, w),
         MainWaitSrc \/ MainWaitDst \/ MainPostSrc
  PROVE  TargetFlow(s, w)' /\ InFlow'
<1>1. UNCHANGED target /\ dstDoneCPU' = dstDoneCPU /\ swapM' = swapM
  BY DEF MainWaitSrc, MainWaitDst, MainPostSrc
<1>2. \A b, i : GotOut(b, i)' = GotOut(b, i)
  BY <1>1, TargetKept
<1>3. /\ Turn(s) \in Buffer /\ Turn(s + 1) \in Buffer /\ Turn(s + 1) # Turn(s)
  BY TurnIs
<1>4. TargetFull(w, s, w)' /\ TargetFull(w + 1, s, w)'
  BY <1>1, <1>2, MainKeeps DEF TargetFlow, TargetFull
<1>5. CASE MainWaitSrc \/ MainPostSrc
  <2>1. /\ dstDoneIO' = dstDoneIO /\ HoldsDst' = HoldsDst
        /\ \/ pcM = "waitSrc" /\ pcM' = "waitDst"
           \/ pcM = "postSrc" /\ pcM' = "postDst"
    BY <1>5 DEF MainWaitSrc, MainPostSrc, HoldsDst
  <2>2. TargetFree(s, s, w)' /\ TargetFree(s + 1, s, w)'
    BY <2>1 DEF TargetFlow, TargetFree
  <2> QED
    BY <1>1, <1>2, <1>4, <2>1, <2>2, MainKeeps DEF TargetFlow, InFlow
<1>6. CASE MainWaitDst
  <2>1. /\ pcM = "waitDst" /\ pcM' = "test" /\ dstDoneIO[swapM]
        /\ dstDoneIO' = [dstDoneIO EXCEPT ![swapM] = FALSE]
    BY <1>6 DEF MainWaitDst, Acquire
  <2>2. swapM = Turn(s) /\ s <= w + 1
    BY <2>1 DEF TargetFlow, TargetFree
  <2>3. ~ dstDoneIO'[Turn(s)] /\ dstDoneIO'[Turn(s + 1)] = dstDoneIO[Turn(s + 1)]
    BY <1>3, <2>1, <2>2 DEF Places
  <2>4. TargetFree(s, s, w)' /\ TargetFree(s + 1, s, w)'
    BY <2>3 DEF TargetFlow, TargetFree
  <2> QED
    BY <1>1, <1>2, <1>4, <2>1, <2>2, <2>4, MainKeeps DEF TargetFlow, InFlow, HoldsDst
<1> QED
  BY <1>5, <1>6

(* The test of the length, and what it decides.                            *)
LEMMA MainTests ==
  ASSUME Places, FilesOk, MainLeaves, NEW s \in Nat, NEW w \in Nat, TargetFlow(s, w),
         MainTest, GotIn(swapM, s)
  PROVE  IF InFlow' THEN TargetFlow(s, w)' ELSE Ending(w)'
<1>1. /\ pcM = "test" /\ dstBuf' = dstBuf /\ swapM' = swapM /\ swapM = Turn(s)
      /\ dstDoneIO' = dstDoneIO /\ dstDoneCPU' = dstDoneCPU /\ s <= Count(data) /\ s <= w + 1
      /\ s \in w .. w + 2
  BY DEF MainTest, TargetFlow, HoldsDst
<1>2. /\ Turn(s) \in Buffer /\ Turn(s + 1) # Turn(s) /\ Turn(w) \in Buffer /\ Turn(w + 1) # Turn(w)
  BY TurnIs
<1>3. Count(data) \in Nat /\ (srcLen[swapM] = 0 <=> ~ (s < Count(data)))
  BY ProcessIs, ResultIs DEF GotIn
<1>4. CASE srcLen[swapM] # 0
  <2>1. pcM' = "process" /\ dstLen' = dstLen
    BY <1>4 DEF MainTest
  <2>2. \A b, i : GotOut(b, i)' = GotOut(b, i)
    BY <1>1, <2>1, TargetKept DEF target
  <2>3. TargetFree(s, s, w)' /\ TargetFree(s + 1, s, w)'
    BY <1>1, <2>1 DEF TargetFlow, TargetFree, HoldsDst
  <2>4. TargetFull(w, s, w)' /\ TargetFull(w + 1, s, w)'
    BY <1>1, <2>2, MainKeeps DEF TargetFlow, TargetFull
  <2> QED
    BY <1>1, <1>3, <1>4, <2>1, <2>2, <2>3, <2>4, MainKeeps DEF TargetFlow, InFlow
<1>5. CASE srcLen[swapM] = 0
  <2>1. pcM' = "report" /\ dstLen' = [dstLen EXCEPT ![swapM] = 0] /\ s = Count(data)
    BY <1>1, <1>3, <1>5 DEF MainTest
  <2>2. dstLen'[Turn(s)] = 0 /\ \A b \in Buffer : b # Turn(s) => dstLen'[b] = dstLen[b]
    BY <1>1, <1>2, <2>1 DEF Places
  <2>3. \A b \in Buffer : b # Turn(s) => \A i : GotOut(b, i)' = GotOut(b, i)
    BY <1>1, <2>2, MainKeeps DEF GotOut
  <2>4. ~ dstDoneIO[Turn(s)]
    BY <1>1 DEF TargetFlow, TargetFree, HoldsDst
  <2>5. w < s => GotOut(Turn(w), w)'
    <3> HAVE w < s
    <3>1. s = w + 1 /\ GotOut(Turn(w), w)
      BY <1>1 DEF TargetFlow, TargetFull
    <3> QED
      BY <1>2, <2>3, <3>1
  <2>6. ~ Drained /\ swapW = Turn(w) /\ (pcW \in {"write", "post"} => w < s)
    BY DEF TargetFlow, Drained, WriterActs
  <2>7. Ending(w)'
    BY <1>1, <2>1, <2>2, <2>4, <2>5, <2>6, MainKeeps DEF Ending
  <2> QED
    BY <2>1, <2>7 DEF InFlow
<1> QED
  BY <1>4, <1>5

(* A block is processed, and sent off.                                     *)
LEMMA MainMakes ==
  ASSUME Places, FilesOk, MainLeaves, NEW s \in Nat, NEW w \in Nat, TargetFlow(s, w),
         MainProcess, GotIn(swapM, s)
  PROVE  TargetFlow(s, w)' /\ InFlow'
<1> DEFINE block  == Input(s)
           output == IF decompress THEN DecodeBlock(block) ELSE WithSize(Encode(block))
<1>1. /\ pcM = "process" /\ pcM' = "postSrc" /\ swapM' = swapM /\ swapM = Turn(s)
      /\ dstDoneIO' = dstDoneIO /\ dstDoneCPU' = dstDoneCPU /\ s <= w + 1 /\ s \in w .. w + 2
  BY DEF MainProcess, TargetFlow, HoldsDst
<1>0. s < Count(data)
  BY <1>1 DEF TargetFlow
<1>2. dstBuf' = [dstBuf EXCEPT ![swapM] = output] /\ dstLen' = [dstLen EXCEPT ![swapM] = Len(output)]
  BY DEF MainProcess, GotIn
<1>3. output = Result[s + 1] /\ Len(output) \in Nat \ {0} /\ SubSeq(output, 1, Len(output)) = output
  BY <1>0, ProcessIs
<1> HIDE DEF output, block
<1>4. /\ Turn(s) \in Buffer /\ Turn(s + 1) # Turn(s) /\ Turn(w) \in Buffer /\ Turn(w + 1) # Turn(w)
      /\ Turn(w + 1) \in Buffer
  BY TurnIs
<1>5. dstBuf'[Turn(s)] = output /\ dstLen'[Turn(s)] = Len(output)
  BY <1>1, <1>2, <1>4 DEF Places
<1>6. \A b \in Buffer : b # Turn(s) => dstBuf'[b] = dstBuf[b] /\ dstLen'[b] = dstLen[b]
  BY <1>1, <1>2 DEF Places
<1>7. GotOut(swapM, s)'
  BY <1>0, <1>1, <1>3, <1>5, MainKeeps DEF GotOut
<1>8. \A b \in Buffer : b # Turn(s) => \A i : GotOut(b, i)' = GotOut(b, i)
  BY <1>6, MainKeeps DEF GotOut
<1>9. TargetFree(s, s, w)' /\ TargetFree(s + 1, s, w)'
  BY <1>1 DEF TargetFlow, TargetFree, HoldsDst
<1>10. TargetFull(w, s, w)' /\ TargetFull(w + 1, s, w)'
  BY <1>1, <1>4, <1>8, MainKeeps DEF TargetFlow, TargetFull
<1> QED
  BY <1>1, <1>7, <1>9, <1>10, MainKeeps DEF TargetFlow, InFlow, HoldsDst

(* A full output buffer is handed to the writer.                           *)
LEMMA MainSends ==
  ASSUME Places, FilesOk, MainLeaves, NEW s \in Nat, NEW w \in Nat, TargetFlow(s, w), MainPostDst
  PROVE  TargetFlow(s + 1, w)' /\ InFlow' /\ Freed(s + 1)' = Freed(s)
<1>1. /\ pcM = "postDst" /\ pcM' = "waitSrc" /\ swapM' = Other(swapM) /\ swapM = Turn(s)
      /\ dstDoneIO' = dstDoneIO /\ dstDoneCPU' = [dstDoneCPU EXCEPT ![swapM] = TRUE]
      /\ UNCHANGED target /\ s <= w + 1 /\ s \in w .. w + 2 /\ GotOut(Turn(s), s)
  BY DEF MainPostDst, Post, TargetFlow, HoldsDst
<1>2. /\ Turn(s) \in Buffer /\ Turn(s + 1) = Other(Turn(s)) /\ Turn(s + 1) # Turn(s)
      /\ Turn(w) \in Buffer /\ Turn(w + 1) # Turn(w) /\ Turn(w + 1) \in Buffer
      /\ Turn(s + 1 + 1) = Turn(s)
  <2>1. s + 1 + 1 = s + 2
    OBVIOUS
  <2> QED
    BY <2>1, TurnIs
<1>3. \A b, i : GotOut(b, i)' = GotOut(b, i)
  BY <1>1, TargetKept
<1>4. s < Count(data) /\ Count(data) \in Nat
  BY <1>1, ResultIs DEF GotOut
<1>5. TargetFree(s + 1, s + 1, w)' /\ TargetFree(s + 1 + 1, s + 1, w)'
  BY <1>1, <1>2 DEF TargetFlow, TargetFree, HoldsDst
<1>6. s = w \/ s = w + 1
  BY <1>1
<1>7. /\ dstDoneCPU'[Turn(s)] /\ \A b \in Buffer : b # Turn(s) => dstDoneCPU'[b] = dstDoneCPU[b]
  BY <1>1, <1>2 DEF Places
<1>8. TargetFull(w, s + 1, w)' /\ TargetFull(w + 1, s + 1, w)'
  <2>1. CASE s = w
    BY <1>1, <1>2, <1>3, <1>7, <2>1, MainKeeps DEF TargetFlow, TargetFull
  <2>2. CASE s = w + 1
    BY <1>1, <1>2, <1>3, <1>7, <2>2, MainKeeps DEF TargetFlow, TargetFull
  <2> QED
    BY <1>6, <2>1, <2>2
<1>9. s + 1 \in w .. w + 2 /\ s + 1 <= Count(data)
  BY <1>1, <1>4, <1>6
<1>10. TargetFlow(s + 1, w)'
  BY <1>1, <1>2, <1>5, <1>8, <1>9, MainKeeps DEF TargetFlow, HoldsDst
<1> QED
  BY <1>1, <1>10 DEF InFlow, Freed

(* Main on its way out.                                                    *)
LEMMA MainEnds ==
  ASSUME Places, FilesOk, MainLeaves, NEW w \in Nat, Ending(w), ~ InFlow,
         MainReport \/ MainStop \/ MainReleaseSrc \/ MainReleaseDst \/ MainAwait \/ MainJoin
  PROVE  Ending(w)' /\ ~ InFlow'
<1>1. UNCHANGED target
  BY DEF MainReport, MainStop, MainReleaseSrc, MainReleaseDst, MainAwait, MainJoin
<1>2. (\A b, i : GotOut(b, i)' = GotOut(b, i)) /\ dstLen' = dstLen
  BY <1>1, TargetKept DEF target
<1>3. Count(data) \in Nat /\ Turn(Count(data)) \in Buffer
  BY ResultIs, TurnIs
<1>4. CASE MainReport \/ MainStop \/ MainReleaseSrc \/ MainReleaseDst \/ MainJoin
  <2>1. dstDoneIO' = dstDoneIO
    BY <1>4 DEF MainReport, MainStop, MainReleaseSrc, MainReleaseDst, MainJoin
  <2>2. /\ pcM' \in {"crashed", "stop", "releaseSrc", "releaseDst", "await", "exit"}
        /\ pcM' = "await" => swapM' = 0
        /\ pcM' = "exit" => pcW = "ended"
    BY <1>4 DEF MainReport, MainStop, MainReleaseSrc, MainReleaseDst, MainJoin, Places, Buffer, Other
  <2> QED
    BY <1>2, <2>1, <2>2, MainKeeps DEF Ending, InFlow, Drained
<1>5. CASE MainAwait
  <2>1. /\ pcM = "await" /\ dstDoneIO[swapM] /\ dstDoneIO' = [dstDoneIO EXCEPT ![swapM] = FALSE]
        /\ swapM \in {0, 1} /\ swapM' = 1 - swapM /\ pcM' = IF swapM = 0 THEN "await" ELSE "join"
    BY <1>5 DEF MainAwait, Acquire, Places, Buffer, Other
  <2>2. Turn(Count(data)) = swapM => Drained
    BY <2>1 DEF Ending
  <2>3. \A b \in Buffer : dstDoneIO'[b] => dstDoneIO[b]
    BY <2>1 DEF Places
  <2>4. pcM' = "join" => Drained
    BY <1>3, <2>1, <2>2 DEF Ending, Buffer
  <2>5. pcM' = "await" /\ Turn(Count(data)) = 0 => Drained
    BY <2>1, <2>2
  <2> QED
    BY <1>2, <1>3, <2>1, <2>3, <2>4, <2>5, MainKeeps DEF Ending, InFlow
<1> QED
  BY <1>4, <1>5

--------------------------------------------------------------------------------
(* What a step of the writer leaves alone.                                 *)
WriterLeaves == UNCHANGED <<files, reader, main, source, target, srcDoneIO, srcDoneCPU>>

LEMMA WriterKeeps ==
  ASSUME WriterLeaves
  PROVE  /\ \A r, a : SourceFlow(r, a)' = SourceFlow(r, a)
         /\ \A b, i : GotOut(b, i)' = GotOut(b, i)
         /\ \A i : Copy!UpTo(i)' = Copy!UpTo(i)
         /\ \A i : Freed(i)' = Freed(i)
         /\ pcM' = pcM /\ swapM' = swapM /\ InFlow' = InFlow /\ HoldsDst' = HoldsDst
         /\ dstLen' = dstLen /\ dstBuf' = dstBuf
         /\ Count(data)' = Count(data) /\ Result' = Result /\ FilesOk' = FilesOk
<1>1. /\ UNCHANGED files /\ srcBuf' = srcBuf /\ srcLen' = srcLen /\ srcPos' = srcPos /\ blksz' = blksz
      /\ pcR' = pcR /\ swapR' = swapR /\ pcM' = pcM /\ swapM' = swapM /\ stopThreads' = stopThreads
      /\ dstBuf' = dstBuf /\ dstLen' = dstLen /\ srcDoneIO' = srcDoneIO /\ srcDoneCPU' = srcDoneCPU
  BY DEF WriterLeaves, reader, main, source, target
<1>2. \A b, i : GotIn(b, i)' = GotIn(b, i)
  BY <1>1, FilesStay DEF GotIn
<1>3. \A i : AfterReads(i)' = AfterReads(i)
  BY <1>1, FilesStay DEF AfterReads
<1>4. \A b, i : GotOut(b, i)' = GotOut(b, i)
  BY <1>1, FilesStay DEF GotOut
<1>5. HoldsSrc' = HoldsSrc /\ ReaderActs' = ReaderActs /\ HoldsDst' = HoldsDst
  BY <1>1 DEF HoldsSrc, ReaderActs, HoldsDst
<1>6. \A i, r, a : SourceBuffer(i, r, a)' = SourceBuffer(i, r, a)
  BY <1>1, <1>2, <1>5 DEF SourceBuffer
<1>7. \A r, a : SourceFlow(r, a)' = SourceFlow(r, a)
  BY <1>1, <1>2, <1>3, <1>5, <1>6 DEF SourceFlow
<1> QED
  BY <1>1, <1>4, <1>5, <1>7, FilesStay DEF InFlow, Freed

(* What writing a full buffer does.                                        *)
LEMMA WriterWrites ==
  ASSUME FilesOk, NEW w \in Nat, WriterLeaves, WriterWrite, GotOut(swapW, w),
         dstFile = Copy!UpTo(Out(w))
  PROVE  dstFile' = Copy!UpTo(Out(w))' /\ Copy!Write(w + 1)
<1>1. pcW = "write" /\ pcW' = "post" /\ Out(w) = w
      /\ dstFile' = dstFile \o Result[w + 1]
  BY DEF WriterWrite, GotOut, Out
<1>2. w < Count(data) /\ Count(data) \in Nat /\ Len(Result) = Count(data)
  BY ResultIs DEF GotOut
<1>3. Copy!UpTo(w + 1) = Copy!UpTo(w) \o Result[w + 1]
  BY <1>2, ResultIs
<1> QED
  BY <1>1, <1>2, <1>3, WriterKeeps DEF Out, Copy!Write

(* The writer, while blocks flow.                                          *)
LEMMA WriterFlow ==
  ASSUME Places, FilesOk, WriterLeaves, NEW s \in Nat, NEW w \in Nat, TargetFlow(s, w),
         dstFile = Copy!UpTo(Out(w)),
         WriterWait \/ WriterTest \/ WriterWrite \/ WriterPost \/ WriterDrain
  PROVE  /\ \E k \in Nat : TargetFlow(s, k)' /\ dstFile' = Copy!UpTo(Out(k))'
         /\ ~ WriterDrain
         /\ WriterWrite => Copy!Write(w + 1)
<1>1. /\ Turn(w) \in Buffer /\ Turn(w + 1) \in Buffer /\ Turn(w + 1) # Turn(w) /\ Turn(w + 2) = Turn(w)
      /\ Turn(w + 1) = Other(Turn(w)) /\ Turn(s) \in Buffer /\ Turn(s + 1) \in Buffer
      /\ Turn(s + 1) # Turn(s) /\ Turn(w + 1 + 1) = Turn(w)
  <2>1. w + 1 + 1 = w + 2
    OBVIOUS
  <2> QED
    BY <2>1, TurnIs
<1>2. s = w \/ s = w + 1 \/ s = w + 2
  BY DEF TargetFlow
<1>3. swapW = Turn(w) /\ ~ WriterDrain /\ (WriterActs => s > w /\ GotOut(Turn(w), w))
  BY DEF TargetFlow, WriterDrain, TargetFull
<1>4. CASE WriterWait
  <2>1. /\ pcW = "wait" /\ pcW' = "test" /\ swapW' = swapW /\ dstFile' = dstFile
        /\ dstDoneIO' = dstDoneIO /\ dstDoneCPU[Turn(w)]
        /\ dstDoneCPU' = [dstDoneCPU EXCEPT ![Turn(w)] = FALSE]
    BY <1>3, <1>4 DEF WriterWait, Acquire
  <2>2. ~ dstDoneCPU'[Turn(w)] /\ dstDoneCPU'[Turn(w + 1)] = dstDoneCPU[Turn(w + 1)]
    BY <1>1, <2>1 DEF Places
  <2>3. s > w
    BY <2>1 DEF TargetFlow, TargetFull
  <2>4. WriterActs' /\ ~ WriterActs
    BY <2>1 DEF WriterActs
  <2>5. TargetFree(s, s, w)' /\ TargetFree(s + 1, s, w)'
    BY <2>1, WriterKeeps DEF TargetFlow, TargetFree
  <2>6. TargetFull(w, s, w)'
    BY <2>2, <2>3, WriterKeeps DEF TargetFlow, TargetFull
  <2>7. TargetFull(w + 1, s, w)'
    <3> PICK n : n = w + 1
      OBVIOUS
    <3>1. TargetFull(n, s, w) /\ n # w /\ dstDoneCPU'[Turn(n)] = dstDoneCPU[Turn(n)]
      BY <2>2 DEF TargetFlow
    <3>2. GotOut(Turn(n), n)' = GotOut(Turn(n), n)
      BY WriterKeeps
    <3>3. TargetFull(n, s, w)'
      BY <3>1, <3>2 DEF TargetFull
    <3> QED
      BY <3>3
  <2>8. TargetFlow(s, w)'
    BY <2>1, <2>3, <2>5, <2>6, <2>7, WriterKeeps DEF TargetFlow
  <2>9. dstFile' = Copy!UpTo(Out(w))'
    BY <2>1, WriterKeeps DEF Out
  <2> QED
    BY <1>3, <1>4, <2>1, <2>8, <2>9 DEF WriterWrite
<1>5. CASE WriterTest \/ WriterWrite
  <2>1. pcW \in {"test", "write"} /\ WriterActs /\ s > w /\ GotOut(Turn(w), w) /\ dstLen[swapW] # 0
    BY <1>3, <1>5 DEF WriterTest, WriterWrite, WriterActs, GotOut
  <2>2. /\ pcW' \in {"write", "post"} /\ swapW' = swapW /\ dstDoneIO' = dstDoneIO
        /\ dstDoneCPU' = dstDoneCPU
    BY <1>5, <2>1 DEF WriterTest, WriterWrite
  <2>3. WriterActs'
    BY <2>2 DEF WriterActs
  <2>4. TargetFree(s, s, w)' /\ TargetFree(s + 1, s, w)'
    BY <2>2, WriterKeeps DEF TargetFlow, TargetFree
  <2>5. TargetFull(w, s, w)' /\ TargetFull(w + 1, s, w)'
    BY <2>1, <2>2, <2>3, WriterKeeps DEF TargetFlow, TargetFull
  <2>6. TargetFlow(s, w)'
    BY <2>1, <2>2, <2>4, <2>5, WriterKeeps DEF TargetFlow
  <2>7. dstFile' = Copy!UpTo(Out(w))' /\ (WriterWrite => Copy!Write(w + 1))
    <3>1. CASE WriterTest
      <4>1. pcW = "test" /\ pcW' = "write" /\ dstFile' = dstFile /\ ~ WriterWrite
        BY <2>1, <3>1 DEF WriterTest, WriterWrite
      <4> QED
        BY <4>1, WriterKeeps DEF Out
    <3>2. CASE WriterWrite
      BY <1>3, <2>1, <3>2, WriterWrites
    <3> QED
      BY <1>5, <3>1, <3>2
  <2> QED
    BY <1>3, <2>6, <2>7
<1>6. CASE WriterPost
  <2>1. /\ pcW = "post" /\ pcW' = "wait" /\ swapW' = Turn(w + 1) /\ dstFile' = dstFile
        /\ dstDoneCPU' = dstDoneCPU /\ dstDoneIO' = [dstDoneIO EXCEPT ![Turn(w)] = TRUE]
    BY <1>1, <1>3, <1>6 DEF WriterPost, Post
  <2>2. WriterActs /\ ~ WriterActs' /\ s > w
    BY <1>3, <2>1 DEF WriterActs
  <2>3. dstDoneIO'[Turn(w + 1)] = dstDoneIO[Turn(w + 1)] /\ dstDoneCPU \in [Buffer -> BOOLEAN]
    BY <1>1, <2>1 DEF Places
  <2>4. s = w + 1 \/ (s = w + 2 /\ ~ HoldsDst)
    BY <1>2, <2>2 DEF TargetFlow
  <2>5. TargetFree(s, s, w + 1)' /\ TargetFree(s + 1, s, w + 1)'
    <3>1. HoldsDst' = HoldsDst
      BY WriterKeeps
    <3>2. CASE s = w + 1
      <4>1. (dstDoneIO[Turn(s)])' => ~ HoldsDst
        BY <2>3, <3>2 DEF TargetFlow, TargetFree
      <4>2. s <= w + 1 + 1 /\ s + 1 <= w + 1 + 1 /\ s + 1 # s
        BY <3>2
      <4> QED
        BY <3>1, <4>1, <4>2 DEF TargetFree
    <3>3. CASE s = w + 2 /\ ~ HoldsDst
      <4>1. Turn(s) = Turn(w) /\ Turn(s + 1) = Turn(w + 1) /\ s <= w + 1 + 1 /\ s + 1 # s
        <5>1. w + 2 + 1 = (w + 1) + 2 /\ w + 1 \in Nat
          OBVIOUS
        <5>2. Turn((w + 1) + 2) = Turn(w + 1)
          BY <5>1, TurnIs
        <5> QED
          BY <1>1, <3>3, <5>1, <5>2
      <4>2. ~ (dstDoneIO[Turn(s + 1)])'
        <5>1. ~ dstDoneIO[Turn(s + 1)]
          BY <3>3 DEF TargetFlow, TargetFree
        <5> QED
          BY <2>3, <4>1, <5>1
      <4> QED
        BY <3>1, <3>3, <4>1, <4>2 DEF TargetFree
    <3> QED
      BY <2>4, <3>2, <3>3
  <2>6. TargetFull(w + 1, s, w + 1)'
    <3> PICK n : n = w + 1
      OBVIOUS
    <3>1. TargetFull(n, s, w) /\ GotOut(Turn(n), n)' = GotOut(Turn(n), n)
      BY WriterKeeps DEF TargetFlow
    <3>2. TargetFull(n, s, n)'
      BY <2>1, <2>2, <3>1 DEF TargetFull
    <3> QED
      BY <3>2
  <2>7. TargetFull(w + 1 + 1, s, w + 1)'
    <3>1. ~ dstDoneCPU[Turn(w)]
      BY <2>2 DEF TargetFlow, TargetFull
    <3>2. ~ (s > w + 1 + 1)
      BY <1>2
    <3> QED
      BY <1>1, <2>1, <3>1, <3>2 DEF TargetFull
  <2>8. TargetFlow(s, w + 1)'
    <3>1. s \in w + 1 .. w + 1 + 2 /\ (HoldsDst => s <= w + 1 + 1)
      BY <2>4
    <3> QED
      BY <2>1, <2>2, <2>5, <2>6, <2>7, <3>1, WriterKeeps DEF TargetFlow
  <2>9. dstFile' = Copy!UpTo(Out(w + 1))'
    BY <2>1, WriterKeeps DEF Out
  <2> QED
    BY <1>3, <1>6, <2>1, <2>8, <2>9 DEF WriterWrite
<1> QED
  BY <1>3, <1>4, <1>5, <1>6

(* The writer, once main has met an empty buffer.                          *)
LEMMA WriterEnds ==
  ASSUME Places, FilesOk, WriterLeaves, NEW w \in Nat, Ending(w), ~ InFlow,
         dstFile = Copy!UpTo(Out(w)),
         WriterWait \/ WriterTest \/ WriterWrite \/ WriterPost \/ WriterDrain
  PROVE  /\ \E k \in Nat : Ending(k)' /\ dstFile' = Copy!UpTo(Out(k))'
         /\ WriterWrite => Copy!Write(w + 1) /\ w < Count(data)
<1> DEFINE n == Count(data)
<1>1. n \in Nat /\ n' = n /\ (n = w \/ n = w + 1)
  BY ResultIs, WriterKeeps DEF Ending
<1>2. /\ Turn(w) \in Buffer /\ Turn(w + 1) \in Buffer /\ Turn(w + 1) # Turn(w)
      /\ Turn(w + 1) = Other(Turn(w)) /\ Turn(n) \in Buffer
  BY <1>1, TurnIs
<1>3. dstLen[Turn(n)]' = 0 /\ dstLen[Turn(n)] = 0
  BY <1>1, WriterKeeps DEF Ending
<1>4. CASE Drained
  <2>1. WriterDrain /\ pcW = "drain" /\ w = n
    BY <1>4 DEF Drained, WriterWait, WriterTest, WriterWrite, WriterPost, WriterDrain, Ending
  <2>2. Drained' /\ dstFile' = dstFile /\ Out(w)' = w /\ Out(w) = w /\ ~ WriterWrite
    BY <2>1 DEF Drained, WriterDrain, Out, WriterWrite
  <2>3. Ending(w)'
    BY <1>1, <1>3, <2>1, <2>2, WriterKeeps DEF Ending
  <2> QED
    BY <2>2, <2>3, WriterKeeps
<1>5. CASE ~ Drained
  <2>1. /\ swapW = Turn(w) /\ (pcW \in {"write", "post"} => w < n) /\ ~ dstDoneIO[Turn(n)]
        /\ ~ WriterDrain /\ (w < n => GotOut(Turn(w), w))
    BY <1>5 DEF Ending, Drained, WriterDrain
  <2>2. ~ (pcM \in {"join", "exit"}) /\ ~ (pcM = "await" /\ swapM = 1 /\ Turn(n) = 0)
    BY <1>5 DEF Ending
  <2>3. CASE WriterWait
    <3>1. /\ pcW = "wait" /\ pcW' = "test" /\ swapW' = swapW /\ dstFile' = dstFile
          /\ dstDoneIO' = dstDoneIO
      BY <2>3 DEF WriterWait
    <3>2. ~ Drained' /\ Out(w)' = Out(w) /\ ~ WriterWrite
      BY <3>1 DEF Drained, Out, WriterWrite
    <3>3. Ending(w)'
      BY <1>1, <1>3, <2>1, <2>2, <3>1, <3>2, WriterKeeps DEF Ending
    <3> QED
      BY <3>1, <3>2, <3>3, WriterKeeps
  <2>4. CASE WriterTest
    <3>1. /\ pcW = "test" /\ dstFile' = dstFile /\ dstDoneIO' = dstDoneIO /\ ~ WriterWrite
          /\ IF dstLen[swapW] = 0 THEN pcW' = "drain" /\ swapW' = 0
                                  ELSE pcW' = "write" /\ swapW' = swapW
      BY <2>4 DEF WriterTest, WriterWrite
    <3>2. CASE w < n
      <4>1. pcW' = "write" /\ swapW' = swapW
        BY <2>1, <3>1, <3>2 DEF GotOut
      <4>2. ~ Drained' /\ Out(w)' = Out(w)
        BY <3>1, <4>1 DEF Drained, Out
      <4>3. Ending(w)'
        BY <1>1, <1>3, <2>1, <2>2, <3>1, <3>2, <4>1, <4>2, WriterKeeps DEF Ending
      <4> QED
        BY <3>1, <4>2, <4>3, WriterKeeps
    <3>3. CASE w = n
      <4>1. pcW' = "drain" /\ Drained'
        BY <1>3, <2>1, <3>1, <3>3 DEF Drained
      <4>2. Out(w)' = Out(w)
        BY <3>1, <4>1 DEF Out
      <4>3. Ending(w)'
        BY <1>1, <1>3, <2>1, <2>2, <3>1, <3>3, <4>1, WriterKeeps DEF Ending
      <4> QED
        BY <3>1, <4>2, <4>3, WriterKeeps
    <3> QED
      BY <1>1, <3>2, <3>3
  <2>5. CASE WriterWrite
    <3>1. pcW = "write" /\ pcW' = "post" /\ swapW' = swapW /\ dstDoneIO' = dstDoneIO
      BY <2>5 DEF WriterWrite
    <3>2. dstFile' = Copy!UpTo(Out(w))' /\ Copy!Write(w + 1)
      BY <2>1, <2>5, <3>1, WriterWrites
    <3>3. ~ Drained'
      BY <3>1 DEF Drained
    <3>4. Ending(w)'
      BY <1>1, <1>3, <2>1, <2>2, <3>1, <3>3, WriterKeeps DEF Ending
    <3> QED
      BY <2>1, <3>1, <3>2, <3>4
  <2>6. CASE WriterPost
    <3>1. /\ pcW = "post" /\ pcW' = "wait" /\ swapW' = Turn(w + 1) /\ dstFile' = dstFile
          /\ dstDoneIO' = [dstDoneIO EXCEPT ![Turn(w)] = TRUE]
      BY <1>2, <2>1, <2>6 DEF WriterPost, Post
    <3>2. n = w + 1
      BY <1>1, <2>1, <3>1
    <3>3. ~ dstDoneIO'[Turn(n)]
      BY <1>2, <2>1, <3>1, <3>2 DEF Places
    <3>4. ~ Drained' /\ Out(w + 1)' = w + 1 /\ Out(w) = w + 1 /\ ~ WriterWrite
      BY <3>1 DEF Drained, Out, WriterWrite
    <3>5. Ending(w + 1)'
      BY <1>1, <1>3, <2>1, <2>2, <3>1, <3>2, <3>3, <3>4, WriterKeeps DEF Ending
    <3> QED
      BY <3>1, <3>4, <3>5, WriterKeeps
  <2> QED
    BY <2>1, <2>3, <2>4, <2>5, <2>6
<1> QED
  BY <1>4, <1>5

--------------------------------------------------------------------------------
(* All steps.                                                              *)

(* The other buffer is another.                                            *)
OtherType == \A b \in Buffer : Other(b) \in Buffer /\ Other(b) # b

LEMMA OtherIs == OtherType
BY DEF OtherType, Buffer, Other

(* Every step keeps the threads in their places.                           *)
LEMMA PlacesNext == Places /\ [Next]_vars => Places'
<1> SUFFICES ASSUME Places, [Next]_vars PROVE Places'
  OBVIOUS
<1> USE DEF Places
<1> USE OtherIs DEF OtherType
<1> USE DEF files, reader, main, writer, source, target
<1>1. CASE Reader
  <2>1. CASE ReaderWait
    BY <1>1, <2>1 DEF Reader, ReaderWait, Acquire
  <2>2. CASE ReaderCheck
    BY <1>1, <2>2 DEF Reader, ReaderCheck
  <2>3. CASE ReaderRead
    BY <1>1, <2>3 DEF Reader, ReaderRead
  <2>4. CASE ReaderPost
    BY <1>1, <2>4 DEF Reader, ReaderPost, Post
  <2> QED
    BY <1>1, <2>1, <2>2, <2>3, <2>4 DEF Reader
<1>2. CASE Main
  <2>1. CASE MainWaitSrc \/ MainWaitDst
    BY <1>2, <2>1 DEF Main, MainWaitSrc, MainWaitDst, Acquire
  <2>2. CASE MainTest
    BY <1>2, <2>2 DEF Main, MainTest
  <2>3. CASE MainProcess
    BY <1>2, <2>3 DEF Main, MainProcess
  <2>4. CASE MainPostSrc \/ MainPostDst
    BY <1>2, <2>4 DEF Main, MainPostSrc, MainPostDst, Post
  <2>5. CASE MainReport \/ MainStop \/ MainJoin
    BY <1>2, <2>5 DEF Main, MainReport, MainStop, MainJoin, Buffer
  <2>6. CASE MainReleaseSrc \/ MainReleaseDst
    BY <1>2, <2>6 DEF Main, MainReleaseSrc, MainReleaseDst, Post
  <2>7. CASE MainAwait
    BY <1>2, <2>7 DEF Main, MainAwait, Acquire
  <2> QED
    BY <1>2, <2>1, <2>2, <2>3, <2>4, <2>5, <2>6, <2>7 DEF Main
<1>3. CASE Writer
  <2>1. CASE WriterWait
    BY <1>3, <2>1 DEF Writer, WriterWait, Acquire
  <2>2. CASE WriterTest
    BY <1>3, <2>2 DEF Writer, WriterTest, Buffer
  <2>3. CASE WriterWrite
    BY <1>3, <2>3 DEF Writer, WriterWrite
  <2>4. CASE WriterPost \/ WriterDrain
    BY <1>3, <2>4 DEF Writer, WriterPost, WriterDrain, Post
  <2> QED
    BY <1>3, <2>1, <2>2, <2>3, <2>4 DEF Writer
<1>4. CASE UNCHANGED vars
  BY <1>4 DEF vars
<1> QED
  BY <1>1, <1>2, <1>3, <1>4 DEF Next, Over

(* What a step promises.                                                   *)
Moves == FilesOk' /\ \E r, s, w \in Nat : Flow(r, s, w)'

LEMMA ReaderMoves ==
  ASSUME Places, FilesOk, NEW r \in Nat, NEW s \in Nat, NEW w \in Nat, Flow(r, s, w), Reader
  PROVE  Moves
<1>1. /\ UNCHANGED files /\ UNCHANGED target /\ UNCHANGED writer /\ UNCHANGED <<dstDoneIO, dstDoneCPU>>
      /\ pcM' = pcM /\ swapM' = swapM /\ stopThreads' = stopThreads
      /\ ReaderWait \/ ReaderCheck \/ ReaderRead \/ ReaderPost
  BY DEF Reader, main
<1>2. /\ TargetFlow(s, w)' = TargetFlow(s, w) /\ Ending(w)' = Ending(w) /\ InFlow' = InFlow
      /\ dstFile' = dstFile /\ pcW' = pcW /\ Freed(s)' = Freed(s) /\ HoldsSrc' = HoldsSrc
  BY <1>1, TargetStays
<1>3. FilesOk' /\ \A i : Copy!UpTo(i)' = Copy!UpTo(i)
  BY <1>1, FilesStay
<1>4. dstFile' = Copy!UpTo(Out(w))'
  BY <1>2, <1>3 DEF Flow, Out
<1>5. CASE InFlow
  <2>1. PICK a : a = Freed(s)
    OBVIOUS
  <2>2. a \in Nat /\ SourceFlow(r, a) /\ TargetFlow(s, w)
    BY <1>5, <2>1 DEF Flow, Freed
  <2>3. PICK k \in Nat : SourceFlow(k, a)'
    BY <1>1, <1>2, <2>2, ReaderFlow
  <2>4. Flow(k, s, w)'
    BY <1>2, <1>4, <1>5, <2>1, <2>2, <2>3 DEF Flow
  <2> QED
    BY <1>3, <2>4 DEF Moves
<1>6. CASE ~ InFlow
  <2>1. Flow(r, s, w)'
    BY <1>2, <1>4, <1>6 DEF Flow
  <2> QED
    BY <1>3, <2>1 DEF Moves
<1> QED
  BY <1>5, <1>6

LEMMA MainMoves ==
  ASSUME Places, FilesOk, NEW r \in Nat, NEW s \in Nat, NEW w \in Nat, Flow(r, s, w), Main
  PROVE  Moves
<1>1. MainLeaves
  BY DEF Main, MainLeaves
<1>2. /\ FilesOk' /\ dstFile' = Copy!UpTo(Out(w))' /\ pcW' = pcW
  BY <1>1, MainKeeps DEF Flow, Out
<1>3. CASE InFlow
  <2>1. SourceFlow(r, Freed(s)) /\ TargetFlow(s, w) /\ swapM = Turn(s)
    BY <1>3 DEF Flow, TargetFlow
  <2>2. CASE MainWaitSrc \/ MainWaitDst \/ MainPostSrc
    <3>1. TargetFlow(s, w)' /\ InFlow'
      BY <1>1, <2>1, <2>2, MainTarget
    <3>2. SourceFlow(r, Freed(s))'
      BY <1>1, <2>1, <2>2, <3>1, MainSource
    <3>3. Flow(r, s, w)'
      BY <1>2, <3>1, <3>2 DEF Flow
    <3> QED
      BY <1>2, <3>3 DEF Moves
  <2>3. CASE MainTest
    <3>1. (InFlow' => SourceFlow(r, Freed(s))') /\ GotIn(swapM, s)
      BY <1>1, <2>1, <2>3, MainSource
    <3>2. IF InFlow' THEN TargetFlow(s, w)' ELSE Ending(w)'
      BY <1>1, <2>1, <2>3, <3>1, MainTests
    <3>3. Flow(r, s, w)'
      BY <1>2, <3>1, <3>2 DEF Flow
    <3> QED
      BY <1>2, <3>3 DEF Moves
  <2>4. CASE MainProcess
    <3>1. (InFlow' => SourceFlow(r, Freed(s))') /\ GotIn(swapM, s)
      BY <1>1, <2>1, <2>4, MainSource
    <3>2. TargetFlow(s, w)' /\ InFlow'
      BY <1>1, <2>1, <2>4, <3>1, MainMakes
    <3>3. Flow(r, s, w)'
      BY <1>2, <3>1, <3>2 DEF Flow
    <3> QED
      BY <1>2, <3>3 DEF Moves
  <2>5. CASE MainPostDst
    <3>1. TargetFlow(s + 1, w)' /\ InFlow' /\ Freed(s + 1)' = Freed(s)
      BY <1>1, <2>1, <2>5, MainSends
    <3>2. PICK a : a = Freed(s)
      OBVIOUS
    <3>3. SourceFlow(r, a)'
      <4>1. /\ pcM = "postDst" /\ pcM' = "waitSrc" /\ stopThreads' = stopThreads
            /\ srcDoneIO' = srcDoneIO /\ srcDoneCPU' = srcDoneCPU
        BY <2>5 DEF MainPostDst
      <4>2. ~ HoldsSrc /\ ~ HoldsSrc'
        BY <4>1 DEF HoldsSrc
      <4>3. \A i : SourceBuffer(i, r, a)' = SourceBuffer(i, r, a)
        BY <1>1, <4>1, <4>2, MainKeeps DEF SourceBuffer
      <4>4. SourceFlow(r, a)
        BY <2>1, <3>2
      <4> QED
        BY <1>1, <4>1, <4>2, <4>3, <4>4, MainKeeps DEF SourceFlow
    <3>4. Flow(r, s + 1, w)'
      BY <1>2, <3>1, <3>2, <3>3 DEF Flow
    <3> QED
      BY <1>2, <3>4 DEF Moves
  <2> QED
    BY <1>3, <2>2, <2>3, <2>4, <2>5 DEF Main, InFlow, MainReport, MainStop, MainReleaseSrc,
       MainReleaseDst, MainAwait, MainJoin
<1>4. CASE ~ InFlow
  <2>1. MainReport \/ MainStop \/ MainReleaseSrc \/ MainReleaseDst \/ MainAwait \/ MainJoin
    BY <1>4 DEF Main, InFlow, MainWaitSrc, MainWaitDst, MainTest, MainProcess, MainPostSrc, MainPostDst
  <2>2. Ending(w)' /\ ~ InFlow'
    BY <1>1, <1>4, <2>1, MainEnds DEF Flow
  <2>3. Flow(r, s, w)'
    BY <1>2, <2>2 DEF Flow
  <2> QED
    BY <1>2, <2>3 DEF Moves
<1> QED
  BY <1>3, <1>4

LEMMA WriterMoves ==
  ASSUME Places, FilesOk, NEW r \in Nat, NEW s \in Nat, NEW w \in Nat, Flow(r, s, w), Writer
  PROVE  /\ Moves
         /\ WriterWrite => Copy!Write(w + 1) /\ w < Count(data)
<1>1. /\ WriterLeaves
      /\ WriterWait \/ WriterTest \/ WriterWrite \/ WriterPost \/ WriterDrain
      /\ dstFile = Copy!UpTo(Out(w))
  BY DEF Writer, WriterLeaves, Flow
<1>2. /\ InFlow' = InFlow /\ Freed(s)' = Freed(s) /\ FilesOk'
      /\ \A a : SourceFlow(r, a)' = SourceFlow(r, a)
  BY <1>1, WriterKeeps
<1>3. CASE InFlow
  <2>1. SourceFlow(r, Freed(s)) /\ TargetFlow(s, w)
    BY <1>3 DEF Flow
  <2>2. PICK k \in Nat : TargetFlow(s, k)' /\ dstFile' = Copy!UpTo(Out(k))'
    BY <1>1, <2>1, WriterFlow
  <2>3. SourceFlow(r, Freed(s))'
    <3>1. PICK a : a = Freed(s)
      OBVIOUS
    <3>2. SourceFlow(r, a)'
      BY <1>2, <2>1, <3>1
    <3> QED
      BY <1>2, <3>1, <3>2
  <2>4. Flow(r, s, k)'
    BY <1>2, <1>3, <2>2, <2>3 DEF Flow
  <2>5. WriterWrite => Copy!Write(w + 1)
    BY <1>1, <2>1, WriterFlow
  <2>6. WriterWrite => w < Count(data)
    BY <2>1, ResultIs DEF WriterWrite, TargetFlow, WriterActs
  <2> QED
    BY <1>2, <2>4, <2>5, <2>6 DEF Moves
<1>4. CASE ~ InFlow
  <2>1. Ending(w)
    BY <1>4 DEF Flow
  <2>2. PICK k \in Nat : Ending(k)' /\ dstFile' = Copy!UpTo(Out(k))'
    BY <1>1, <1>4, <2>1, WriterEnds
  <2>3. Flow(r, s, k)'
    BY <1>2, <1>4, <2>2 DEF Flow
  <2>4. WriterWrite => Copy!Write(w + 1) /\ w < Count(data)
    BY <1>1, <1>4, <2>1, WriterEnds
  <2> QED
    BY <1>2, <2>3, <2>4 DEF Moves
<1> QED
  BY <1>3, <1>4

(* The invariant is inductive.                                             *)
LEMMA FlowNext == FlowInv /\ [Next]_vars => FlowInv'
<1> SUFFICES ASSUME FlowInv, [Next]_vars PROVE FlowInv'
  OBVIOUS
<1>1. Places /\ FilesOk /\ Places'
  BY PlacesNext DEF FlowInv
<1>2. PICK r \in Nat, s \in Nat, w \in Nat : Flow(r, s, w)
  BY DEF FlowInv
<1>3. CASE Reader
  BY <1>1, <1>2, <1>3, ReaderMoves DEF FlowInv, Moves
<1>4. CASE Main
  BY <1>1, <1>2, <1>4, MainMoves DEF FlowInv, Moves
<1>5. CASE Writer
  BY <1>1, <1>2, <1>5, WriterMoves DEF FlowInv, Moves
<1>6. CASE UNCHANGED vars
  <2>1. /\ WriterLeaves /\ UNCHANGED files /\ UNCHANGED target /\ UNCHANGED writer
        /\ UNCHANGED <<dstDoneIO, dstDoneCPU>> /\ pcM' = pcM /\ swapM' = swapM
    BY <1>6 DEF vars, WriterLeaves, main
  <2>2. /\ TargetFlow(s, w)' = TargetFlow(s, w) /\ Ending(w)' = Ending(w) /\ InFlow' = InFlow
        /\ dstFile' = dstFile /\ pcW' = pcW
    BY <2>1, TargetStays
  <2>3. PICK a : a = Freed(s)
    OBVIOUS
  <2>4. FilesOk' /\ Freed(s)' = a /\ SourceFlow(r, a)' = SourceFlow(r, a)
    BY <1>1, <2>1, <2>3, WriterKeeps
  <2>5. dstFile' = Copy!UpTo(Out(w))'
    BY <1>2, <2>1, <2>2, WriterKeeps DEF Flow, Out
  <2>6. Flow(r, s, w)'
    BY <1>2, <2>2, <2>3, <2>4, <2>5 DEF Flow
  <2> QED
    BY <1>1, <2>4, <2>6 DEF FlowInv
<1> QED
  BY <1>3, <1>4, <1>5, <1>6 DEF Next, Over

(***************************************************************************)
(* The three threads of fsst.cpp keep count of the same blocks: what is in *)
(* a buffer when it is handed on is the block whose turn it is.            *)
(***************************************************************************)
THEOREM FlowInvariance == Spec => []FlowInv
<1>1. Init => FlowInv
  BY FlowInit
<1>2. FlowInv /\ [Next]_vars => FlowInv'
  BY FlowNext
<1> QED
  BY <1>1, <1>2, PTL DEF Spec

(***************************************************************************)
(* No two threads are ever about to access the same buffer, whichever way  *)
(* the file goes, and not when main stops the others with posts that       *)
(* nobody asked for (fsst.cpp:190).                                        *)
(***************************************************************************)
THEOREM NoBufferRaceAlways == Spec => []NoBufferRace
<1>1. FlowInv => NoBufferRace
  <2> SUFFICES ASSUME FlowInv, NEW b \in Buffer
               PROVE  /\ ~ (pcR = "read" /\ swapR = b /\ MainHasSrc(b))
                      /\ ~ (MainHasDst(b) /\ WriterHas(b))
    BY DEF NoBufferRace
  <2>1. PICK r \in Nat, s \in Nat, w \in Nat : Flow(r, s, w)
    BY DEF FlowInv
  <2>2. Turn(s + 1) # Turn(s) /\ Turn(w + 1) # Turn(w)
    BY TurnIs
  <2>3. ~ (pcR = "read" /\ swapR = b /\ MainHasSrc(b))
    <3> SUFFICES ASSUME pcR = "read", swapR = b, MainHasSrc(b) PROVE FALSE
      OBVIOUS
    <3>1. HoldsSrc /\ ReaderActs /\ InFlow /\ Freed(s) = s /\ swapM = b
      BY DEF MainHasSrc, HoldsSrc, ReaderActs, InFlow, Freed
    <3>2. SourceFlow(r, s) /\ swapM = Turn(s)
      BY <2>1, <3>1 DEF Flow, TargetFlow
    <3>3. r = s + 1 /\ swapR = Turn(r)
      BY <3>1, <3>2 DEF SourceFlow
    <3> QED
      BY <2>2, <3>1, <3>2, <3>3
  <2>4. ~ (MainHasDst(b) /\ WriterHas(b))
    <3> SUFFICES ASSUME MainHasDst(b), WriterHas(b) PROVE FALSE
      OBVIOUS
    <3>1. HoldsDst /\ WriterActs /\ InFlow /\ swapM = b /\ swapW = b
      BY DEF MainHasDst, WriterHas, HoldsDst, WriterActs, InFlow
    <3>2. TargetFlow(s, w)
      BY <2>1, <3>1 DEF Flow
    <3>3. s = w + 1 /\ swapM = Turn(s) /\ swapW = Turn(w)
      BY <3>1, <3>2 DEF TargetFlow
    <3> QED
      BY <2>2, <3>1, <3>3
  <2> QED
    BY <2>3, <2>4
<1> QED
  BY <1>1, FlowInvariance, PTL

(* The tool starts as a copy does.                                         *)
LEMMA CopyInit == Init => Copy!Init
BY DEF Init, Copy!Init

(* A step is a step of the copy, or one it does not see.                   *)
LEMMA CopyStep == FlowInv /\ [Next]_vars => [Copy!Next]_Copy!vars
<1> SUFFICES ASSUME FlowInv, [Next]_vars PROVE [Copy!Next]_Copy!vars
  OBVIOUS
<1>1. Places /\ FilesOk
  BY DEF FlowInv
<1>2. PICK r \in Nat, s \in Nat, w \in Nat : Flow(r, s, w)
  BY DEF FlowInv
<1>3. Result' = Result
  BY FilesStay DEF Next, Over, Reader, Main, Writer, vars
<1> DEFINE finished == pcM \in {"join", "exit"}
<1>4. CASE Reader \/ UNCHANGED vars
  <2>1. dstFile' = dstFile /\ pcM' = pcM
    BY <1>4 DEF Reader, vars, main, writer
  <2> QED
    BY <1>3, <2>1 DEF Copy!vars
<1>5. CASE Main
  <2>1. MainLeaves /\ dstFile' = dstFile
    BY <1>5, MainKeeps DEF Main, MainLeaves
  <2>2. CASE ~ (MainAwait /\ pcM' = "join")
    <3>1. (pcM \in {"join", "exit"})' = (pcM \in {"join", "exit"})
      BY <1>5, <2>2 DEF Main, MainWaitSrc, MainWaitDst, MainTest, MainProcess, MainPostSrc, MainPostDst,
         MainReport, MainStop, MainReleaseSrc, MainReleaseDst, MainAwait, MainJoin
    <3> QED
      BY <1>3, <2>1, <3>1 DEF Copy!vars
  <2>3. CASE MainAwait /\ pcM' = "join"
    <3>1. pcM = "await" /\ ~ InFlow /\ Ending(w)
      BY <1>2, <2>3 DEF MainAwait, InFlow, Flow
    <3>2. Ending(w)' /\ Drained' = Drained
      BY <1>1, <2>1, <2>3, <3>1, MainEnds, MainKeeps
    <3>3. Drained /\ w = Count(data)
      BY <2>3, <3>1, <3>2 DEF Ending
    <3>4. dstFile = Copy!UpTo(Len(Result))
      BY <1>1, <1>2, <3>3, ResultIs DEF Flow, Out, Drained
    <3> QED
      BY <1>3, <2>1, <2>3, <3>4 DEF Copy!Next, Copy!Finish
  <2> QED
    BY <2>2, <2>3
<1>6. CASE Writer
  <2>1. pcM' = pcM
    BY <1>6 DEF Writer, main
  <2>2. CASE WriterWrite
    <3>1. Copy!Write(w + 1) /\ w < Count(data)
      BY <1>1, <1>2, <1>6, <2>2, WriterMoves
    <3>2. w + 1 \in DOMAIN Result
      BY <1>1, <3>1, ResultIs
    <3> QED
      BY <3>1, <3>2 DEF Copy!Next
  <2>3. CASE ~ WriterWrite
    <3>1. dstFile' = dstFile
      BY <1>6, <2>3 DEF Writer, WriterWait, WriterTest, WriterPost, WriterDrain
    <3> QED
      BY <1>3, <2>1, <3>1 DEF Copy!vars
  <2> QED
    BY <2>2, <2>3
<1> QED
  BY <1>4, <1>5, <1>6 DEF Next, Over

(***************************************************************************)
(* The tool copies: its blocks reach the output file whole and in order,   *)
(* and main is past "force wait until all background writes finished"      *)
(* (fsst.cpp:188) only when all of them have.                              *)
(***************************************************************************)
THEOREM ImplementsCopyAlways == Spec => ImplementsCopy
<1>1. Init => Copy!Init
  BY CopyInit
<1>2. FlowInv /\ [Next]_vars => [Copy!Next]_Copy!vars
  BY CopyStep
<1> QED
  BY <1>1, <1>2, FlowInvariance, PTL DEF Spec, ImplementsCopy, Copy!Spec

--------------------------------------------------------------------------------
(* The input buffers.                                                      *)

(***************************************************************************)
(* As long as main is in its loop, or has not yet begun to release the     *)
(* other threads, each input buffer is with the reader, with main or with  *)
(* one of its semaphores.                                                  *)
(***************************************************************************)
THEOREM SourceInvariance == Spec => []SourceInv
<1> USE DEF SourceInv, Places, InLoop, SourceOwned, ReaderHas, MainHasSrc
<1>1. Init => SourceInv
  BY DEF Init, Buffer
<1>2. SourceInv /\ [Next]_vars => SourceInv'
  <2> SUFFICES ASSUME SourceInv, [Next]_vars PROVE SourceInv'
    OBVIOUS
  <2> USE OtherIs DEF OtherType
  <2> USE DEF files, reader, main, writer, source, target
  <2>1. ASSUME Reader, ReaderWait PROVE SourceInv'
    BY <2>1 DEF Reader, ReaderWait, Acquire
  <2>2. ASSUME Reader, ReaderCheck PROVE SourceInv'
    BY <2>2 DEF Reader, ReaderCheck
  <2>3. ASSUME Reader, ReaderRead PROVE SourceInv'
    BY <2>3 DEF Reader, ReaderRead
  <2>4. ASSUME Reader, ReaderPost PROVE SourceInv'
    BY <2>4 DEF Reader, ReaderPost, Post
  <2>5. ASSUME Main, MainWaitSrc PROVE SourceInv'
    BY <2>5 DEF Main, MainWaitSrc, Acquire
  <2>6. ASSUME Main, MainWaitDst PROVE SourceInv'
    BY <2>6 DEF Main, MainWaitDst, Acquire
  <2>7. ASSUME Main, MainTest PROVE SourceInv'
    BY <2>7 DEF Main, MainTest
  <2>8. ASSUME Main, MainProcess PROVE SourceInv'
    BY <2>8 DEF Main, MainProcess
  <2>9. ASSUME Main, MainPostSrc PROVE SourceInv'
    BY <2>9 DEF Main, MainPostSrc, Post
  <2>10. ASSUME Main, MainPostDst PROVE SourceInv'
    BY <2>10 DEF Main, MainPostDst, Post
  <2>11. ASSUME Main, MainReport PROVE SourceInv'
    BY <2>11 DEF Main, MainReport
  <2>12. ASSUME Main, MainStop PROVE SourceInv'
    BY <2>12 DEF Main, MainStop, Buffer
  <2>13. ASSUME Main, MainReleaseSrc PROVE SourceInv'
    BY <2>13 DEF Main, MainReleaseSrc, Post
  <2>14. ASSUME Main, MainReleaseDst PROVE SourceInv'
    BY <2>14 DEF Main, MainReleaseDst, Post
  <2>15. ASSUME Main, MainAwait PROVE SourceInv'
    BY <2>15 DEF Main, MainAwait, Acquire
  <2>16. ASSUME Main, MainJoin PROVE SourceInv'
    BY <2>16 DEF Main, MainJoin
  <2>17. ASSUME Writer, WriterWait PROVE SourceInv'
    BY <2>17 DEF Writer, WriterWait, Acquire
  <2>18. ASSUME Writer, WriterTest PROVE SourceInv'
    BY <2>18 DEF Writer, WriterTest, Buffer
  <2>19. ASSUME Writer, WriterWrite PROVE SourceInv'
    BY <2>19 DEF Writer, WriterWrite
  <2>20. ASSUME Writer, WriterPost PROVE SourceInv'
    BY <2>20 DEF Writer, WriterPost, Post
  <2>21. ASSUME Writer, WriterDrain PROVE SourceInv'
    BY <2>21 DEF Writer, WriterDrain, Buffer, Post
  <2>22. ASSUME UNCHANGED vars PROVE SourceInv'
    BY <2>22 DEF vars
  <2> QED
    BY <2>1, <2>2, <2>3, <2>4, <2>5, <2>6, <2>7, <2>8, <2>9, <2>10, <2>11,
       <2>12, <2>13, <2>14, <2>15, <2>16, <2>17, <2>18, <2>19, <2>20, <2>21,
       <2>22
    DEF Next, Reader, Main, Writer, Over
<1> QED
  BY <1>1, <1>2, PTL DEF Spec

--------------------------------------------------------------------------------
(* The output buffers.                                                     *)

(* What main sends off is not empty.                                       *)
SentFull == pcM = "postSrc" => dstLen[swapM] > 0

(* By the time it is sent off, a block was made.                           *)
LEMMA FlowSends == FlowInv => Places /\ SentFull
<1> SUFFICES ASSUME FlowInv PROVE Places /\ SentFull
  OBVIOUS
<1>1. PICK r \in Nat, s \in Nat, w \in Nat : Flow(r, s, w)
  BY DEF FlowInv
<1>2. ASSUME pcM = "postSrc" PROVE GotOut(swapM, s)
  BY <1>1, <1>2 DEF Flow, InFlow, TargetFlow
<1> QED
  BY <1>2 DEF FlowInv, SentFull, GotOut

(***************************************************************************)
(* And so is each output buffer, with main, with the writer or with one of *)
(* its semaphores; the writer does not stop before main has.               *)
(***************************************************************************)
THEOREM TargetInvariance == Spec => []TargetInv
<1> USE DEF Places, TargetInv, InLoop, TargetOwned, MainHasDst, WriterHas
<1>1. Init => TargetInv
  BY DEF Init, Buffer, OutputComes
<1>2. Places /\ SentFull' /\ TargetInv /\ [Next]_vars => TargetInv'
  <2> SUFFICES ASSUME Places, SentFull', TargetInv, [Next]_vars PROVE TargetInv'
    OBVIOUS
  <2> USE OtherIs DEF OtherType
  <2> USE DEF files, reader, main, writer, source, target
  <2>0. pcM' = "postSrc" => dstLen'[swapM'] > 0
    BY DEF SentFull
  <2>1. ASSUME Reader, ReaderWait PROVE TargetInv'
    BY <2>1 DEF Reader, ReaderWait, Acquire, OutputComes
  <2>2. ASSUME Reader, ReaderCheck PROVE TargetInv'
    BY <2>2 DEF Reader, ReaderCheck, OutputComes
  <2>3. ASSUME Reader, ReaderRead PROVE TargetInv'
    BY <2>3 DEF Reader, ReaderRead, OutputComes
  <2>4. ASSUME Reader, ReaderPost PROVE TargetInv'
    BY <2>4 DEF Reader, ReaderPost, Post, OutputComes
  <2>5. ASSUME Main, MainWaitSrc PROVE TargetInv'
    BY <2>5 DEF Main, MainWaitSrc, Acquire, OutputComes
  <2>6. ASSUME Main, MainWaitDst PROVE TargetInv'
    BY <2>6 DEF Main, MainWaitDst, Acquire, OutputComes
  <2>7. ASSUME Main, MainTest PROVE TargetInv'
    <3>1. CASE srcLen[swapM] = 0
      <4>1. /\ pcM = "test" /\ pcM' = "report" /\ dstLen' = [dstLen EXCEPT ![swapM] = 0]
            /\ UNCHANGED <<files, reader, writer, source, swapM, dstDoneIO, dstDoneCPU>>
        BY <2>7, <3>1 DEF Main, MainTest
      <4>2. OutputComes'
        BY <4>1 DEF OutputComes
      <4> QED
        BY <4>1, <4>2
    <3>2. CASE srcLen[swapM] # 0
      BY <2>7, <3>2 DEF Main, MainTest, OutputComes
    <3> QED
      BY <3>1, <3>2
  <2>8. ASSUME Main, MainProcess PROVE TargetInv'
    <3>1. /\ pcM = "process" /\ pcM' = "postSrc" /\ swapM' = swapM
          /\ UNCHANGED <<files, reader, writer, source, dstDoneIO, dstDoneCPU>>
          /\ \A b \in Buffer : b # swapM => dstLen'[b] = dstLen[b]
      BY <2>8 DEF Main, MainProcess
    <3>2. dstLen'[swapM] > 0
      BY <2>0, <3>1
    <3>3. OutputComes'
      BY <3>1, <3>2 DEF OutputComes
    <3> QED
      BY <3>1, <3>3
  <2>9. ASSUME Main, MainPostSrc PROVE TargetInv'
    BY <2>9 DEF Main, MainPostSrc, Post, OutputComes
  <2>10. ASSUME Main, MainPostDst PROVE TargetInv'
    BY <2>10 DEF Main, MainPostDst, Post, OutputComes
  <2>11. ASSUME Main, MainReport PROVE TargetInv'
    BY <2>11 DEF Main, MainReport, OutputComes
  <2>12. ASSUME Main, MainStop PROVE TargetInv'
    BY <2>12 DEF Main, MainStop, Buffer, OutputComes
  <2>13. ASSUME Main, MainReleaseSrc PROVE TargetInv'
    BY <2>13 DEF Main, MainReleaseSrc, Post, OutputComes
  <2>14. ASSUME Main, MainReleaseDst PROVE TargetInv'
    BY <2>14 DEF Main, MainReleaseDst, Post, OutputComes
  <2>15. ASSUME Main, MainAwait PROVE TargetInv'
    BY <2>15 DEF Main, MainAwait, Acquire, OutputComes
  <2>16. ASSUME Main, MainJoin PROVE TargetInv'
    BY <2>16 DEF Main, MainJoin, OutputComes
  <2>17. ASSUME Writer, WriterWait PROVE TargetInv'
    BY <2>17 DEF Writer, WriterWait, Acquire, OutputComes
  <2>18. ASSUME Writer, WriterTest PROVE TargetInv'
    BY <2>18 DEF Writer, WriterTest, Buffer, OutputComes
  <2>19. ASSUME Writer, WriterWrite PROVE TargetInv'
    BY <2>19 DEF Writer, WriterWrite, OutputComes
  <2>20. ASSUME Writer, WriterPost PROVE TargetInv'
    BY <2>20 DEF Writer, WriterPost, Post, OutputComes
  <2>21. ASSUME Writer, WriterDrain PROVE TargetInv'
    BY <2>21 DEF Writer, WriterDrain, Buffer, Post, OutputComes
  <2>22. ASSUME UNCHANGED vars PROVE TargetInv'
    BY <2>22 DEF vars, OutputComes
  <2> QED
    BY <2>1, <2>2, <2>3, <2>4, <2>5, <2>6, <2>7, <2>8, <2>9, <2>10, <2>11,
       <2>12, <2>13, <2>14, <2>15, <2>16, <2>17, <2>18, <2>19, <2>20, <2>21,
       <2>22
    DEF Next, Reader, Main, Writer, Over
<1>3. FlowInv => Places /\ SentFull
  BY FlowSends
<1> QED
  BY <1>1, <1>2, <1>3, FlowInvariance, PTL DEF Spec

--------------------------------------------------------------------------------
(* class BinarySemaphore.                                                  *)

(* A sleeper is where it will wake up.                                     *)
SleepersSleep == \A t \in asleep : pc[t] = "sleep"

(* What each kind of thread may be doing.                                  *)
ThreadPlaces ==
  /\ \A t \in Waiters : pc[t] \in {"idle", "lock", "test", "sleep", "unlock"}
  /\ \A t \in Posters : pc[t] \in {"idle", "lock", "set", "unlock", "notify"}

SemaphoreInv == TypeOK /\ SleepersSleep /\ ThreadPlaces /\ NoLostWakeup

(* The invariant is inductive.                                             *)
THEOREM SemaphoreInvariance == SemaphoreSpec => []SemaphoreInv
<1> USE SemaphoreAssumption
<1> USE DEF SemaphoreInv, TypeOK, SleepersSleep, ThreadPlaces, NoLostWakeup, Waiting, Threads
<1>1. SemaphoreInit => SemaphoreInv
  BY DEF SemaphoreInit
<1>2. SemaphoreInv /\ [SemaphoreNext]_semaphore => SemaphoreInv'
  <2> SUFFICES ASSUME SemaphoreInv, [SemaphoreNext]_semaphore PROVE SemaphoreInv'
    OBVIOUS
  <2>1. ASSUME NEW t \in Waiters, CallWait(t) PROVE SemaphoreInv'
    BY <2>1 DEF CallWait, Go
  <2>2. ASSUME NEW t \in Waiters, WaitLock(t) PROVE SemaphoreInv'
    BY <2>2 DEF WaitLock, Lock, Free, Go
  <2>3. ASSUME NEW t \in Waiters, WaitTake(t) PROVE SemaphoreInv'
    BY <2>3 DEF WaitTake, Passes, Go
  <2>4. ASSUME NEW t \in Waiters, WaitSleep(t) PROVE SemaphoreInv'
    BY <2>4 DEF WaitSleep, Unlock, Passes, Go
  <2>5. ASSUME NEW t \in Waiters, WaitRelock(t) PROVE SemaphoreInv'
    BY <2>5 DEF WaitRelock, Lock, Free, Go
  <2>6. ASSUME NEW t \in Waiters, WaitUnlock(t) PROVE SemaphoreInv'
    BY <2>6 DEF WaitUnlock, Unlock, Go
  <2>7. ASSUME NEW t \in Waiters, WaitSpurious(t) PROVE SemaphoreInv'
    BY <2>7 DEF WaitSpurious
  <2>8. ASSUME NEW t \in Posters, CallPost(t) PROVE SemaphoreInv'
    BY <2>8 DEF CallPost, Go
  <2>9. ASSUME NEW t \in Posters, PostLock(t) PROVE SemaphoreInv'
    BY <2>9 DEF PostLock, Lock, Free, Go
  <2>10. ASSUME NEW t \in Posters, PostSet(t) PROVE SemaphoreInv'
    BY <2>10 DEF PostSet, Go
  <2>11. ASSUME NEW t \in Posters, PostUnlock(t) PROVE SemaphoreInv'
    BY <2>11 DEF PostUnlock, Unlock, Go
  <2>12. ASSUME NEW t \in Posters, PostNotify(t) PROVE SemaphoreInv'
    BY <2>12 DEF PostNotify, Woken, Go
  <2>13. CASE UNCHANGED semaphore
    BY <2>13 DEF semaphore
  <2> QED
    BY <2>1, <2>2, <2>3, <2>4, <2>5, <2>6, <2>7, <2>8, <2>9, <2>10, <2>11, <2>12, <2>13
    DEF SemaphoreNext, WaitStep, PostStep
<1> QED
  BY <1>1, <1>2, PTL DEF SemaphoreSpec

(* The threads between lock and unlock are the holder of the mutex.        *)
THEOREM TypeCorrect == SemaphoreSpec => []TypeOK
<1>1. SemaphoreInv => TypeOK
  BY DEF SemaphoreInv
<1> QED
  BY <1>1, SemaphoreInvariance, PTL

(* No wakeup is lost.                                                      *)
THEOREM NoLostWakeupAlways == SemaphoreSpec => []NoLostWakeup
<1>1. SemaphoreInv => NoLostWakeup
  BY DEF SemaphoreInv
<1> QED
  BY <1>1, SemaphoreInvariance, PTL

(***************************************************************************)
(* The safety part of ImplementsAtomic: WaitTake is the atomic Take,       *)
(* PostSet the atomic Post, CallWait itself, and the rest is invisible.    *)
(***************************************************************************)
THEOREM SemaphoreRefinement == SemaphoreSpec => Atomic!Init /\ [][Atomic!Next]_Atomic!vars
<1>1. SemaphoreInit => Atomic!Init
  BY DEF SemaphoreInit, Atomic!Init, Waiting, Threads
<1>2. SemaphoreInv /\ [SemaphoreNext]_semaphore => [Atomic!Next]_Atomic!vars
  <2> SUFFICES ASSUME SemaphoreInv, [SemaphoreNext]_semaphore PROVE [Atomic!Next]_Atomic!vars
    OBVIOUS
  <2> USE SemaphoreAssumption
  <2> USE DEF SemaphoreInv, TypeOK, ThreadPlaces, Waiting, Threads, Atomic!vars
  <2>1. ASSUME NEW t \in Waiters, CallWait(t) PROVE Atomic!CallWait(t)
    BY <2>1 DEF CallWait, Go, Atomic!CallWait
  <2>2. ASSUME NEW t \in Waiters, WaitTake(t) PROVE Atomic!Take(t)
    BY <2>2 DEF WaitTake, Passes, Go, Atomic!Take
  <2>3. ASSUME NEW t \in Posters, PostSet(t) PROVE Atomic!Post
    BY <2>3 DEF PostSet, Go, Atomic!Post
  <2>4. ASSUME NEW t \in Waiters,
               WaitLock(t) \/ WaitSleep(t) \/ WaitRelock(t) \/ WaitUnlock(t)
                 \/ WaitSpurious(t)
        PROVE  UNCHANGED Atomic!vars
    BY <2>4 DEF WaitLock, WaitSleep, WaitRelock, WaitUnlock, WaitSpurious, Lock, Unlock, Go
  <2>5. ASSUME NEW t \in Posters,
               CallPost(t) \/ PostLock(t) \/ PostUnlock(t) \/ PostNotify(t)
        PROVE  UNCHANGED Atomic!vars
    BY <2>5 DEF CallPost, PostLock, PostUnlock, PostNotify, Lock, Unlock, Go
  <2>6. CASE UNCHANGED semaphore
    BY <2>6 DEF semaphore
  <2> QED
    BY <2>1, <2>2, <2>3, <2>4, <2>5, <2>6 DEF SemaphoreNext, WaitStep, PostStep, Atomic!Next
<1> QED
  BY <1>1, <1>2, SemaphoreInvariance, PTL DEF SemaphoreSpec
================================================================================
