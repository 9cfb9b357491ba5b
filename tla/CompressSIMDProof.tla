--------------------------- MODULE CompressSIMDProof ---------------------------
(***************************************************************************)
(* Proofs about the batching compressor, for any number of lanes and jobs, *)
(* any length of chunks and any sizes of the staging areas.  While a batch *)
(* is in work every job is in exactly the places where the invariant looks *)
(* for it: among the jobs to be loaded, in a lane, or among the finished;  *)
(* and wherever it is, it has stayed inside the room it was given.  From   *)
(* this follows how much a batch can write, and from that what the budget  *)
(* is worth.  The second half follows the bytes: what a job has written so *)
(* far are the first of the greedy codes of its chunk, and with those that *)
(* are missing the output holds the codes of the strings, one behind the   *)
(* other.                                                                  *)
(***************************************************************************)
EXTENDS CompressSIMD, TableTheorems

(* The tables come from finalize, of a table whose longer symbols do not   *)
(* contain the terminator.                                                 *)
Finalized ==
  \A t \in Tables : \E b :
    Ready(b) /\ NSymbols(b) > 0 /\ NoneAcross(b) /\ t = FinalizeTable(b)

--------------------------------------------------------------------------------
(* The invariant.                                                          *)
Job == [cur : Nat, end : Nat, pos : Nat, out : Nat]

(* A sequence, of whatever it is a sequence.                               *)
IsSequence(s) == s \in Seq(Range(s))

Given == table \in Tables /\ line \in Inputs(table) /\ size \in Sizes

(* The string at curLine has been accepted, and what of it is not in jobs. *)
Begun == Len(strOut) = curLine
Rest  == IF Begun THEN Len(line[curLine]) - curOff ELSE 0

Position ==
  /\ pc \in {"line", "job", "fire", "kernel", "finish", "returned"}
  /\ curLine \in 1 .. Len(line) + 1 /\ curOff \in Nat
  /\ IsSequence(strOut) /\ Len(strOut) \in {curLine - 1, curLine}
  /\ Begun => curLine <= Len(line) /\ curOff <= Len(line[curLine])
  /\ pc \in {"line", "returned"} => ~ Begun
  /\ pc = "job" => Begun

(* The jobs of the batch lie one behind the other in both staging areas,   *)
(* each closed by the terminator.                                          *)
Prepared(job, i) ==
  /\ job.pos = i - 1
  /\ job.cur <= job.end /\ Size(job) <= ChunkMax
  /\ job.out + Room(Size(job)) <= outOff
  /\ Size(job) > 0 => job.end < inOff /\ symbolBase[job.end] = table.terminator

Batch ==
  /\ input \in Seq(Job) /\ Len(input) <= MaxJobs
  /\ pc \in {"line", "job"} => Len(input) < MaxJobs
  /\ inOff \in Nat /\ inOff <= Len(input) * (ChunkMax + 1)
  /\ outOff \in 0 .. StageMax
  /\ \A i \in DOMAIN input : Prepared(input[i], i)
  /\ symbolBase \in [SymbolIndex -> Byte]

(* A job in work is inside its room.                                       *)
Start(job) == input[job.pos + 1]

Inside(job) ==
  /\ job \in Job /\ job.pos + 1 \in DOMAIN input
  /\ job.end = Start(job).end
  /\ Start(job).cur <= job.cur /\ job.cur <= job.end
  /\ Start(job).out <= job.out
  /\ job.out - Start(job).out <= 2 * (job.cur - Start(job).cur)

Running(job) == Inside(job) /\ job.cur < job.end

(* The jobs are in the lanes, done, or still to come.                      *)
InKernel ==
  /\ kernel.jobs = SubSeq(Ordered, 1, NonEmpty)
  /\ kernel.next \in 0 .. NonEmpty
  /\ \A l \in Lane : kernel.lane[l] = Idle \/ Running(kernel.lane[l])
  /\ kernel.done \in Seq(Job) /\ \A i \in DOMAIN kernel.done : Inside(kernel.done[i])
  /\ \A i \in DOMAIN input :
       \/ \E n \in kernel.next + 1 .. Len(input) : Ordered[n].pos = i - 1
       \/ \E l \in Lane : kernel.lane[l] # Idle /\ kernel.lane[l].pos = i - 1
       \/ \E d \in DOMAIN kernel.done : kernel.done[d].pos = i - 1

AtWork ==
  /\ pc # "kernel" => kernel = <<>>
  /\ pc = "kernel" => kernel # <<>> /\ InKernel
  /\ pc # "finish" => output = <<>>
  /\ pc = "finish" =>
       /\ output \in Seq(Job) /\ \A k \in DOMAIN output : Inside(output[k])
       /\ \A i \in DOMAIN input : \E k \in DOMAIN output : output[k].pos = i - 1

(* The bytes of the first strings, and of the jobs of the batch.           *)
Lengths  == [l \in DOMAIN line |-> Len(line[l])]
Total(n) == SumFunctionOnSet(Lengths, 1 .. n)
JobSizes == [i \in DOMAIN input |-> Size(input[i])]
Batched  == SumFunctionOnSet(JobSizes, DOMAIN input)

Passed == Total(curLine - 1) + (IF Begun THEN curOff ELSE 0)

Budget ==
  /\ budget \in Nat /\ IsSequence(dst)
  /\ Len(dst) + 2 * Batched <= 2 * Passed
  /\ size >= Slack + 2 * Total(Len(line)) =>
       /\ budget + 2 * Total(Len(strOut)) >= size
       /\ pc = "returned" => curLine = Len(line) + 1
  /\ ~ split => Len(dst) + 2 * Batched + 2 * Rest + budget <= size

IInv == Given /\ Position /\ Batch /\ AtWork /\ Budget

--------------------------------------------------------------------------------
(* Members of a finite set in a total order: each has a rank, and each     *)
(* rank a member.                                                          *)
Rank2(S, P, j) == Cardinality({k \in S : <<k, j>> \in P})
Nth(S, P, n)   == CHOOSE j \in S : Rank2(S, P, j) = n - 1

TotalOrder(S, P) ==
  /\ \A j \in S : <<j, j>> \notin P
  /\ \A i, j \in S : i = j \/ <<i, j>> \in P \/ <<j, i>> \in P
  /\ \A i, j, k \in S : <<i, j>> \in P /\ <<j, k>> \in P => <<i, k>> \in P

LEMMA RankBound ==
  ASSUME NEW S, IsFiniteSet(S), NEW P, TotalOrder(S, P), NEW j \in S
  PROVE  Rank2(S, P, j) \in 0 .. Cardinality(S) - 1
<1> DEFINE B == {k \in S : <<k, j>> \in P}
<1>1. B \in SUBSET S /\ j \notin B
  BY DEF TotalOrder
<1> HIDE DEF B
<1>2. IsFiniteSet(B) /\ Cardinality(B) <= Cardinality(S) /\ Cardinality(B) # Cardinality(S)
  BY <1>1, FS_Subset
<1>3. Cardinality(B) \in Nat /\ Cardinality(S) \in Nat
  BY <1>2, FS_CardinalityType
<1> QED
  BY <1>2, <1>3 DEF Rank2, B

(* Ranks grow along the order.                                             *)
LEMMA RankGrows ==
  ASSUME NEW S, IsFiniteSet(S), NEW P, TotalOrder(S, P), NEW i \in S, NEW j \in S, <<i, j>> \in P
  PROVE  Rank2(S, P, i) < Rank2(S, P, j)
<1> DEFINE A == {k \in S : <<k, i>> \in P}
           B == {k \in S : <<k, j>> \in P}
<1>1. A \in SUBSET B /\ i \in B /\ i \notin A /\ B \in SUBSET S
  BY DEF TotalOrder
<1> HIDE DEF A, B
<1>2. IsFiniteSet(B)
  BY <1>1, FS_Subset
<1>3. Cardinality(A) <= Cardinality(B) /\ Cardinality(A) # Cardinality(B) /\ IsFiniteSet(A)
  BY <1>1, <1>2, FS_Subset
<1>4. Cardinality(A) \in Nat /\ Cardinality(B) \in Nat
  BY <1>2, <1>3, FS_CardinalityType
<1> QED
  BY <1>3, <1>4 DEF Rank2, A, B

(* The member of each rank, and the rank of each member.                   *)
LEMMA NthOfRank ==
  ASSUME NEW S, IsFiniteSet(S), NEW P, TotalOrder(S, P)
  PROVE  /\ \A n \in 1 .. Cardinality(S) : Nth(S, P, n) \in S /\ Rank2(S, P, Nth(S, P, n)) = n - 1
         /\ \A j \in S : /\ Rank2(S, P, j) + 1 \in 1 .. Cardinality(S)
                         /\ Nth(S, P, Rank2(S, P, j) + 1) = j
<1> DEFINE c == Cardinality(S)
           R == 0 .. c - 1
           f == [j \in S |-> Rank2(S, P, j)]
<1>0. c \in Nat
  BY FS_CardinalityType
<1>1. IsFiniteSet(R) /\ Cardinality(R) = c
  <2>1. c - 1 \in Int /\ 0 \in Int
    BY <1>0
  <2>2. IsFiniteSet(R) /\ Cardinality(R) = IF 0 > c - 1 THEN 0 ELSE c - 1 - 0 + 1
    BY <2>1, FS_Interval
  <2> QED
    BY <2>2, <1>0
<1>2. \A j \in S : Rank2(S, P, j) \in R
  BY RankBound
<1>3. \A i, j \in S : Rank2(S, P, i) = Rank2(S, P, j) => i = j
  <2>1. ASSUME NEW i \in S, NEW j \in S, i # j PROVE Rank2(S, P, i) # Rank2(S, P, j)
    <3>1. Rank2(S, P, i) \in Nat /\ Rank2(S, P, j) \in Nat
      BY <1>2, <1>0
    <3>2. <<i, j>> \in P \/ <<j, i>> \in P
      BY <2>1 DEF TotalOrder
    <3>3. Rank2(S, P, i) < Rank2(S, P, j) \/ Rank2(S, P, j) < Rank2(S, P, i)
      BY <3>2, RankGrows
    <3> QED
      BY <3>1, <3>3
  <2> QED
    BY <2>1
<1> HIDE DEF R
<1>4. f \in Injection(S, R)
  BY <1>2, <1>3 DEF Injection, IsInjective
<1>5. f \in Surjection(S, R)
  BY <1>1, <1>4, FS_Injection
<1>6. ASSUME NEW n \in 1 .. c
      PROVE  Nth(S, P, n) \in S /\ Rank2(S, P, Nth(S, P, n)) = n - 1
  <2>1. n - 1 \in R
    BY <1>0 DEF R
  <2>2. \E j \in S : Rank2(S, P, j) = n - 1
    BY <1>5, <2>1 DEF Surjection
  <2> QED
    BY <2>2 DEF Nth
<1>7. ASSUME NEW j \in S
      PROVE  Rank2(S, P, j) + 1 \in 1 .. c /\ Nth(S, P, Rank2(S, P, j) + 1) = j
  <2> DEFINE r == Rank2(S, P, j)
  <2>1. r \in Nat /\ r + 1 \in 1 .. c
    BY <1>2, <1>0 DEF R
  <2>2. r + 1 - 1 = r
    BY <2>1
  <2>3. Nth(S, P, r + 1) \in S /\ Rank2(S, P, Nth(S, P, r + 1)) = r
    BY <2>1, <2>2, <1>6
  <2> HIDE DEF r
  <2>4. Rank2(S, P, j) = r
    BY DEF r
  <2> QED
    BY <2>1, <2>3, <2>4, <1>3 DEF r
<1> QED
  BY <1>6, <1>7

(* As many values as arguments.                                            *)
LEMMA ImageCount ==
  ASSUME NEW D, IsFiniteSet(D), NEW f, \A x, y \in D : f[x] = f[y] => x = y
  PROVE  /\ IsFiniteSet({f[x] : x \in D})
         /\ Cardinality({f[x] : x \in D}) = Cardinality(D)
<1> DEFINE R == {f[x] : x \in D}
           g == [x \in D |-> f[x]]
<1>1. g \in Surjection(D, R) /\ g \in Injection(D, R)
  BY DEF Surjection, Injection, IsInjective
<1> HIDE DEF g
<1> QED
  BY <1>1, FS_Surjection

(* The numbers of a finite set in their order.                             *)
Less(S) == {p \in S \X S : p[1] < p[2]}

LEMMA NumbersOrdered ==
  ASSUME NEW S \in SUBSET Nat
  PROVE  /\ TotalOrder(S, Less(S))
         /\ \A l \in S : {k \in S : <<k, l>> \in Less(S)} = {k \in S : k < l}
<1> DEFINE P == Less(S)
<1>1. \A i, j \in S : <<i, j>> \in P <=> i < j
  BY DEF Less
<1>2. \A i \in S : i \in Nat
  OBVIOUS
<1> HIDE DEF P
<1>3. \A j \in S : <<j, j>> \notin P
  BY <1>1, <1>2
<1>4. \A i, j \in S : i = j \/ <<i, j>> \in P \/ <<j, i>> \in P
  <2>1. \A i, j \in Nat : i = j \/ i < j \/ j < i
    OBVIOUS
  <2> QED
    BY <1>1, <1>2, <2>1
<1>5. \A i, j, k \in S : <<i, j>> \in P /\ <<j, k>> \in P => <<i, k>> \in P
  BY <1>1, <1>2
<1>6. TotalOrder(S, P)
  BY <1>3, <1>4, <1>5 DEF TotalOrder
<1>7. \A l \in S : {k \in S : <<k, l>> \in P} = {k \in S : k < l}
  BY <1>1
<1> QED
  BY <1>6, <1>7 DEF P

(* What compressstore stores: every chosen lane, and nothing else.         *)
Stores(p, lane, S, c) ==
  /\ c \in Nat /\ DOMAIN p = 1 .. c
  /\ \A n \in 1 .. c : \E l \in S : p[n] = lane[l]
  /\ \A l \in S : \E n \in 1 .. c : p[n] = lane[l]

LEMMA PackedLanes ==
  ASSUME NEW S \in SUBSET Nat, IsFiniteSet(S), NEW lane
  PROVE  Stores(Packed(lane, S), lane, S, Cardinality(S))
<1> DEFINE c == Cardinality(S)
           P == Less(S)
<1>1. c \in Nat
  BY FS_CardinalityType
<1>2. TotalOrder(S, P) /\ \A l \in S : {k \in S : <<k, l>> \in P} = {k \in S : k < l}
  BY NumbersOrdered
<1>3. /\ \A n \in 1 .. c : Nth(S, P, n) \in S /\ Rank2(S, P, Nth(S, P, n)) = n - 1
      /\ \A j \in S : Rank2(S, P, j) + 1 \in 1 .. c /\ Nth(S, P, Rank2(S, P, j) + 1) = j
  BY <1>2, NthOfRank
<1> HIDE DEF P, c
<1>4. \A n \in 1 .. c : Packed(lane, S)[n] = lane[Nth(S, P, n)]
  <2>1. ASSUME NEW n \in 1 .. c
        PROVE  (CHOOSE l \in S : Cardinality({i \in S : i < l}) = n - 1) = Nth(S, P, n)
    <3>1. \A l \in S : Cardinality({i \in S : i < l}) = Rank2(S, P, l)
      BY <1>2 DEF Rank2
    <3> QED
      BY <3>1 DEF Nth
  <2> QED
    BY <2>1 DEF Packed, c
<1>5. DOMAIN Packed(lane, S) = 1 .. c
  BY DEF Packed, c
<1> QED
  BY <1>1, <1>3, <1>4, <1>5 DEF Stores, c

LEMMA PackedType ==
  ASSUME NEW S \in SUBSET Nat, IsFiniteSet(S), NEW lane, NEW V, \A l \in S : lane[l] \in V
  PROVE  Packed(lane, S) \in Seq(V)
<1> DEFINE c == Cardinality(S)
           pick(n) == lane[CHOOSE l \in S : Cardinality({i \in S : i < l}) = n - 1]
           p == Packed(lane, S)
<1>1. p = [n \in 1 .. c |-> pick(n)]
  BY Zenon DEF Packed
<1>2. c \in Nat /\ \A n \in 1 .. c : p[n] \in V
  <2>1. Stores(p, lane, S, c)
    BY PackedLanes
  <2> HIDE DEF c, pick, p
  <2> QED
    BY <2>1 DEF Stores
<1> HIDE DEF c, pick, p
<1>3. p \in Seq(V)
  BY <1>1, <1>2
<1> QED
  BY <1>3 DEF p

(* The idle lanes take consecutive jobs.                                   *)
LEMMA PlacesTaken ==
  ASSUME NEW S \in SUBSET Nat, IsFiniteSet(S)
  PROVE  /\ \A l \in S : Cardinality({i \in S : i <= l}) \in 1 .. Cardinality(S)
         /\ \A n \in 1 .. Cardinality(S) : \E l \in S : Cardinality({i \in S : i <= l}) = n
<1> DEFINE c == Cardinality(S)
           P == Less(S)
<1>1. c \in Nat
  BY FS_CardinalityType
<1>2. TotalOrder(S, P) /\ \A l \in S : {k \in S : <<k, l>> \in P} = {k \in S : k < l}
  BY NumbersOrdered
<1>3. /\ \A n \in 1 .. c : Nth(S, P, n) \in S /\ Rank2(S, P, Nth(S, P, n)) = n - 1
      /\ \A j \in S : Rank2(S, P, j) + 1 \in 1 .. c /\ Nth(S, P, Rank2(S, P, j) + 1) = j
  BY <1>2, NthOfRank
<1>4. ASSUME NEW l \in S PROVE Cardinality({i \in S : i <= l}) = Rank2(S, P, l) + 1
  <2> DEFINE A == {k \in S : k < l}
  <2>0. \A i, j \in Nat : i <= j <=> i < j \/ i = j
    OBVIOUS
  <2>1. \A i \in S : i <= l <=> i < l \/ i = l
    BY <2>0
  <2>2. ~ (l < l)
    OBVIOUS
  <2>3. {i \in S : i <= l} = A \cup {l} /\ l \notin A /\ A \in SUBSET S
    BY <2>1, <2>2
  <2> HIDE DEF A
  <2>4. IsFiniteSet(A)
    BY <2>3, FS_Subset
  <2>5. Cardinality(A \cup {l}) = Cardinality(A) + 1
    BY <2>3, <2>4, FS_AddElement
  <2>6. Cardinality(A) = Rank2(S, P, l)
    BY <1>2, Zenon DEF Rank2, A
  <2> QED
    BY <2>3, <2>5, <2>6
<1> HIDE DEF P, c
<1>5. ASSUME NEW n \in 1 .. c PROVE \E l \in S : Cardinality({i \in S : i <= l}) = n
  <2> DEFINE l == Nth(S, P, n)
  <2>1. l \in S /\ Rank2(S, P, l) = n - 1
    BY <1>3
  <2> HIDE DEF l
  <2>2. Cardinality({i \in S : i <= l}) = n - 1 + 1
    BY <2>1, <1>4
  <2>3. n - 1 + 1 = n
    BY <1>1
  <2> QED
    BY <2>1, <2>2, <2>3
<1>6. \A l \in S : Cardinality({i \in S : i <= l}) \in 1 .. c
  BY <1>3, <1>4
<1> QED
  BY <1>5, <1>6 DEF c

--------------------------------------------------------------------------------
(* The radix sort.                                                         *)
JobsNumbered ==
  /\ input \in Seq(Job)
  /\ \A i \in DOMAIN input : input[i].pos = i - 1 /\ input[i].cur <= input[i].end

LEMMA NumberedJob ==
  ASSUME JobsNumbered, NEW j \in Range(input)
  PROVE  j \in Job /\ Size(j) \in Nat /\ j.pos \in Nat
<1>1. PICK i \in DOMAIN input : j = input[i]
  BY DEF Range
<1>2. input[i] \in Job /\ input[i].cur <= input[i].end
  BY ElementType DEF JobsNumbered
<1> QED
  BY <1>1, <1>2 DEF Job, Size

BeforePairs == {p \in Range(input) \X Range(input) : Before(p[1], p[2])}

(* The order of the sort is total, since no two jobs have one number.      *)
LEMMA SortOrder ==
  ASSUME JobsNumbered
  PROVE  /\ TotalOrder(Range(input), BeforePairs)
         /\ \A j \in Range(input) :
              {k \in Range(input) : <<k, j>> \in BeforePairs} = {k \in Range(input) : Before(k, j)}
<1> DEFINE R == Range(input)
           P == BeforePairs
<1>1. \A i, j \in R : <<i, j>> \in P <=> Before(i, j)
  BY DEF BeforePairs
<1>2. \A j \in R : j \in Job /\ Size(j) \in Int /\ j.pos \in Int
  <2>1. ASSUME NEW j \in R PROVE j \in Job /\ Size(j) \in Nat /\ j.pos \in Nat
    BY NumberedJob
  <2> QED
    BY <2>1
<1>3. \A i, j \in R : i.pos = j.pos => i = j
  <2>1. ASSUME NEW i \in R, NEW j \in R, i.pos = j.pos PROVE i = j
    <3>1. PICK a \in DOMAIN input : i = input[a]
      BY DEF Range
    <3>2. PICK b \in DOMAIN input : j = input[b]
      BY DEF Range
    <3>3. a - 1 = b - 1 /\ a \in Nat /\ b \in Nat
      BY <3>1, <3>2, <2>1 DEF JobsNumbered
    <3> QED
      BY <3>1, <3>2, <3>3
  <2> QED
    BY <2>1
<1> HIDE DEF P, R
<1>4. \A j \in R : <<j, j>> \notin P
  <2>1. \A s, p \in Int : ~ (s > s \/ (s = s /\ p < p))
    OBVIOUS
  <2> QED
    BY <1>1, <1>2, <2>1 DEF Before
<1>5. \A i, j \in R : i = j \/ <<i, j>> \in P \/ <<j, i>> \in P
  <2>1. \A s, p, t, q \in Int : (s > t \/ (s = t /\ p < q)) \/ (t > s \/ (t = s /\ q < p)) \/ p = q
    OBVIOUS
  <2>2. \A i, j \in R : Before(i, j) \/ Before(j, i) \/ i.pos = j.pos
    BY <1>2, <2>1 DEF Before
  <2> QED
    BY <1>1, <1>3, <2>2
<1>6. \A i, j, k \in R : <<i, j>> \in P /\ <<j, k>> \in P => <<i, k>> \in P
  <2>1. \A s, p, t, q, u, r \in Int :
          (s > t \/ (s = t /\ p < q)) /\ (t > u \/ (t = u /\ q < r)) => (s > u \/ (s = u /\ p < r))
    OBVIOUS
  <2>2. \A i, j, k \in R : Before(i, j) /\ Before(j, k) => Before(i, k)
    BY <1>2, <2>1 DEF Before
  <2> QED
    BY <1>1, <2>2
<1>7. TotalOrder(R, P)
  BY <1>4, <1>5, <1>6 DEF TotalOrder
<1> QED
  BY <1>1, <1>7 DEF P, R

(* As many jobs as positions, and as many that are not empty.              *)
LEMMA JobCounts ==
  ASSUME JobsNumbered
  PROVE  /\ IsFiniteSet(Range(input)) /\ Cardinality(Range(input)) = Len(input)
         /\ NonEmpty = Cardinality({j \in Range(input) : Size(j) > 0})
         /\ NonEmpty \in 0 .. Len(input)
<1> DEFINE n == Len(input)
           D == 1 .. n
           E == {i \in D : Size(input[i]) > 0}
<1>1. n \in Nat /\ DOMAIN input = D
  BY DEF JobsNumbered
<1>2. IsFiniteSet(D) /\ Cardinality(D) = n
  <2>1. n \in Int /\ 1 \in Int
    BY <1>1
  <2>2. IsFiniteSet(D) /\ Cardinality(D) = IF 1 > n THEN 0 ELSE n - 1 + 1
    BY <2>1, FS_Interval
  <2> QED
    BY <2>2, <1>1
<1>3. \A x, y \in D : input[x] = input[y] => x = y
  <2>1. ASSUME NEW x \in D, NEW y \in D, input[x] = input[y] PROVE x = y
    <3>1. x - 1 = y - 1 /\ x \in Nat /\ y \in Nat
      BY <2>1, <1>1 DEF JobsNumbered
    <3> QED
      BY <3>1
  <2> QED
    BY <2>1
<1> HIDE DEF n
<1>4. Range(input) = {input[x] : x \in D}
  BY <1>1 DEF Range
<1>5. IsFiniteSet(Range(input)) /\ Cardinality(Range(input)) = n
  <2> HIDE DEF D
  <2>1. IsFiniteSet({input[x] : x \in D}) /\ Cardinality({input[x] : x \in D}) = Cardinality(D)
    BY <1>2, <1>3, ImageCount
  <2> QED
    BY <2>1, <1>2, <1>4
<1>6. E \in SUBSET D /\ IsFiniteSet(E) /\ Cardinality(E) <= n /\ Cardinality(E) \in Nat
  <2> HIDE DEF D
  <2>1. E \in SUBSET D
    OBVIOUS
  <2> HIDE DEF E
  <2> QED
    BY <2>1, <1>2, FS_Subset, FS_CardinalityType
<1>7. {j \in Range(input) : Size(j) > 0} = {input[x] : x \in E}
  BY <1>4
<1>8. Cardinality({input[x] : x \in E}) = Cardinality(E)
  <2>1. \A x, y \in E : input[x] = input[y] => x = y
    BY <1>3, <1>6
  <2> HIDE DEF E
  <2> QED
    BY <2>1, <1>6, ImageCount
<1>9. NonEmpty = Cardinality(E)
  BY <1>1 DEF NonEmpty
<1>10. {j \in Range(input) : Size(j) > 0} = {input[x] : x \in E}
  BY <1>7
<1> HIDE DEF E, D
<1>11. NonEmpty = Cardinality({j \in Range(input) : Size(j) > 0})
  BY <1>8, <1>9, <1>10
<1>12. NonEmpty \in 0 .. n
  BY <1>1, <1>6, <1>9
<1> QED
  BY <1>5, <1>11, <1>12 DEF n

(* The sort permutes the jobs, and the empty ones come last.               *)
LEMMA SortedJobs ==
  ASSUME JobsNumbered
  PROVE  /\ NonEmpty \in 0 .. Len(input)
         /\ DOMAIN Ordered = 1 .. Len(input)
         /\ \A n \in 1 .. Len(input) : Ordered[n] \in Range(input)
         /\ \A n \in 1 .. NonEmpty : Size(Ordered[n]) > 0
         /\ \A i \in 1 .. Len(input) : \E n \in 1 .. Len(input) : Ordered[n] = input[i]
<1> DEFINE R == Range(input)
           P == BeforePairs
           c == Len(input)
           E == {j \in R : Size(j) > 0}
<1>1. c \in Nat /\ DOMAIN input = 1 .. c
  BY DEF JobsNumbered
<1>2. /\ IsFiniteSet(R) /\ Cardinality(R) = c
      /\ NonEmpty = Cardinality(E) /\ NonEmpty \in 0 .. c
  BY JobCounts
<1>3. /\ TotalOrder(R, P)
      /\ \A j \in R : {k \in R : <<k, j>> \in P} = {k \in R : Before(k, j)}
  BY SortOrder
<1>4. \A j \in R : Size(j) \in Int /\ Size(j) >= 0
  <2>1. ASSUME NEW j \in R PROVE Size(j) \in Nat
    BY NumberedJob
  <2> QED
    BY <2>1
<1>5. /\ \A n \in 1 .. c : Nth(R, P, n) \in R /\ Rank2(R, P, Nth(R, P, n)) = n - 1
      /\ \A j \in R : Rank2(R, P, j) + 1 \in 1 .. c /\ Nth(R, P, Rank2(R, P, j) + 1) = j
  <2> HIDE DEF R, P, c
  <2> QED
    BY <1>2, <1>3, NthOfRank
<1> HIDE DEF P, c
<1>6. \A n \in 1 .. c : Ordered[n] = Nth(R, P, n)
  <2>1. ASSUME NEW n \in 1 .. c
        PROVE  (CHOOSE j \in R : Cardinality({k \in R : Before(k, j)}) = n - 1) = Nth(R, P, n)
    <3>1. \A j \in R : Cardinality({k \in R : Before(k, j)}) = Rank2(R, P, j)
      BY <1>3 DEF Rank2
    <3> HIDE DEF R
    <3> QED
      BY <3>1 DEF Nth
  <2> QED
    BY <2>1, <1>1 DEF Ordered
<1>7. ASSUME NEW j \in R, ~ (Size(j) > 0) PROVE Rank2(R, P, j) >= NonEmpty
  <2> DEFINE A == {k \in R : Before(k, j)}
  <2>1. E \in SUBSET A /\ A \in SUBSET R
    <3>1. \A k \in E : Before(k, j)
      <4>1. \A s, t \in Int : s > 0 /\ t >= 0 /\ ~ (t > 0) => s > t
        OBVIOUS
      <4>2. \A k \in E : Size(k) > Size(j)
        BY <4>1, <1>4, <1>7
      <4> QED
        BY <4>2 DEF Before
    <3> QED
      BY <3>1
  <2> HIDE DEF A, E
  <2>2. IsFiniteSet(A) /\ Cardinality(E) <= Cardinality(A)
    BY <2>1, <1>2, FS_Subset
  <2>3. Cardinality(A) = Rank2(R, P, j)
    BY <1>3, Zenon DEF Rank2, A
  <2> QED
    BY <2>2, <2>3, <1>2, <1>5, <1>1
<1>8. ASSUME NEW n \in 1 .. NonEmpty PROVE Size(Ordered[n]) > 0
  <2> DEFINE j == Nth(R, P, n)
  <2>1. n \in 1 .. c /\ n - 1 < NonEmpty
    BY <1>1, <1>2
  <2>2. j \in R /\ Rank2(R, P, j) = n - 1
    BY <2>1, <1>5
  <2>3. Ordered[n] = j
    BY <2>1, <1>6
  <2> HIDE DEF j
  <2>4. ~ (n - 1 >= NonEmpty)
    BY <2>1, <1>1, <1>2
  <2> QED
    BY <2>2, <2>3, <2>4, <1>7
<1>9. ASSUME NEW i \in 1 .. c PROVE \E n \in 1 .. c : Ordered[n] = input[i]
  <2>1. input[i] \in R
    BY <1>1 DEF Range
  <2> QED
    BY <2>1, <1>5, <1>6
<1>10. DOMAIN Ordered = 1 .. c
  BY <1>1 DEF Ordered
<1> QED
  BY <1>2, <1>5, <1>6, <1>8, <1>9, <1>10 DEF c

--------------------------------------------------------------------------------
(* A code found for the rest of a chunk is inside it.                      *)
LEMMA LookupInside ==
  ASSUME Finalized, NEW t \in Tables, NEW word \in [1 .. MaxLength -> Byte],
         NEW n \in 1 .. MaxLength, n < MaxLength => word[n + 1] = t.terminator
  PROVE  LET found == FinalLookup(t, word)
         IN  found.len \in 1 .. n /\ EscapeBit(found.code) \in {0, 1}
<1>1. PICK b : Ready(b) /\ NSymbols(b) > 0 /\ NoneAcross(b) /\ t = FinalizeTable(b)
  BY DEF Finalized
<1> DEFINE s == SubSeq(word, 1, n)
           found == FinalLookup(t, word)
<1>2. b.terminator = t.terminator /\ t.symbols \in Seq(Symbol)
  BY <1>1, FinalLimits, FinalSymbols
<1>3. s \in Symbol /\ Len(s) = n /\ n \in Nat
  BY TableAssumption, FirstBytes
<1>4. \E text : Chosen(t, s, CodesOf(found, word[1]), text) /\ Len(text) = found.len
  BY <1>1, <1>2, LookupChooses
<1>5. found.len \in 1 .. n
  <2>1. PICK text : Chosen(t, s, CodesOf(found, word[1]), text) /\ Len(text) = found.len
    BY <1>4
  <2> HIDE DEF s, found
  <2>2. Len(text) \in Nat /\ Len(text) >= 1 /\ Len(text) <= Len(s)
    BY <2>1, <1>2, <1>3, ChosenPrefix
  <2> QED
    BY <2>1, <2>2, <1>3
<1>6. EscapeBit(found.code) \in {0, 1}
  <2>1. found.code \in 0 .. NSymbols(t) - 1 \/ found.code = CODE_MASK
    BY <1>1, FoundCode
  <2>2. NSymbols(t) \in Nat /\ NSymbols(t) <= ESC
    BY <1>1, LimitsOrder
  <2>3. CASE found.code \in 0 .. NSymbols(t) - 1
    <3> HIDE DEF found
    <3> QED
      BY <2>2, <2>3, CodeKept
  <2>4. CASE found.code = CODE_MASK
    <3>1. CodeBase \in Nat /\ CodeBase > 1
      BY TableAssumption
    <3>2. (2 * CodeBase - 1) \div CodeBase = 1
      BY <3>1
    <3> QED
      BY <2>4, <3>2 DEF EscapeBit, CODE_MASK
  <2> QED
    BY <2>1, <2>3, <2>4
<1> QED
  BY <1>5, <1>6

(* The word at a position of a running job, and how much of it the job has.*)
LEMMA KernelWord ==
  ASSUME Given, Batch, NEW job, Running(job)
  PROVE  /\ WordAt(symbolBase, job.cur) \in [1 .. MaxLength -> Byte]
         /\ \E n \in 1 .. MaxLength :
              /\ n <= job.end - job.cur /\ (n = MaxLength \/ n = job.end - job.cur)
              /\ n < MaxLength => WordAt(symbolBase, job.cur)[n + 1] = table.terminator
<1> DEFINE c == job.cur
           e == job.end
           m == MaxLength
           start == Start(job)
<1>1. c \in Nat /\ e \in Nat /\ c < e /\ m \in Nat /\ m >= 3
  BY TableAssumption DEF Running, Inside, Job
<1>2. start.end = e /\ start.cur <= c /\ start \in Job /\ Prepared(start, job.pos + 1)
  <2>1. input \in Seq(Job) /\ job.pos + 1 \in DOMAIN input
    BY DEF Running, Inside, Batch
  <2>2. job.pos + 1 \in 1 .. Len(input)
    BY <2>1
  <2>3. Start(job) \in Job
    BY <2>1, <2>2, ElementType DEF Start
  <2> QED
    BY <2>1, <2>3 DEF Running, Inside, Batch, Start
<1> HIDE DEF start
<1>3. Size(start) > 0
  BY <1>1, <1>2 DEF Size, Job
<1>4. e < inOff /\ symbolBase[e] = table.terminator
  BY <1>2, <1>3 DEF Prepared
<1>5. inOff \in Nat /\ inOff <= MaxJobs * (ChunkMax + 1)
  <2>1. Len(input) \in Nat /\ Len(input) <= MaxJobs /\ inOff \in Nat /\ inOff <= Len(input) * (ChunkMax + 1)
    BY DEF Batch
  <2>2. MaxJobs \in Nat /\ ChunkMax + 1 \in Nat
    BY SIMDAssumption
  <2>3. \A x, y, z \in Nat : x <= y => x * z <= y * z
    OBVIOUS
  <2>4. Len(input) * (ChunkMax + 1) <= MaxJobs * (ChunkMax + 1)
    BY <2>1, <2>2, <2>3
  <2>5. MaxJobs * (ChunkMax + 1) \in Nat /\ Len(input) * (ChunkMax + 1) \in Nat
    BY <2>1, <2>2
  <2> QED
    BY <2>1, <2>4, <2>5
<1> DEFINE top == MaxJobs * (ChunkMax + 1)
<1>6. top \in Nat /\ inOff <= top
  BY <1>5, SIMDAssumption
<1>7. symbolBase \in [0 .. top + m - 1 -> Byte]
  BY DEF Batch, SymbolIndex
<1> HIDE DEF top, c, e, m
<1>8. \A i \in 1 .. m : c + i - 1 \in 0 .. top + m - 1
  BY <1>1, <1>4, <1>5, <1>6
<1>9. WordAt(symbolBase, c) \in [1 .. m -> Byte]
  <2>1. \A i \in 1 .. m : symbolBase[c + i - 1] \in Byte
    BY <1>7, <1>8
  <2> QED
    BY <2>1 DEF WordAt, m
<1>10. CASE e - c >= m
  BY <1>9, <1>10, <1>1 DEF c, e, m
<1>11. CASE ~ (e - c >= m)
  <2> DEFINE n == e - c
  <2>1. n \in 1 .. m /\ n < m /\ n + 1 \in 1 .. m /\ c + (n + 1) - 1 = e
    BY <1>11, <1>1
  <2>2. WordAt(symbolBase, c)[n + 1] = symbolBase[e]
    BY <2>1 DEF WordAt, m
  <2> QED
    BY <2>1, <2>2, <1>4, <1>9 DEF c, e, m
<1> QED
  BY <1>10, <1>11

LEMMA JobAdvanced ==
  ASSUME NEW job \in Job, NEW found, found.len \in Nat, EscapeBit(found.code) \in Nat
  PROVE  /\ Advanced(job, found) \in Job
         /\ Advanced(job, found).cur = job.cur + found.len
         /\ Advanced(job, found).out = job.out + 1 + EscapeBit(found.code)
         /\ Advanced(job, found).pos = job.pos /\ Advanced(job, found).end = job.end
<1> DEFINE x == job.cur + found.len
           y == job.out + 1 + EscapeBit(found.code)
           near == [job EXCEPT !.cur = x]
<1>1. x \in Nat /\ y \in Nat
  BY DEF Job
<1>2. Advanced(job, found) = [near EXCEPT !.out = y]
  BY Zenon DEF Advanced
<1> HIDE DEF x, y
<1>3. near \in Job /\ near.cur = x /\ near.pos = job.pos /\ near.end = job.end
  BY <1>1 DEF Job
<1> HIDE DEF near
<1>4. /\ [near EXCEPT !.out = y] \in Job
      /\ [near EXCEPT !.out = y].cur = near.cur /\ [near EXCEPT !.out = y].out = y
      /\ [near EXCEPT !.out = y].pos = near.pos /\ [near EXCEPT !.out = y].end = near.end
  BY <1>1, <1>3 DEF Job
<1> QED
  BY <1>2, <1>3, <1>4, Zenon DEF x, y

(* A job stays inside its room when a code of it has been found.           *)
LEMMA Advances ==
  ASSUME Finalized, Given, Batch, NEW job, Running(job),
         NEW found, found = FinalLookup(table, WordAt(symbolBase, job.cur))
  PROVE  Inside(Advanced(job, found)) /\ Advanced(job, found).pos = job.pos
<1> DEFINE word == WordAt(symbolBase, job.cur)
           next == Advanced(job, found)
           start == Start(job)
           bit == EscapeBit(found.code)
<1>1. word \in [1 .. MaxLength -> Byte]
  BY KernelWord
<1>2. PICK n \in 1 .. MaxLength :
        n <= job.end - job.cur /\ (n < MaxLength => word[n + 1] = table.terminator)
  BY KernelWord
<1>3. found.len \in 1 .. n /\ bit \in {0, 1}
  BY <1>1, <1>2, LookupInside DEF Given
<1>4. job \in Job /\ job.pos + 1 \in DOMAIN input
      /\ start.cur <= job.cur /\ job.cur < job.end /\ start.out <= job.out
      /\ job.out - start.out <= 2 * (job.cur - start.cur) /\ job.end = start.end
  BY DEF Running, Inside
<1>5. start \in Job
  <2>1. job.pos + 1 \in 1 .. Len(input) /\ input \in Seq(Job)
    BY <1>4 DEF Batch
  <2> QED
    BY <2>1, ElementType DEF Start
<1>6. start.cur \in Nat /\ start.out \in Nat
  BY <1>5 DEF Job
<1> DEFINE len == found.len
<1>7. len \in Nat /\ len >= 1 /\ len <= job.end - job.cur
  <2>1. n \in Nat /\ job.end - job.cur \in Int
    BY <1>4, TableAssumption DEF Job
  <2> QED
    BY <2>1, <1>2, <1>3
<1> HIDE DEF bit, len, word, start
<1>8. /\ next.cur = job.cur + len /\ next.out = job.out + 1 + bit
      /\ next.pos = job.pos /\ next.end = job.end /\ next \in Job
  <2>1. found.len \in Nat /\ EscapeBit(found.code) \in Nat /\ job \in Job
    BY <1>3, <1>4, <1>7 DEF len, bit
  <2> QED
    BY <2>1, JobAdvanced, Zenon DEF len, bit
<1>9. /\ start.cur <= next.cur /\ next.cur <= next.end /\ start.out <= next.out
      /\ next.out - start.out <= 2 * (next.cur - start.cur)
  <2>1. job.cur \in Nat /\ job.out \in Nat /\ job.end \in Nat
    BY <1>4 DEF Job
  <2> HIDE DEF next
  <2> QED
    BY <2>1, <1>3, <1>4, <1>6, <1>7, <1>8
<1>10. Start(next) = start
  BY <1>8 DEF Start, start
<1> HIDE DEF next
<1>11. Inside(next)
  BY <1>4, <1>8, <1>9, <1>10 DEF Inside
<1> QED
  BY <1>8, <1>11 DEF next

--------------------------------------------------------------------------------
(* The bytes of the strings and of the jobs.                               *)
LEMMA LineType ==
  ASSUME Given
  PROVE  /\ line \in Seq(Seq(Byte)) /\ Len(line) \in Nat
         /\ \A l \in 1 .. Len(line) : line[l] \in Seq(Byte) /\ Len(line[l]) \in Nat
         /\ \A l \in 1 .. Len(line) : Lengths[l] = Len(line[l])
         /\ size \in Nat /\ size < SizeRange /\ SizeRange \in Nat
<1>1. line \in Seq(Seq(Byte)) /\ size \in 0 .. SizeRange - 1 /\ SizeRange \in Nat
  BY SIMDAssumption DEF Given
<1> QED
  BY <1>1, ElementType DEF Lengths

LEMMA TotalNext ==
  ASSUME Given
  PROVE  /\ Total(0) = 0
         /\ \A n \in 0 .. Len(line) : Total(n) \in Nat
         /\ \A n \in 0 .. Len(line) - 1 : Total(n + 1) = Total(n) + Len(line[n + 1])
<1>1. Len(line) \in Nat /\ \A l \in 1 .. Len(line) : Lengths[l] = Len(line[l]) /\ Lengths[l] \in Nat
  BY LineType
<1>2. ASSUME NEW n \in 0 .. Len(line) PROVE Total(n) \in Nat
  <2>1. IsFiniteSet(1 .. n) /\ \A i \in 1 .. n : Lengths[i] \in Nat
    BY <1>1, FS_Interval
  <2> QED
    BY <2>1, SumNat DEF Total
<1>3. ASSUME NEW n \in 0 .. Len(line) - 1 PROVE Total(n + 1) = Total(n) + Len(line[n + 1])
  <2>1. n \in Nat /\ \A i \in 1 .. n + 1 : Lengths[i] \in Int
    BY <1>1
  <2>2. SumFunctionOnSet(Lengths, 1 .. n + 1) = Lengths[n + 1] + SumFunctionOnSet(Lengths, 1 .. n)
    BY <2>1, SumNext
  <2>3. Lengths[n + 1] = Len(line[n + 1]) /\ Lengths[n + 1] \in Nat /\ Total(n) \in Nat
    BY <1>1, <1>2
  <2> QED
    BY <2>2, <2>3 DEF Total
<1>4. Total(0) = 0
  <2>1. 1 .. 0 = {}
    OBVIOUS
  <2> QED
    BY <2>1, SumOfNone DEF Total
<1> QED
  BY <1>2, <1>3, <1>4

LEMMA TotalGrows ==
  ASSUME Given, NEW n \in 0 .. Len(line)
  PROVE  Total(n) <= Total(Len(line))
<1> DEFINE T == {d \in Nat : n + d <= Len(line) => Total(n) <= Total(n + d)}
<1>0. Len(line) \in Nat /\ \A l \in 1 .. Len(line) : Len(line[l]) \in Nat
  BY LineType
<1>1. 0 \in T
  BY <1>0, TotalNext
<1>2. ASSUME NEW d \in Nat, d \in T PROVE d + 1 \in T
  <2> SUFFICES ASSUME n + (d + 1) <= Len(line) PROVE Total(n) <= Total(n + (d + 1))
    OBVIOUS
  <2>1. n + d \in 0 .. Len(line) - 1 /\ n + d \in 0 .. Len(line) /\ (n + d) + 1 = n + (d + 1)
        /\ (n + d) + 1 \in 1 .. Len(line)
    BY <1>0
  <2>2. Total(n + (d + 1)) = Total(n + d) + Len(line[(n + d) + 1])
    BY <2>1, TotalNext
  <2>3. Len(line[(n + d) + 1]) \in Nat /\ Total(n) \in Nat /\ Total(n + d) \in Nat
    BY <2>1, <1>0, TotalNext
  <2>4. Total(n) <= Total(n + d)
    BY <1>2, <2>1
  <2> QED
    BY <2>2, <2>3, <2>4
<1>3. \A d \in Nat : d \in T
  <2> HIDE DEF T
  <2> QED
    BY <1>1, <1>2, SetInduction
<1>4. Len(line) - n \in Nat /\ n + (Len(line) - n) = Len(line)
  BY <1>0
<1>5. Len(line) - n \in T
  BY <1>3, <1>4
<1> QED
  BY <1>4, <1>5, <1>0

(* The sizes of the jobs.                                                  *)
LEMMA SizesType ==
  ASSUME Batch
  PROVE  /\ Len(input) \in Nat /\ DOMAIN input = 1 .. Len(input)
         /\ JobsNumbered
         /\ \A i \in 1 .. Len(input) :
              /\ input[i] \in Job /\ JobSizes[i] = Size(input[i])
              /\ JobSizes[i] \in 0 .. ChunkMax /\ Prepared(input[i], i)
         /\ Batched \in Nat
<1>1. input \in Seq(Job) /\ Len(input) \in Nat /\ DOMAIN input = 1 .. Len(input)
  BY DEF Batch
<1>2. ASSUME NEW i \in 1 .. Len(input)
      PROVE  /\ input[i] \in Job /\ JobSizes[i] = Size(input[i])
             /\ JobSizes[i] \in 0 .. ChunkMax /\ Prepared(input[i], i)
  <2>1. input[i] \in Job /\ JobSizes[i] = Size(input[i]) /\ Prepared(input[i], i)
    BY <1>1, ElementType DEF Batch, JobSizes
  <2>2. Size(input[i]) \in 0 .. ChunkMax
    BY <2>1, SIMDAssumption DEF Prepared, Size, Job
  <2> QED
    BY <2>1, <2>2
<1>3. JobsNumbered
  BY <1>1, <1>2 DEF JobsNumbered, Prepared
<1>4. Batched \in Nat
  <2>1. ChunkMax \in Nat
    BY SIMDAssumption
  <2>2. IsFiniteSet(1 .. Len(input))
    BY <1>1, FS_Interval
  <2>3. ASSUME NEW i \in 1 .. Len(input) PROVE JobSizes[i] \in Nat
    <3>1. JobSizes[i] \in 0 .. ChunkMax
      BY <1>2
    <3> QED
      BY <2>1, <3>1
  <2> QED
    BY <2>2, <2>3, <1>1, SumNat DEF Batched
<1> QED
  BY <1>1, <1>2, <1>3, <1>4

(* What the finished and the begun strings, and those before them, have.   *)
LEMMA PassedType ==
  ASSUME Given, Position
  PROVE  /\ Passed \in Nat /\ Rest \in Nat /\ Total(Len(strOut)) \in Nat
         /\ Len(strOut) \in 0 .. Len(line) /\ curLine - 1 \in 0 .. Len(line)
         /\ Passed + Rest = Total(Len(strOut))
         /\ Passed + Rest <= Total(Len(line)) /\ Total(Len(line)) \in Nat
<1>1. Len(line) \in Nat /\ curLine \in 1 .. Len(line) + 1 /\ curOff \in Nat
  BY LineType DEF Position
<1>2. /\ Len(strOut) \in {curLine - 1, curLine}
      /\ Begun => curLine <= Len(line) /\ curOff <= Len(line[curLine])
  BY DEF Position
<1>3. curLine - 1 \in 0 .. Len(line) /\ Len(line) \in 0 .. Len(line)
  BY <1>1
<1>4. Total(curLine - 1) \in Nat /\ Total(Len(line)) \in Nat
  BY <1>3, TotalNext
<1>5. CASE Begun
  <2>1. /\ curLine - 1 \in 0 .. Len(line) - 1 /\ (curLine - 1) + 1 = curLine
        /\ curLine \in 1 .. Len(line) /\ curLine \in 0 .. Len(line) /\ Len(strOut) = curLine
    BY <1>1, <1>2, <1>5 DEF Begun
  <2>2. Total(curLine) = Total(curLine - 1) + Len(line[curLine]) /\ Len(line[curLine]) \in Nat
    BY <2>1, TotalNext, LineType
  <2>3. Total(curLine) <= Total(Len(line)) /\ Total(curLine) \in Nat
    BY <2>1, TotalGrows, TotalNext
  <2>4. Passed = Total(curLine - 1) + curOff /\ Rest = Len(line[curLine]) - curOff
    BY <1>5 DEF Passed, Rest
  <2>5. curOff <= Len(line[curLine])
    BY <1>2, <1>5
  <2>6. Passed \in Nat /\ Rest \in Nat /\ Passed + Rest = Total(curLine)
    BY <2>2, <2>4, <2>5, <1>1, <1>4
  <2> QED
    BY <2>1, <2>3, <2>6, <1>3, <1>4
<1>6. CASE ~ Begun
  <2>1. Len(strOut) = curLine - 1
    BY <1>2, <1>6 DEF Begun
  <2>2. Total(curLine - 1) <= Total(Len(line))
    BY <1>3, TotalGrows
  <2>3. Passed = Total(curLine - 1) + 0 /\ Rest = 0
    BY <1>6 DEF Passed, Rest
  <2>4. Passed \in Nat /\ Rest \in Nat /\ Passed + Rest = Total(curLine - 1)
    BY <2>3, <1>4
  <2> QED
    BY <2>1, <2>2, <2>4, <1>3, <1>4
<1> QED
  BY <1>5, <1>6

--------------------------------------------------------------------------------
(* Sequences of whatever elements.                                         *)
LEMMA SequenceOf ==
  ASSUME NEW S, NEW s \in Seq(S)
  PROVE  IsSequence(s) /\ Len(s) \in Nat
<1>1. Len(s) \in Nat /\ DOMAIN s = 1 .. Len(s) /\ s = [i \in 1 .. Len(s) |-> s[i]]
  OBVIOUS
<1> DEFINE n == Len(s)
           R == Range(s)
<1>2. \A i \in 1 .. n : s[i] \in R
  BY <1>1 DEF Range
<1> HIDE DEF n, R
<1>3. s \in [1 .. n -> R]
  BY <1>1, <1>2 DEF n
<1>4. s \in Seq(R)
  BY <1>1, <1>3 DEF n
<1> QED
  BY <1>1, <1>4 DEF IsSequence, R

LEMMA SequenceIs ==
  ASSUME NEW n \in Nat, NEW f, f = [i \in 1 .. n |-> f[i]]
  PROVE  IsSequence(f) /\ Len(f) = n
<1> DEFINE R == {f[i] : i \in 1 .. n}
<1>1. f \in [1 .. n -> R]
  OBVIOUS
<1> HIDE DEF R
<1>2. f \in Seq(R) /\ Len(f) = n
  BY <1>1
<1> QED
  BY <1>2, SequenceOf

LEMMA Appended ==
  ASSUME NEW s, IsSequence(s), NEW x
  PROVE  IsSequence(Append(s, x)) /\ Len(Append(s, x)) = Len(s) + 1 /\ Len(s) \in Nat
<1> DEFINE S == Range(s) \cup {x}
<1>1. s \in Seq(S) /\ x \in S
  BY DEF IsSequence
<1> HIDE DEF S
<1>2. Append(s, x) \in Seq(S) /\ Len(Append(s, x)) = Len(s) + 1 /\ Len(s) \in Nat
  BY <1>1
<1> QED
  BY <1>2, SequenceOf

LEMMA Concatenated ==
  ASSUME NEW s, NEW r, IsSequence(s), IsSequence(r)
  PROVE  IsSequence(s \o r) /\ Len(s \o r) = Len(s) + Len(r) /\ Len(s) \in Nat /\ Len(r) \in Nat
<1> DEFINE S == Range(s) \cup Range(r)
<1>1. s \in Seq(S) /\ r \in Seq(S)
  BY DEF IsSequence
<1> HIDE DEF S
<1>2. s \o r \in Seq(S) /\ Len(s \o r) = Len(s) + Len(r) /\ Len(s) \in Nat /\ Len(r) \in Nat
  BY <1>1
<1> QED
  BY <1>2, SequenceOf

--------------------------------------------------------------------------------
(* What stays when its variables do.                                       *)
LEMMA GivenStays ==
  ASSUME Given, UNCHANGED arguments
  PROVE  Given' /\ \A n : Total(n)' = Total(n)
BY DEF Given, arguments, Total, Lengths

LEMMA BatchStays ==
  ASSUME Batch, UNCHANGED <<table, input, inOff, outOff, symbolBase>>,
         pc' \in {"line", "job"} => pc \in {"line", "job"}
  PROVE  Batch' /\ Batched' = Batched
<1>1. \A job, i : Prepared(job, i)' <=> Prepared(job, i)
  BY DEF Prepared, Room, Size
<1>2. Batch'
  BY <1>1 DEF Batch
<1> QED
  BY <1>2 DEF Batched, JobSizes, Size

LEMMA InsideStays ==
  ASSUME UNCHANGED input
  PROVE  \A job : (Inside(job)' <=> Inside(job)) /\ (Running(job)' <=> Running(job))
<1>1. \A job : Inside(job)' <=> Inside(job)
  BY DEF Inside, Start
<1> QED
  BY <1>1 DEF Running

(* Outside the kernel and the copying out there is no job in work.         *)
LEMMA NotAtWork ==
  ASSUME AtWork, pc \in {"line", "job", "fire", "returned"}, UNCHANGED <<kernel, output>>,
         pc' \in {"line", "job", "fire", "returned"}
  PROVE  AtWork'
BY DEF AtWork

LEMMA StartLinePreserves == ASSUME IInv, StartLine PROVE IInv'
<1>0. Given /\ Position /\ Batch /\ AtWork /\ Budget
  BY DEF IInv
<1> DEFINE len == Len(line[curLine])
<1>1. /\ pc = "line" /\ pc' = "job" /\ UNCHANGED arguments
      /\ UNCHANGED <<curLine, input, inOff, outOff, symbolBase, kernel, output, dst, split>>
      /\ strOut' = Append(strOut, NotYet) /\ curOff' = 0 /\ budget' = budget - 2 * len
      /\ curLine <= Len(line) /\ 2 * len + Slack <= budget
  BY DEF StartLine, Fits, Charged
<1>2. ~ Begun /\ Len(strOut) = curLine - 1
  BY <1>0, <1>1 DEF Position, Begun
<1>3. Given' /\ Batch' /\ AtWork' /\ Batched' = Batched /\ \A n : Total(n)' = Total(n)
  BY <1>0, <1>1, GivenStays, BatchStays, NotAtWork DEF arguments
<1>4. Len(line) \in Nat /\ curLine \in 1 .. Len(line) /\ len \in Nat
  BY <1>0, <1>1, LineType DEF Position
<1>5. IsSequence(strOut') /\ Len(strOut') = curLine
  <2>1. IsSequence(strOut') /\ Len(strOut') = Len(strOut) + 1
    BY <1>0, <1>1, Appended DEF Position
  <2> QED
    BY <2>1, <1>2, <1>4
<1>6. Begun'
  BY <1>1, <1>5 DEF Begun
<1>7. Position'
  BY <1>1, <1>4, <1>5, <1>6 DEF Position, arguments
<1>8. Passed' = Passed /\ Rest' = len /\ Rest = 0 /\ Total(curLine) = Total(Len(strOut)) + len
  <2>1. Passed = Total(curLine - 1) /\ Rest = 0 /\ Total(curLine - 1) \in Nat
    <3>1. curLine - 1 \in 0 .. Len(line)
      BY <1>4
    <3> QED
      BY <1>0, <1>2, <3>1, TotalNext DEF Passed, Rest
  <2>2. Passed' = Total(curLine - 1) + 0 /\ Rest' = len - 0
    BY <1>1, <1>3, <1>6 DEF Passed, Rest, arguments
  <2>3. curLine - 1 \in 0 .. Len(line) - 1 /\ (curLine - 1) + 1 = curLine
    BY <1>4
  <2>4. Total(curLine) = Total(curLine - 1) + len
    BY <2>3, <1>0, TotalNext
  <2> QED
    BY <2>1, <2>2, <2>4, <1>2, <1>4
<1> DEFINE spent == Len(dst) + 2 * Batched
<1>9. /\ budget \in Nat /\ IsSequence(dst) /\ spent <= 2 * Passed
      /\ size >= Slack + 2 * Total(Len(line)) => budget + 2 * Total(Len(strOut)) >= size
      /\ ~ split => spent + 2 * Rest + budget <= size
  BY <1>0 DEF Budget
<1>10. /\ spent \in Nat /\ Total(Len(strOut)) \in Nat /\ size \in Nat /\ Slack \in Nat
  <2>1. Len(dst) \in Nat /\ Batched \in Nat /\ size \in Nat /\ Total(Len(strOut)) \in Nat
    BY <1>0, <1>9, SequenceOf, SizesType, LineType, PassedType DEF IsSequence
  <2> QED
    BY <2>1, SIMDAssumption
<1> HIDE DEF len, spent
<1>11. budget' \in Nat /\ budget = budget' + 2 * len
  BY <1>1, <1>4, <1>9, <1>10
<1>12. size >= Slack + 2 * Total(Len(line)) => budget' + 2 * Total(curLine) >= size
  <2>1. \A b, c, l, t, s \in Nat : b + 2 * t >= s /\ b = c + 2 * l => c + 2 * (t + l) >= s
    OBVIOUS
  <2> QED
    BY <2>1, <1>4, <1>8, <1>9, <1>10, <1>11
<1>13. ~ split => spent + 2 * Rest' + budget' <= size
  <2>1. \A p, b, c, l, s \in Nat : p + 2 * 0 + b <= s /\ b = c + 2 * l => p + 2 * l + c <= s
    OBVIOUS
  <2>2. ~ split => spent + 2 * 0 + budget <= size
    BY <1>8, <1>9
  <2>3. ~ split => spent + 2 * len + budget' <= size
    BY <2>1, <2>2, <1>4, <1>9, <1>10, <1>11
  <2> QED
    BY <2>3, <1>8
<1>14. Budget'
  <2>1. spent' = spent
    BY <1>1, <1>3 DEF spent
  <2>2. Total(Len(strOut))' = Total(curLine) /\ Total(Len(line))' = Total(Len(line))
    BY <1>1, <1>3, <1>5 DEF Total, Lengths, arguments
  <2> QED
    BY <1>1, <1>3, <1>8, <1>9, <1>11, <1>12, <1>13, <2>1, <2>2 DEF Budget, spent, arguments
<1> QED
  BY <1>3, <1>7, <1>14 DEF IInv

(* Nothing but work on the jobs of the batch.                              *)
LEMMA BudgetStays ==
  ASSUME Given, Budget, Batched' = Batched,
         UNCHANGED <<line, size, curLine, curOff, budget, dst, strOut, split>>, pc' # "returned"
  PROVE  Budget'
<1>1. Passed' = Passed /\ Rest' = Rest /\ Total(Len(strOut))' = Total(Len(strOut))
      /\ Total(Len(line))' = Total(Len(line))
  BY DEF Passed, Rest, Begun, Total, Lengths
<1> QED
  BY <1>1 DEF Budget

LEMMA Works ==
  ASSUME IInv, UNCHANGED <<arguments, curLine, curOff, input, inOff, outOff, symbolBase, budget,
                           dst, strOut, split>>,
         pc' \in {"fire", "kernel", "finish"}
  PROVE  Given' /\ Position' /\ Batch' /\ Budget'
<1>0. Given /\ Position /\ Batch /\ Budget
  BY DEF IInv
<1>1. Given' /\ Batch' /\ Batched' = Batched
  BY <1>0, GivenStays, BatchStays DEF arguments
<1>2. Position'
  BY <1>0 DEF Position, Begun, arguments
<1>3. Budget'
  BY <1>0, <1>1, BudgetStays DEF arguments
<1> QED
  BY <1>1, <1>2, <1>3

LEMMA StageFullPreserves == ASSUME IInv, StageFull PROVE IInv'
<1>1. pc = "job" /\ pc' = "fire" /\ AtWork /\ UNCHANGED <<kernel, output>>
      /\ UNCHANGED <<arguments, curLine, curOff, input, inOff, outOff, symbolBase, budget,
                     dst, strOut, split>>
  BY DEF StageFull, batch, result, IInv
<1> QED
  BY <1>1, Works, NotAtWork DEF IInv

(* The call returns only when the next string does not fit; with the       *)
(* conservative space every string does.                                   *)
LEMMA ReturnPreserves == ASSUME IInv, Return PROVE IInv'
<1>0. Given /\ Position /\ Batch /\ AtWork /\ Budget
  BY DEF IInv
<1>1. /\ pc = "line" /\ pc' = "returned" /\ ~ Fits(curLine)
      /\ UNCHANGED <<arguments, curLine, curOff, input, inOff, outOff, symbolBase, budget,
                     kernel, output, dst, strOut, split>>
  BY DEF Return, batch, result
<1>2. Given' /\ Batch' /\ AtWork' /\ Batched' = Batched
  BY <1>0, <1>1, GivenStays, BatchStays, NotAtWork DEF arguments
<1>3. Position'
  BY <1>0, <1>1 DEF Position, Begun, arguments
<1>4. ~ Begun /\ Len(strOut) = curLine - 1
  BY <1>0, <1>1 DEF Position, Begun
<1>5. ASSUME size >= Slack + 2 * Total(Len(line)) PROVE curLine = Len(line) + 1
  <2>1. Len(line) \in Nat /\ curLine \in 1 .. Len(line) + 1
    BY <1>0, LineType DEF Position
  <2> SUFFICES ASSUME curLine <= Len(line) PROVE FALSE
    BY <2>1
  <2> DEFINE len == Len(line[curLine])
             before == Total(curLine - 1)
             all == Total(Len(line))
  <2>2. /\ curLine - 1 \in 0 .. Len(line) - 1 /\ (curLine - 1) + 1 = curLine
        /\ curLine \in 1 .. Len(line) /\ curLine \in 0 .. Len(line)
        /\ curLine - 1 \in 0 .. Len(line) /\ Len(line) \in 0 .. Len(line)
    BY <2>1
  <2>3. Total(curLine) = before + len
    BY <1>0, <2>2, TotalNext
  <2>4. before \in Nat /\ all \in Nat /\ Total(curLine) <= all /\ len \in Nat
    BY <1>0, <2>2, TotalNext, TotalGrows, LineType
  <2>5. budget + 2 * before >= size /\ budget \in Nat
    BY <1>0, <1>4, <1>5 DEF Budget
  <2>6. ~ (2 * len + Slack <= budget)
    BY <1>1, <2>2 DEF Fits
  <2>7. size \in Nat /\ Slack \in Nat
    BY <1>0, LineType, SIMDAssumption
  <2>8. size >= Slack + 2 * all
    BY <1>5
  <2> HIDE DEF len, before, all
  <2>9. \A u, v, w, z, s, k \in Nat :
          u + v <= w /\ z + 2 * u >= s /\ s >= k + 2 * w => 2 * v + k <= z
    OBVIOUS
  <2>10. before + len <= all
    BY <2>3, <2>4
  <2> QED
    BY <2>4, <2>5, <2>6, <2>7, <2>8, <2>9, <2>10
<1>6. Passed' = Passed /\ Rest' = Rest /\ Total(Len(strOut))' = Total(Len(strOut))
      /\ Total(Len(line))' = Total(Len(line))
  BY <1>1 DEF Passed, Rest, Begun, Total, Lengths, arguments
<1>7. Budget'
  <2>1. line' = line /\ size' = size
    BY <1>1 DEF arguments
  <2>2. size >= Slack + 2 * Total(Len(line)) =>
          budget + 2 * Total(Len(strOut)) >= size /\ curLine = Len(line) + 1
    BY <1>0, <1>5 DEF Budget
  <2> QED
    BY <1>0, <1>1, <1>2, <1>6, <2>1, <2>2 DEF Budget
<1> QED
  BY <1>2, <1>3, <1>7 DEF IInv

LEMMA FireScalarPreserves == ASSUME IInv, FireScalar PROVE IInv'
<1>0. Given /\ Position /\ Batch /\ AtWork /\ Budget
  BY DEF IInv
<1>1. /\ pc = "fire" /\ pc' = "finish" /\ output' = input
      /\ UNCHANGED <<arguments, curLine, curOff, input, inOff, outOff, symbolBase, budget,
                     kernel, dst, strOut, split>>
  BY DEF FireScalar, batch, result
<1>2. ASSUME NEW k \in DOMAIN input PROVE Inside(input[k]) /\ input[k].pos = k - 1
  <2>1. k \in 1 .. Len(input) /\ k \in Nat
    BY <1>0, SizesType
  <2>2. input[k] \in Job /\ Prepared(input[k], k)
    BY <1>0, <2>1, SizesType
  <2>3. input[k].pos = k - 1 /\ input[k].pos + 1 = k /\ input[k].cur <= input[k].end
    BY <2>1, <2>2 DEF Prepared
  <2>4. Start(input[k]) = input[k]
    BY <2>3 DEF Start
  <2>5. input[k].cur \in Nat /\ input[k].out \in Nat
    BY <2>2 DEF Job
  <2> QED
    BY <2>2, <2>3, <2>4, <2>5 DEF Inside
<1>3. AtWork'
  <2>1. kernel = <<>> /\ input \in Seq(Job)
    BY <1>0, <1>1 DEF AtWork, Batch
  <2>2. \A job : Inside(job)' <=> Inside(job)
    BY <1>1, InsideStays
  <2> QED
    BY <1>1, <1>2, <2>1, <2>2 DEF AtWork
<1> QED
  BY <1>1, <1>3, Works DEF IInv

LEMMA FireKernelPreserves == ASSUME IInv, FireKernel PROVE IInv'
<1>0. Given /\ Position /\ Batch /\ AtWork /\ Budget
  BY DEF IInv
<1> DEFINE k == KernelStart(SubSeq(Ordered, 1, NonEmpty), codeBase)
<1>1. /\ pc = "fire" /\ pc' = "kernel" /\ kernel' = k
      /\ UNCHANGED <<arguments, curLine, curOff, input, inOff, outOff, symbolBase, budget,
                     output, dst, strOut, split>>
  BY DEF FireKernel, batch, result
<1>2. /\ k.jobs = SubSeq(Ordered, 1, NonEmpty) /\ k.next = 0 /\ k.done = <<>>
      /\ k.lane = [l \in Lane |-> Idle] /\ k # <<>>
  <2>1. DOMAIN k = {"jobs", "next", "lane", "done", "mem"}
    BY DEF KernelStart
  <2>2. DOMAIN k # DOMAIN <<>>
    BY <2>1
  <2> QED
    BY <2>2 DEF KernelStart
<1> HIDE DEF k
<1>3. Ordered' = Ordered /\ NonEmpty' = NonEmpty
  BY <1>1 DEF Ordered, NonEmpty, Size, Before
<1>4. NonEmpty \in Nat /\ DOMAIN input = 1 .. Len(input) /\ Len(input) \in Nat
  BY <1>0, SizesType, SortedJobs
<1>5. ASSUME NEW i \in DOMAIN input PROVE \E n \in 0 + 1 .. Len(input) : Ordered[n].pos = i - 1
  <2>1. i \in 1 .. Len(input)
    BY <1>4
  <2>2. PICK n \in 1 .. Len(input) : Ordered[n] = input[i]
    BY <1>0, <2>1, SizesType, SortedJobs
  <2>3. input[i].pos = i - 1
    BY <1>0, <2>1, SizesType DEF Prepared
  <2> QED
    BY <2>2, <2>3
<1>6. InKernel'
  <2>1. \A l \in Lane : k.lane[l] = Idle
    BY <1>2
  <2>2. k.done \in Seq(Job) /\ DOMAIN k.done = {}
    BY <1>2
  <2>3. k.next \in 0 .. NonEmpty
    BY <1>2, <1>4
  <2>4. \A i \in DOMAIN input : \E n \in k.next + 1 .. Len(input) : Ordered[n].pos = i - 1
    BY <1>2, <1>5
  <2> QED
    BY <1>1, <1>2, <1>3, <2>1, <2>2, <2>3, <2>4 DEF InKernel
<1>7. AtWork'
  <2>1. output = <<>>
    BY <1>0, <1>1 DEF AtWork
  <2> QED
    BY <1>1, <1>2, <1>6, <2>1 DEF AtWork
<1> QED
  BY <1>1, <1>7, Works DEF IInv

(* The next chunk.                                                         *)
LEMMA ChunkType ==
  ASSUME Given, Position, Begun
  PROVE  /\ Chunk \in Nat /\ Chunk <= ChunkMax /\ ChunkMax \in Nat
         /\ curOff + Chunk <= Len(line[curLine]) /\ Len(line[curLine]) \in Nat /\ curOff \in Nat
         /\ curLine \in 1 .. Len(line) /\ Len(line) \in Nat
<1>1. /\ curLine \in 1 .. Len(line) /\ Len(line) \in Nat /\ curOff \in Nat
      /\ curOff <= Len(line[curLine])
  BY LineType DEF Position
<1>2. Len(line[curLine]) \in Nat /\ ChunkMax \in Nat
  BY <1>1, LineType, SIMDAssumption
<1> DEFINE rest == Len(line[curLine]) - curOff
<1>3. rest \in Nat
  BY <1>1, <1>2
<1> HIDE DEF rest
<1>4. Min({ChunkMax, rest}) = IF ChunkMax <= rest THEN ChunkMax ELSE rest
  BY <1>2, <1>3 DEF Min
<1>5. Chunk = IF ChunkMax <= rest THEN ChunkMax ELSE rest
  BY <1>4 DEF Chunk, rest
<1>6. Chunk \in Nat /\ Chunk <= ChunkMax /\ Chunk <= rest
  BY <1>2, <1>3, <1>5
<1>7. curOff + Chunk <= Len(line[curLine])
  <2> HIDE DEF Chunk
  <2> QED
    BY <1>1, <1>2, <1>6 DEF rest
<1> QED
  BY <1>1, <1>2, <1>6, <1>7

(* The staging area for the input, before and after a chunk is copied.     *)
LEMMA StagedType ==
  ASSUME Finalized, Given, Position, Begun, Batch, Len(input) < MaxJobs
  PROVE  /\ Staged(Chunk) \in [SymbolIndex -> Byte]
         /\ \A e \in Nat : e < inOff => Staged(Chunk)[e] = symbolBase[e]
         /\ Chunk > 0 => Staged(Chunk)[inOff + Chunk] = table.terminator
         /\ inOff + Chunk + 1 <= (Len(input) + 1) * (ChunkMax + 1)
<1> DEFINE n == Chunk
           c == ChunkMax + 1
           top == MaxJobs * c
<1>1. /\ n \in Nat /\ n <= ChunkMax /\ ChunkMax \in Nat /\ curOff \in Nat
      /\ curOff + n <= Len(line[curLine]) /\ Len(line[curLine]) \in Nat
      /\ curLine \in 1 .. Len(line)
  BY ChunkType
<1>2. line[curLine] \in Seq(Byte)
  BY <1>1, LineType
<1>3. table.terminator \in Byte
  <2>1. PICK b : Ready(b) /\ NSymbols(b) > 0 /\ table = FinalizeTable(b)
    BY DEF Given, Finalized
  <2>2. table.terminator = b.terminator /\ b.terminator \in Byte
    BY <2>1, FinalLimits DEF Ready, Terminated
  <2> QED
    BY <2>2
<1>4. inOff \in Nat /\ Len(input) \in Nat /\ MaxJobs \in Nat /\ c \in Nat
      /\ inOff <= Len(input) * c /\ symbolBase \in [SymbolIndex -> Byte]
  BY <1>1, SIMDAssumption DEF Batch
<1> HIDE DEF n
<1>5. /\ Len(input) * c \in Nat /\ (Len(input) + 1) * c = Len(input) * c + c
      /\ (Len(input) + 1) * c <= MaxJobs * c /\ MaxJobs * c \in Nat
  <2>1. \A a, m, d \in Nat : a < m => /\ a * d \in Nat /\ (a + 1) * d = a * d + d
                                      /\ (a + 1) * d <= m * d /\ m * d \in Nat
    <3>1. ASSUME NEW a \in Nat, NEW m \in Nat, NEW d \in Nat, a < m
          PROVE  /\ a * d \in Nat /\ (a + 1) * d = a * d + d
                 /\ (a + 1) * d <= m * d /\ m * d \in Nat
      <4>1. a + 1 \in Nat /\ a + 1 <= m
        BY <3>1
      <4>2. \A x, y \in Nat : x <= y => x * d <= y * d
        OBVIOUS
      <4>3. (a + 1) * d <= m * d
        BY <4>1, <4>2
      <4> QED
        BY <4>3
    <3> QED
      BY <3>1
  <2> HIDE DEF c
  <2> QED
    BY <1>4, <2>1
<1> HIDE DEF top
<1>6. inOff + n + 1 <= (Len(input) + 1) * c
  <2> DEFINE a == Len(input) * c
             b == (Len(input) + 1) * c
  <2>1. a \in Nat /\ b = a + c /\ inOff <= a
    BY <1>4, <1>5
  <2> HIDE DEF a, b
  <2>2. inOff + n + 1 <= b
    BY <2>1, <1>1, <1>4
  <2> QED
    BY <2>2 DEF b
<1>7. inOff + n + 1 <= top /\ top \in Nat
  <2> DEFINE b == (Len(input) + 1) * c
  <2>1. b \in Nat /\ b <= top /\ top \in Nat
    BY <1>5, <1>4 DEF top
  <2>2. inOff + n + 1 <= b
    BY <1>6
  <2> HIDE DEF b, c
  <2> QED
    BY <2>1, <2>2, <1>1, <1>4
<1>8. SymbolIndex = 0 .. top + MaxLength - 1 /\ MaxLength \in Nat /\ MaxLength >= 3
  BY TableAssumption DEF SymbolIndex, top
<1>9. \A e \in Nat : e <= inOff + n => e \in SymbolIndex
  BY <1>1, <1>4, <1>7, <1>8
<1> DEFINE part(i) == IF n > 0 /\ i \in inOff .. inOff + n - 1 THEN line[curLine][curOff + i - inOff + 1]
                      ELSE IF n > 0 /\ i = inOff + n THEN table.terminator
                      ELSE symbolBase[i]
<1>10. Staged(n) = [i \in SymbolIndex |-> part(i)]
  BY DEF Staged
<1>11. ASSUME NEW i \in SymbolIndex PROVE part(i) \in Byte
  <2>1. CASE n > 0 /\ i \in inOff .. inOff + n - 1
    <3>1. curOff + i - inOff + 1 \in 1 .. Len(line[curLine])
      BY <2>1, <1>1, <1>4
    <3> QED
      BY <2>1, <3>1, <1>2, ElementType
  <2>2. CASE ~ (n > 0 /\ i \in inOff .. inOff + n - 1)
    BY <2>2, <1>3, <1>4
  <2> QED
    BY <2>1, <2>2
<1>12. Staged(n) \in [SymbolIndex -> Byte]
  <2> HIDE DEF part
  <2> QED
    BY <1>10, <1>11
<1>13. ASSUME NEW e \in Nat, e < inOff PROVE Staged(n)[e] = symbolBase[e]
  <2>1. e \in SymbolIndex /\ ~ (e \in inOff .. inOff + n - 1) /\ e # inOff + n
    BY <1>13, <1>1, <1>4, <1>9
  <2>2. part(e) = symbolBase[e]
    BY <2>1
  <2> HIDE DEF part
  <2> QED
    BY <2>1, <2>2, <1>10
<1>14. ASSUME n > 0 PROVE Staged(n)[inOff + n] = table.terminator
  <2> DEFINE e == inOff + n
  <2>1. e \in SymbolIndex /\ ~ (e \in inOff .. inOff + n - 1)
    BY <1>1, <1>4, <1>9
  <2>2. part(e) = table.terminator
    BY <2>1, <1>14
  <2> HIDE DEF part, e
  <2>3. Staged(n)[e] = table.terminator
    BY <2>1, <2>2, <1>10
  <2> QED
    BY <2>3 DEF e
<1> QED
  BY <1>6, <1>12, <1>13, <1>14 DEF n

(* One job more in the batch.                                              *)
LEMMA AddedJob ==
  ASSUME Finalized, Given, Position, Begun, Batch, Len(input) < MaxJobs,
         outOff + Room(Chunk) <= StageMax, UNCHANGED table,
         input' = Append(input, [cur |-> inOff, end |-> inOff + Chunk, pos |-> Len(input), out |-> outOff]),
         outOff' = outOff + Room(Chunk), symbolBase' = Staged(Chunk),
         inOff' = IF Chunk = 0 THEN inOff ELSE inOff + Chunk + 1,
         pc' \in {"line", "job"} => Len(input) + 1 < MaxJobs
  PROVE  Batch' /\ Batched' = Batched + Chunk
<1> DEFINE n == Chunk
           m == Len(input)
           job == [cur |-> inOff, end |-> inOff + n, pos |-> m, out |-> outOff]
<1>1. /\ n \in Nat /\ n <= ChunkMax /\ ChunkMax \in Nat
  BY ChunkType
<1>2. /\ inOff \in Nat /\ outOff \in Nat /\ StageMax \in Nat /\ m \in Nat
      /\ input \in Seq(Job) /\ m < MaxJobs /\ MaxJobs \in Nat /\ Slack \in Nat
  BY SIMDAssumption DEF Batch
<1>3. \A i \in 1 .. m : input[i] \in Job /\ Prepared(input[i], i)
  BY SizesType
<1>4. /\ Staged(n) \in [SymbolIndex -> Byte]
      /\ \A e \in Nat : e < inOff => Staged(n)[e] = symbolBase[e]
      /\ n > 0 => Staged(n)[inOff + n] = table.terminator
      /\ inOff + n + 1 <= (m + 1) * (ChunkMax + 1)
  BY StagedType
<1> HIDE DEF n
<1>5. job \in Job
  BY <1>1, <1>2 DEF Job
<1>6. /\ job.cur = inOff /\ job.end = inOff + n /\ job.pos = m /\ job.out = outOff
      /\ Size(job) = n
  <2>1. job.cur = inOff /\ job.end = inOff + n /\ job.pos = m /\ job.out = outOff
    OBVIOUS
  <2> HIDE DEF job
  <2> QED
    BY <2>1, <1>1, <1>2 DEF Size
<1>7. input' = Append(input, job)
  BY DEF n
<1> HIDE DEF job, m
<1>8. /\ Len(input') = m + 1 /\ input' \in Seq(Job) /\ DOMAIN input' = 1 .. m + 1
      /\ input'[m + 1] = job /\ \A i \in 1 .. m : input'[i] = input[i]
  BY <1>2, <1>5, <1>7 DEF m
<1>9. /\ outOff' = outOff + (2 * n + Slack) /\ outOff' \in Nat /\ outOff' <= StageMax
      /\ outOff <= outOff'
  BY <1>1, <1>2 DEF Room, n
<1>10. /\ inOff' \in Nat /\ inOff <= inOff' /\ inOff' <= (m + 1) * (ChunkMax + 1)
       /\ n > 0 => inOff' = inOff + n + 1
  <2> DEFINE b == (m + 1) * (ChunkMax + 1)
             a == m * (ChunkMax + 1)
  <2>1. inOff <= a /\ a \in Nat /\ b \in Nat /\ a <= b
    <3>1. \A x, y \in Nat : x * y \in Nat /\ (x + 1) * y = x * y + y
      OBVIOUS
    <3>2. ChunkMax + 1 \in Nat /\ inOff <= a
      BY <1>1 DEF Batch, m
    <3>3. a \in Nat /\ b = a + (ChunkMax + 1)
      BY <1>2, <3>1, <3>2
    <3> HIDE DEF a, b
    <3> QED
      BY <3>2, <3>3
  <2>2. inOff + n + 1 <= b
    BY <1>4
  <2> HIDE DEF a, b
  <2>3. inOff' = IF n = 0 THEN inOff ELSE inOff + n + 1
    BY DEF n
  <2>4. inOff' \in Nat /\ inOff <= inOff' /\ inOff' <= b /\ (n > 0 => inOff' = inOff + n + 1)
    BY <2>1, <2>2, <2>3, <1>1, <1>2
  <2> QED
    BY <2>4 DEF b
<1>11. symbolBase' = Staged(n)
  BY DEF n
<1> DEFINE term == table.terminator
<1>12. table'.terminator = term
  OBVIOUS
<1> HIDE DEF term
<1>13. ASSUME NEW i \in 1 .. m, NEW j, j = input[i] PROVE Prepared(j, i)'
  <2>1. Prepared(j, i) /\ j \in Job
    BY <1>3, <1>13
  <2>2. /\ j.pos = i - 1 /\ j.cur <= j.end /\ Size(j) <= ChunkMax
        /\ j.out + Room(Size(j)) <= outOff
        /\ Size(j) > 0 => j.end < inOff /\ symbolBase[j.end] = term
    BY <2>1 DEF Prepared, term
  <2>3. Size(j) \in Nat /\ j.end \in Nat /\ j.out \in Nat
    BY <2>1, <2>2 DEF Job, Size
  <2>4. j.out + Room(Size(j)) <= outOff'
    <3>1. \A x, y, s, u, v \in Nat : x + (2 * y + s) <= u /\ u <= v => x + (2 * y + s) <= v
      OBVIOUS
    <3> QED
      BY <2>2, <2>3, <1>2, <1>9, <3>1 DEF Room
  <2>5. Size(j) > 0 => j.end < inOff'
    BY <2>2, <2>3, <1>2, <1>10
  <2>6. Size(j) > 0 => symbolBase'[j.end] = table'.terminator
    BY <2>2, <2>3, <1>4, <1>11, <1>12
  <2> QED
    BY <2>2, <2>4, <2>5, <2>6 DEF Prepared, Size, Room
<1>14. ASSUME NEW i, i = m + 1, NEW j, j = job PROVE Prepared(j, i)'
  <2>1. j.pos = m /\ j.cur = inOff /\ j.end = inOff + n /\ j.out = outOff /\ Size(j) = n
    BY <1>6, <1>14
  <2>2. j.pos = i - 1 /\ j.cur <= j.end
    BY <1>1, <1>2, <1>14, <2>1
  <2>3. j.out + Room(Size(j)) <= outOff'
    BY <1>1, <1>2, <1>9, <2>1 DEF Room
  <2>4. Size(j) > 0 => j.end < inOff'
    BY <1>1, <1>2, <1>10, <2>1
  <2>5. Size(j) > 0 => symbolBase'[j.end] = table'.terminator
    BY <1>4, <1>11, <1>12, <2>1 DEF term
  <2> QED
    BY <2>1, <2>2, <2>3, <2>4, <2>5, <1>1 DEF Prepared, Size, Room
<1>15. ASSUME NEW i \in 1 .. m + 1 PROVE Prepared(input[i], i)'
  <2>1. ASSUME NEW j, j = input'[i] PROVE Prepared(j, i)'
    <3>1. CASE i \in 1 .. m
      BY <2>1, <3>1, <1>8, <1>13
    <3>2. CASE i = m + 1
      BY <2>1, <3>2, <1>8, <1>14
    <3> QED
      BY <3>1, <3>2, <1>2
  <2> QED
    BY <2>1 DEF Prepared, Size, Room
<1>16. Batch'
  <2>1. Len(input') <= MaxJobs /\ (pc' \in {"line", "job"} => Len(input') < MaxJobs)
    BY <1>2, <1>8 DEF m
  <2>2. symbolBase' \in [SymbolIndex -> Byte]
    BY <1>4, <1>11
  <2>3. \A i \in DOMAIN input' : Prepared(input[i], i)'
    BY <1>8, <1>15
  <2>4. /\ inOff' \in Nat /\ inOff' <= Len(input') * (ChunkMax + 1)
        /\ outOff' \in 0 .. StageMax /\ input' \in Seq(Job)
    BY <1>2, <1>8, <1>9, <1>10
  <2> QED
    BY <2>1, <2>2, <2>3, <2>4 DEF Batch
<1>17. Batched' = Batched + n
  <2>1. /\ \A i \in 1 .. m + 1 : JobSizes'[i] = Size(input'[i])
        /\ \A i \in 1 .. m : JobSizes[i] = Size(input[i]) /\ JobSizes[i] \in Nat
    <3>1. \A i \in 1 .. m : JobSizes[i] = Size(input[i]) /\ JobSizes[i] \in 0 .. ChunkMax
      BY SizesType DEF m
    <3>2. \A x \in 0 .. ChunkMax : x \in Nat
      BY <1>1
    <3>3. JobSizes' = [i \in DOMAIN input' |-> Size(input'[i])]
      BY DEF JobSizes, Size
    <3> QED
      BY <3>1, <3>2, <3>3, <1>8
  <2>2. \A i \in 1 .. m : JobSizes'[i] \in Int /\ JobSizes[i] = JobSizes'[i]
    <3>1. \A i \in 1 .. m : i \in 1 .. m + 1
      BY <1>2
    <3> QED
      BY <2>1, <3>1, <1>8
  <2>3. JobSizes'[m + 1] = n
    <3>1. m + 1 \in 1 .. m + 1
      BY <1>2
    <3> QED
      BY <2>1, <3>1, <1>6, <1>8
  <2>4. \A i \in 1 .. m + 1 : JobSizes'[i] \in Int
    <3>1. \A i \in 1 .. m + 1 : i \in 1 .. m \/ i = m + 1
      BY <1>2
    <3> QED
      BY <2>2, <2>3, <3>1, <1>1
  <2>5. SumFunctionOnSet(JobSizes', 1 .. m + 1)
          = JobSizes'[m + 1] + SumFunctionOnSet(JobSizes', 1 .. m)
    BY <2>4, <1>2, SumNext
  <2>6. SumFunctionOnSet(JobSizes', 1 .. m) = SumFunctionOnSet(JobSizes, 1 .. m)
    <3>1. IsFiniteSet(1 .. m)
      BY <1>2, FS_Interval
    <3> QED
      BY <2>2, <3>1, SumEqual
  <2>7. Batched = SumFunctionOnSet(JobSizes, 1 .. m) /\ Batched \in Nat
    BY SizesType DEF Batched, m
  <2>8. Batched' = SumFunctionOnSet(JobSizes', 1 .. m + 1)
    BY <1>8 DEF Batched
  <2>9. Batched' = n + Batched
    BY <2>3, <2>5, <2>6, <2>7, <2>8
  <2> QED
    BY <2>7, <2>9, <1>1
<1> QED
  BY <1>16, <1>17 DEF n

LEMMA AddJobPreserves == ASSUME Finalized, IInv, AddJob PROVE IInv'
<1>0. Given /\ Position /\ Batch /\ AtWork /\ Budget
  BY DEF IInv
<1> DEFINE n == Chunk
           full == Len(input) + 1 = MaxJobs
           job == [cur |-> inOff, end |-> inOff + n, pos |-> Len(input), out |-> outOff]
<1>1. /\ pc = "job" /\ outOff + Room(n) <= StageMax
      /\ input' = Append(input, job) /\ outOff' = outOff + Room(n) /\ symbolBase' = Staged(n)
      /\ inOff' = (IF n = 0 THEN inOff ELSE inOff + n + 1)
      /\ curOff' = curOff + n
      /\ curLine' = (IF LastChunk /\ ~ full THEN curLine + 1 ELSE curLine)
      /\ pc' = (IF full THEN "fire" ELSE IF ~ LastChunk THEN "job"
                ELSE IF Fits(curLine + 1) THEN "line" ELSE "fire")
      /\ UNCHANGED <<arguments, budget, kernel, output, dst, strOut, split>>
  BY DEF AddJob, result
<1> HIDE DEF job
<1>2. Begun /\ Len(input) < MaxJobs /\ Len(input) \in Nat /\ MaxJobs \in Nat
  BY <1>0, <1>1, SIMDAssumption DEF Position, Batch
<1>3. /\ n \in Nat /\ curOff + n <= Len(line[curLine]) /\ Len(line[curLine]) \in Nat
      /\ curOff \in Nat /\ curLine \in 1 .. Len(line) /\ Len(line) \in Nat
  BY <1>0, <1>2, ChunkType
<1>4. Len(strOut) = curLine
  BY <1>2 DEF Begun
<1>5. pc' \in {"line", "job"} => Len(input) + 1 < MaxJobs
  <2>1. pc' \in {"line", "job"} => ~ full
    BY <1>1
  <2> QED
    BY <2>1, <1>2
<1>6. Batch' /\ Batched' = Batched + n
  <2>1. UNCHANGED table
    BY <1>1 DEF arguments
  <2> QED
    BY <2>1, <1>0, <1>1, <1>2, <1>5, AddedJob DEF job
<1>7. Given' /\ AtWork' /\ \A k : Total(k)' = Total(k)
  <2>1. pc' \in {"line", "job", "fire"}
    BY <1>1
  <2> QED
    BY <2>1, <1>0, <1>1, GivenStays, NotAtWork
<1>8. line' = line /\ size' = size
  BY <1>1 DEF arguments
<1>9. LastChunk <=> curOff + n >= Len(line[curLine])
  BY DEF LastChunk
<1> HIDE DEF n, full
<1>10. ASSUME LastChunk /\ ~ full
       PROVE  Position' /\ Passed' = Passed + n /\ Rest = Rest' + n /\ Rest' \in Nat
  <2>1. curLine' = curLine + 1 /\ pc' \in {"line", "fire"}
    BY <1>1, <1>10
  <2>2. ~ Begun'
    BY <2>1, <1>1, <1>3, <1>4 DEF Begun
  <2>3. Position'
    <3>1. /\ IsSequence(strOut') /\ Len(strOut') = curLine' - 1 /\ curLine' \in 1 .. Len(line') + 1
          /\ curOff' \in Nat
      BY <2>1, <1>0, <1>1, <1>3, <1>4, <1>8 DEF Position
    <3> QED
      BY <2>1, <2>2, <3>1 DEF Position
  <2>4. Passed' = Passed + n /\ Rest = Rest' + n /\ Rest' \in Nat
    <3>1. curOff + n = Len(line[curLine]) /\ curOff' = curOff + n
      BY <1>1, <1>3, <1>9, <1>10
    <3>2. Rest = Len(line[curLine]) - curOff /\ Rest' = 0
      BY <1>2, <2>2 DEF Rest
    <3>3. Passed = Total(curLine - 1) + curOff
      BY <1>2 DEF Passed
    <3>4. (curLine + 1) - 1 = curLine /\ curLine - 1 \in 0 .. Len(line) - 1 /\ (curLine - 1) + 1 = curLine
          /\ curLine - 1 \in 0 .. Len(line)
      BY <1>3
    <3>5. Total(curLine) = Total(curLine - 1) + Len(line[curLine]) /\ Total(curLine - 1) \in Nat
      BY <1>0, <3>4, TotalNext
    <3>6. Passed' = Total(curLine) + 0
      <4>1. Lengths' = Lengths /\ curLine' - 1 = curLine
        BY <2>1, <3>4, <1>8 DEF Lengths
      <4>2. Total(curLine - 1)' = Total(curLine)
        BY <4>1 DEF Total
      <4>3. Passed' = Total(curLine - 1)' + 0
        BY <2>2 DEF Passed
      <4> QED
        BY <4>2, <4>3
    <3> QED
      BY <3>1, <3>2, <3>3, <3>5, <3>6, <1>3
  <2> QED
    BY <2>3, <2>4
<1>11. ASSUME ~ (LastChunk /\ ~ full)
       PROVE  Position' /\ Passed' = Passed + n /\ Rest = Rest' + n /\ Rest' \in Nat
  <2>1. curLine' = curLine /\ pc' \in {"job", "fire"}
    BY <1>1, <1>11
  <2>2. Begun'
    BY <2>1, <1>1, <1>4 DEF Begun
  <2>3. Position'
    <3>1. /\ IsSequence(strOut') /\ Len(strOut') = curLine' /\ curLine' \in 1 .. Len(line') + 1
          /\ curOff' \in Nat /\ curLine' <= Len(line') /\ curOff' <= Len(line'[curLine'])
      BY <2>1, <1>0, <1>1, <1>3, <1>4, <1>8 DEF Position
    <3> QED
      BY <2>1, <2>2, <3>1 DEF Position
  <2>4. Passed' = Passed + n /\ Rest = Rest' + n /\ Rest' \in Nat
    <3>1. curOff' = curOff + n
      BY <1>1
    <3>2. Rest = Len(line[curLine]) - curOff /\ Rest' = Len(line[curLine]) - curOff'
      BY <2>1, <2>2, <1>2, <1>8 DEF Rest
    <3>3. Passed = Total(curLine - 1) + curOff
      BY <1>2 DEF Passed
    <3>4. curLine - 1 \in 0 .. Len(line)
      BY <1>3
    <3>5. Total(curLine - 1) \in Nat
      BY <1>0, <3>4, TotalNext
    <3>6. Passed' = Total(curLine - 1) + curOff'
      <4>1. Lengths' = Lengths /\ curLine' - 1 = curLine - 1
        BY <2>1, <1>8 DEF Lengths
      <4>2. Total(curLine - 1)' = Total(curLine - 1)
        BY <4>1 DEF Total
      <4>3. Passed' = Total(curLine - 1)' + curOff'
        BY <2>2 DEF Passed
      <4> QED
        BY <4>2, <4>3
    <3> QED
      BY <3>1, <3>2, <3>3, <3>5, <3>6, <1>3
  <2> QED
    BY <2>3, <2>4
<1>12. Position' /\ Passed' = Passed + n /\ Rest = Rest' + n /\ Rest' \in Nat
  BY <1>10, <1>11
<1>13. Passed \in Nat /\ Batched \in Nat /\ Len(dst) \in Nat /\ budget \in Nat /\ size \in Nat
  BY <1>0, PassedType, SizesType, SequenceOf, LineType DEF Budget, IsSequence
<1>14. /\ IsSequence(dst) /\ Len(dst) + 2 * Batched <= 2 * Passed
       /\ size >= Slack + 2 * Total(Len(line)) => budget + 2 * Total(Len(strOut)) >= size
       /\ ~ split => Len(dst) + 2 * Batched + 2 * Rest + budget <= size
  BY <1>0 DEF Budget
<1>15. Len(dst) + 2 * Batched' <= 2 * Passed'
  <2>1. \A d, b, p, k \in Nat : d + 2 * b <= 2 * p => d + 2 * (b + k) <= 2 * (p + k)
    OBVIOUS
  <2> QED
    BY <2>1, <1>3, <1>6, <1>12, <1>13, <1>14
<1>16. ~ split => Len(dst) + 2 * Batched' + 2 * Rest' + budget <= size
  <2>1. \A d, b, r, k, u, s \in Nat :
          d + 2 * b + 2 * (r + k) + u <= s => d + 2 * (b + k) + 2 * r + u <= s
    OBVIOUS
  <2>2. ~ split => Len(dst) + 2 * Batched + 2 * (Rest' + n) + budget <= size
    BY <1>12, <1>14
  <2>3. ~ split => Len(dst) + 2 * (Batched + n) + 2 * Rest' + budget <= size
    BY <2>1, <2>2, <1>3, <1>12, <1>13
  <2> QED
    BY <2>3, <1>6
<1>17. Budget'
  <2>1. Total(Len(line))' = Total(Len(line)) /\ Total(Len(strOut))' = Total(Len(strOut))
    BY <1>1, <1>8 DEF Total, Lengths
  <2>2. pc' # "returned"
    BY <1>1
  <2> QED
    BY <2>1, <2>2, <1>1, <1>8, <1>13, <1>14, <1>15, <1>16 DEF Budget
<1> QED
  BY <1>6, <1>7, <1>12, <1>17 DEF IInv

--------------------------------------------------------------------------------
(* The kernel.  The jobs that it is given are the jobs of the batch that   *)
(* are not empty.                                                          *)
LEMMA JobsGiven ==
  ASSUME Batch
  PROVE  /\ Ordered \in Seq(Job) /\ Len(Ordered) = Len(input) /\ Len(input) \in Nat
         /\ NonEmpty \in 0 .. Len(input)
         /\ Len(SubSeq(Ordered, 1, NonEmpty)) = NonEmpty
         /\ \A n \in 1 .. NonEmpty : /\ SubSeq(Ordered, 1, NonEmpty)[n] = Ordered[n]
                                     /\ Running(Ordered[n])
         /\ \A n \in 1 .. Len(input) : Inside(Ordered[n])
<1>1. /\ Len(input) \in Nat /\ DOMAIN input = 1 .. Len(input) /\ JobsNumbered
      /\ \A i \in 1 .. Len(input) : input[i] \in Job /\ Prepared(input[i], i)
  BY SizesType
<1>2. /\ NonEmpty \in 0 .. Len(input) /\ DOMAIN Ordered = 1 .. Len(input)
      /\ \A n \in 1 .. Len(input) : Ordered[n] \in Range(input)
      /\ \A n \in 1 .. NonEmpty : Size(Ordered[n]) > 0
  BY <1>1, SortedJobs
<1>3. ASSUME NEW n \in 1 .. Len(input) PROVE Ordered[n] \in Job /\ Inside(Ordered[n])
  <2>1. PICK i \in 1 .. Len(input) : Ordered[n] = input[i]
    BY <1>1, <1>2 DEF Range
  <2> DEFINE j == input[i]
  <2>2. j \in Job /\ j.pos = i - 1 /\ j.cur <= j.end /\ i \in Nat
    BY <1>1 DEF Prepared
  <2>3. j.pos + 1 = i
    BY <2>2
  <2>4. Start(j) = j /\ j.pos + 1 \in DOMAIN input
    BY <2>3, <1>1 DEF Start
  <2> HIDE DEF j
  <2>5. Inside(j)
    BY <2>2, <2>4 DEF Inside, Job
  <2> QED
    BY <2>1, <2>2, <2>5 DEF j
<1>4. Ordered \in Seq(Job) /\ Len(Ordered) = Len(input)
  <2>1. Ordered = [n \in 1 .. Len(input) |-> Ordered[n]]
    <3> DEFINE pick(n) == CHOOSE j \in Range(input) :
                            Cardinality({k \in Range(input) : Before(k, j)}) = n - 1
    <3>1. Ordered = [n \in 1 .. Len(input) |-> pick(n)]
      BY <1>1, Zenon DEF Ordered
    <3> HIDE DEF pick
    <3> QED
      BY <3>1
  <2> DEFINE f == Ordered
  <2> HIDE DEF f
  <2>2. f = [n \in 1 .. Len(input) |-> f[n]] /\ \A n \in 1 .. Len(input) : f[n] \in Job
    BY <2>1, <1>3 DEF f
  <2>3. f \in Seq(Job) /\ Len(f) = Len(input)
    BY <2>2, <1>1
  <2> QED
    BY <2>3 DEF f
<1>5. ASSUME NEW n \in 1 .. NonEmpty PROVE Running(Ordered[n])
  <2>1. n \in 1 .. Len(input) /\ Size(Ordered[n]) > 0
    BY <1>1, <1>2
  <2>2. Inside(Ordered[n]) /\ Ordered[n] \in Job
    BY <2>1, <1>3
  <2> DEFINE j == Ordered[n]
  <2> HIDE DEF j
  <2>3. j.end - j.cur > 0 /\ j.end \in Nat /\ j.cur \in Nat
    BY <2>1, <2>2 DEF j, Size, Job
  <2> QED
    BY <2>2, <2>3 DEF Running, j
<1>6. /\ Len(SubSeq(Ordered, 1, NonEmpty)) = NonEmpty
      /\ \A n \in 1 .. NonEmpty : SubSeq(Ordered, 1, NonEmpty)[n] = Ordered[n]
  <2> DEFINE f == Ordered
             m == NonEmpty
  <2>1. f \in Seq(Job) /\ m \in 0 .. Len(f)
    BY <1>2, <1>4
  <2> HIDE DEF f, m
  <2>2. Len(SubSeq(f, 1, m)) = m /\ \A n \in 1 .. m : SubSeq(f, 1, m)[n] = f[n]
    BY <2>1
  <2> QED
    BY <2>2 DEF f, m
<1> QED
  BY <1>1, <1>2, <1>3, <1>4, <1>5, <1>6

(* The lanes.                                                              *)
LEMMA LaneType ==
  /\ Lanes \in Nat /\ Lane \in SUBSET Nat /\ IsFiniteSet(Lane)
  /\ \A S \in SUBSET Lane : IsFiniteSet(S) /\ Cardinality(S) \in Nat /\ S \in SUBSET Nat
<1>1. Lanes \in Nat
  BY KernelAssumption DEF Lanes
<1>2. IsFiniteSet(Lane) /\ Lane \in SUBSET Nat
  <2>1. IsFiniteSet(1 .. Lanes)
    BY <1>1, FS_Interval
  <2> QED
    BY <2>1, <1>1 DEF Lane
<1>3. ASSUME NEW S \in SUBSET Lane PROVE IsFiniteSet(S) /\ Cardinality(S) \in Nat /\ S \in SUBSET Nat
  <2> HIDE DEF Lane
  <2>1. IsFiniteSet(S)
    BY <1>2, FS_Subset
  <2> QED
    BY <2>1, <1>2, FS_CardinalityType
<1> QED
  BY <1>1, <1>2, <1>3

(* What an iteration makes of the lanes.                                   *)
MovedLanes(k) ==
  LET job   == Loaded(k)
      found == [l \in Lane |-> FinalLookup(table, WordAt(symbolBase, job[l].cur))]
  IN  [l \in Lane |-> Advanced(job[l], found[l])]

FinishedLanes(k) == {l \in Lane : MovedLanes(k)[l].cur = MovedLanes(k)[l].end}

LEMMA StepFields ==
  ASSUME NEW k, NEW next, next = KernelStep(k, table, symbolBase)
  PROVE  /\ next.jobs = k.jobs
         /\ next.next = k.next + Cardinality(IdleLanes(k))
         /\ next.lane = [l \in Lane |-> IF l \in FinishedLanes(k) THEN Idle ELSE MovedLanes(k)[l]]
         /\ next.done = k.done \o Packed(MovedLanes(k), FinishedLanes(k))
         /\ next # <<>>
<1>1. DOMAIN next = {"jobs", "next", "lane", "done", "mem"}
  BY DEF KernelStep
<1>2. next # <<>>
  <2>1. "mem" \in DOMAIN next
    BY <1>1
  <2>2. "mem" \notin DOMAIN <<>>
    OBVIOUS
  <2> QED
    BY <2>1, <2>2, Zenon
<1>3. /\ next.jobs = k.jobs
      /\ next.next = k.next + Cardinality(IdleLanes(k))
      /\ next.lane = [l \in Lane |-> IF l \in FinishedLanes(k) THEN Idle ELSE MovedLanes(k)[l]]
      /\ next.done = k.done \o Packed(MovedLanes(k), FinishedLanes(k))
  BY Zenon DEF KernelStep, FinishedLanes, MovedLanes
<1> QED
  BY <1>2, <1>3

(* Every lane has a job that is not done, and finds a code of it.          *)
LEMMA LanesMove ==
  ASSUME Finalized, Given, Batch, InKernel, KernelGoesOn(kernel)
  PROVE  /\ kernel.next + Cardinality(IdleLanes(kernel)) \in 0 .. NonEmpty
         /\ kernel.next \in Nat /\ Cardinality(IdleLanes(kernel)) \in Nat
         /\ \A l \in Lane : /\ Running(Loaded(kernel)[l])
                            /\ Inside(MovedLanes(kernel)[l])
                            /\ MovedLanes(kernel)[l].pos = Loaded(kernel)[l].pos
<1> DEFINE c == Cardinality(IdleLanes(kernel))
           place(l) == Cardinality({i \in IdleLanes(kernel) : i <= l})
<1>1. /\ NonEmpty \in Nat
      /\ kernel.jobs = SubSeq(Ordered, 1, NonEmpty)
      /\ Len(kernel.jobs) = NonEmpty
      /\ \A n \in 1 .. NonEmpty : kernel.jobs[n] = Ordered[n] /\ Running(Ordered[n])
  <2>1. kernel.jobs = SubSeq(Ordered, 1, NonEmpty)
    BY DEF InKernel
  <2>2. /\ NonEmpty \in 0 .. Len(input) /\ Len(input) \in Nat
        /\ Len(SubSeq(Ordered, 1, NonEmpty)) = NonEmpty
        /\ \A n \in 1 .. NonEmpty : /\ SubSeq(Ordered, 1, NonEmpty)[n] = Ordered[n]
                                    /\ Running(Ordered[n])
    BY JobsGiven, SizesType
  <2>3. NonEmpty \in Nat
    BY <2>2
  <2> QED
    BY <2>1, <2>2, <2>3, Zenon
<1>2. IdleLanes(kernel) \in SUBSET Lane
  BY DEF IdleLanes
<1>3. /\ c \in Nat /\ kernel.next \in Nat
      /\ \A l \in IdleLanes(kernel) : place(l) \in 1 .. c
  <2>1. IsFiniteSet(IdleLanes(kernel)) /\ c \in Nat /\ IdleLanes(kernel) \in SUBSET Nat
    BY <1>2, LaneType
  <2>2. kernel.next \in Nat
    BY <1>1 DEF InKernel
  <2> QED
    BY <2>1, <2>2, PlacesTaken
<1>4. kernel.next + c < NonEmpty
  BY <1>1 DEF KernelGoesOn
<1> HIDE DEF c, place
<1>5. ASSUME NEW l \in Lane PROVE Running(Loaded(kernel)[l])
  <2>1. CASE l \in IdleLanes(kernel)
    <3>1. place(l) \in 1 .. c
      BY <1>3, <2>1
    <3> DEFINE n == kernel.next + place(l)
    <3>2. n \in 1 .. NonEmpty
      BY <3>1, <1>1, <1>3, <1>4
    <3>3. Loaded(kernel)[l] = kernel.jobs[n]
      BY <2>1 DEF Loaded, place
    <3> HIDE DEF n
    <3> QED
      BY <3>2, <3>3, <1>1
  <2>2. CASE l \notin IdleLanes(kernel)
    <3>1. Loaded(kernel)[l] = kernel.lane[l] /\ kernel.lane[l] # Idle
      BY <2>2 DEF Loaded, IdleLanes
    <3> QED
      BY <3>1 DEF InKernel
  <2> QED
    BY <2>1, <2>2
<1>6. ASSUME NEW l \in Lane
      PROVE  Inside(MovedLanes(kernel)[l]) /\ MovedLanes(kernel)[l].pos = Loaded(kernel)[l].pos
  <2> DEFINE job == Loaded(kernel)[l]
             found == FinalLookup(table, WordAt(symbolBase, job.cur))
  <2>1. MovedLanes(kernel)[l] = Advanced(job, found)
    BY DEF MovedLanes
  <2>2. Running(job)
    BY <1>5
  <2> HIDE DEF job
  <2>3. Inside(Advanced(job, found)) /\ Advanced(job, found).pos = job.pos
    BY <2>2, Advances
  <2> HIDE DEF found
  <2> QED
    BY <2>1, <2>3 DEF job
<1> QED
  BY <1>1, <1>3, <1>4, <1>5, <1>6 DEF c

(* What is in two sequences of jobs, one behind the other.                 *)
HoldsBoth(whole, a, b) ==
  /\ whole \in Seq(Job)
  /\ \A i \in DOMAIN a : i \in DOMAIN whole /\ whole[i] = a[i]
  /\ \A i \in DOMAIN b : \E d \in DOMAIN whole : whole[d] = b[i]
  /\ \A d \in DOMAIN whole : \/ d \in DOMAIN a /\ whole[d] = a[d]
                             \/ \E i \in DOMAIN b : whole[d] = b[i]

LEMMA JoinedJobs ==
  ASSUME NEW a \in Seq(Job), NEW b \in Seq(Job), NEW whole, whole = a \o b
  PROVE  HoldsBoth(whole, a, b)
<1>1. Concatenates(Job, a, b, whole)
  BY ConcatParts
<1>2. /\ whole \in Seq(Job) /\ Len(whole) = Len(a) + Len(b)
      /\ \A i \in 1 .. Len(a) : whole[i] = a[i]
      /\ \A i \in 1 .. Len(b) : whole[Len(a) + i] = b[i]
  BY <1>1 DEF Concatenates
<1>3. /\ DOMAIN a = 1 .. Len(a) /\ DOMAIN b = 1 .. Len(b) /\ DOMAIN whole = 1 .. Len(whole)
      /\ Len(a) \in Nat /\ Len(b) \in Nat
  BY <1>2
<1> DEFINE m == Len(a)
           n == Len(b)
<1> HIDE DEF m, n
<1>4. \A i \in 1 .. m : i \in 1 .. m + n
  BY <1>3 DEF m, n
<1>5. \A i \in 1 .. n : m + i \in 1 .. m + n
  BY <1>3 DEF m, n
<1>6. \A d \in 1 .. m + n : d \in 1 .. m \/ (d - m \in 1 .. n /\ m + (d - m) = d)
  BY <1>3 DEF m, n
<1>7. DOMAIN whole = 1 .. m + n /\ DOMAIN a = 1 .. m /\ DOMAIN b = 1 .. n
  BY <1>2, <1>3 DEF m, n
<1>8. (\A i \in 1 .. m : whole[i] = a[i]) /\ \A i \in 1 .. n : whole[m + i] = b[i]
  BY <1>2 DEF m, n
<1>9. \A i \in DOMAIN b : \E d \in DOMAIN whole : whole[d] = b[i]
  BY <1>5, <1>7, <1>8
<1>10. ASSUME NEW d \in DOMAIN whole
       PROVE  (d \in DOMAIN a /\ whole[d] = a[d]) \/ \E i \in DOMAIN b : whole[d] = b[i]
  BY <1>6, <1>7, <1>8
<1> QED
  BY <1>2, <1>4, <1>7, <1>8, <1>9, <1>10 DEF HoldsBoth

(* A job is not the job of an idle lane if it is not done.                 *)
LEMMA RunningNotIdle == ASSUME NEW job, Running(job) PROVE job # Idle
<1>1. Idle.cur = 0 /\ Idle.end = 0
  BY DEF Idle
<1> HIDE DEF Idle
<1>2. job.cur \in Nat /\ job.end \in Nat /\ job.cur < job.end
  BY DEF Running, Inside, Job
<1> QED
  BY <1>1, <1>2

LEMMA IteratePreserves == ASSUME Finalized, IInv, Iterate PROVE IInv'
<1>0. Given /\ Position /\ Batch /\ AtWork /\ Budget
  BY DEF IInv
<1>1. /\ pc = "kernel" /\ pc' = "kernel" /\ KernelGoesOn(kernel)
      /\ kernel' = KernelStep(kernel, table, symbolBase)
      /\ UNCHANGED <<arguments, curLine, curOff, input, inOff, outOff, symbolBase, budget,
                     output, dst, strOut, split>>
  BY DEF Iterate, batch, result
<1>2. InKernel /\ output = <<>>
  BY <1>0, <1>1 DEF AtWork
<1> DEFINE k == kernel
           c == Cardinality(IdleLanes(k))
           moved == MovedLanes(k)
           done == FinishedLanes(k)
           n == Len(input)
<1>3. /\ kernel'.jobs = k.jobs /\ kernel'.next = k.next + c
      /\ kernel'.lane = [l \in Lane |-> IF l \in done THEN Idle ELSE moved[l]]
      /\ kernel'.done = k.done \o Packed(moved, done)
      /\ kernel' # <<>>
  BY <1>1, StepFields
<1>4. /\ k.next + c \in 0 .. NonEmpty /\ k.next \in Nat /\ c \in Nat
      /\ \A l \in Lane : /\ Running(Loaded(k)[l]) /\ Inside(moved[l])
                         /\ moved[l].pos = Loaded(k)[l].pos
  BY <1>0, <1>1, <1>2, LanesMove
<1>5. /\ k.jobs = SubSeq(Ordered, 1, NonEmpty)
      /\ k.done \in Seq(Job) /\ \A i \in DOMAIN k.done : Inside(k.done[i])
      /\ \A i \in DOMAIN input :
           \/ \E m \in k.next + 1 .. n : Ordered[m].pos = i - 1
           \/ \E l \in Lane : k.lane[l] # Idle /\ k.lane[l].pos = i - 1
           \/ \E d \in DOMAIN k.done : k.done[d].pos = i - 1
  BY <1>2 DEF InKernel
<1>6. /\ NonEmpty \in 0 .. n /\ n \in Nat
      /\ \A m \in 1 .. NonEmpty : k.jobs[m] = Ordered[m]
  BY <1>0, <1>5, JobsGiven
<1>7. done \in SUBSET Lane /\ IdleLanes(k) \in SUBSET Lane
  BY DEF FinishedLanes, IdleLanes
<1>8. \A l \in Lane : l \in done <=> moved[l].cur = moved[l].end
  BY DEF FinishedLanes
<1> DEFINE place(l) == Cardinality({i \in IdleLanes(k) : i <= l})
<1>9. \A m \in 1 .. c : \E l \in IdleLanes(k) : place(l) = m
  <2>1. IdleLanes(k) \in SUBSET Nat /\ IsFiniteSet(IdleLanes(k))
    BY <1>7, LaneType
  <2> QED
    BY <2>1, PlacesTaken
<1>10. \A l \in Lane : /\ l \in IdleLanes(k) => Loaded(k)[l] = k.jobs[k.next + place(l)]
                       /\ l \notin IdleLanes(k) => Loaded(k)[l] = k.lane[l]
  BY DEF Loaded
<1>11. \A l \in Lane : l \in IdleLanes(k) <=> k.lane[l] = Idle
  BY DEF IdleLanes
<1>12. /\ Packed(moved, done) \in Seq(Job)
       /\ \A i \in DOMAIN Packed(moved, done) : \E l \in Lane : Packed(moved, done)[i] = moved[l]
       /\ \A l \in done : \E i \in DOMAIN Packed(moved, done) : Packed(moved, done)[i] = moved[l]
  <2>1. done \in SUBSET Nat /\ IsFiniteSet(done)
    BY <1>7, LaneType
  <2> HIDE DEF moved, done
  <2> DEFINE p == Packed(moved, done)
             w == Cardinality(done)
  <2>2. Stores(p, moved, done, w)
    BY <2>1, PackedLanes
  <2>3. \A l \in done : moved[l] \in Job
    BY <1>4, <1>7 DEF Inside
  <2>4. p \in Seq(Job)
    BY <2>1, <2>3, PackedType
  <2> HIDE DEF p, w
  <2> QED
    BY <2>2, <2>4, <1>7 DEF p, Stores
<1> DEFINE p == Packed(moved, done)
           whole == k.done \o p
<1> HIDE DEF moved, done, p, place, c, n
<1>13. k.done \in Seq(Job) /\ p \in Seq(Job) /\ whole = k.done \o p
  BY <1>5, <1>12 DEF p
<1> HIDE DEF whole
<1>14. /\ whole \in Seq(Job)
       /\ \A i \in DOMAIN k.done : i \in DOMAIN whole /\ whole[i] = k.done[i]
       /\ \A i \in DOMAIN p : \E d \in DOMAIN whole : whole[d] = p[i]
       /\ \A d \in DOMAIN whole : \/ d \in DOMAIN k.done /\ whole[d] = k.done[d]
                                  \/ \E i \in DOMAIN p : whole[d] = p[i]
  <2>1. HoldsBoth(whole, k.done, p)
    BY <1>13, JoinedJobs
  <2> QED
    BY <2>1 DEF HoldsBoth
<1>15. kernel'.done = whole
  BY <1>3 DEF whole, p
<1>16. ASSUME NEW d \in DOMAIN whole PROVE Inside(whole[d])
  <2>1. CASE d \in DOMAIN k.done /\ whole[d] = k.done[d]
    BY <2>1, <1>5
  <2>2. CASE \E i \in DOMAIN p : whole[d] = p[i]
    <3>1. \E l \in Lane : whole[d] = moved[l]
      BY <2>2, <1>12 DEF p
    <3> QED
      BY <3>1, <1>4
  <2> QED
    BY <2>1, <2>2, <1>14
<1>17. ASSUME NEW l \in Lane
       PROVE  /\ l \in done => kernel'.lane[l] = Idle
              /\ l \notin done => kernel'.lane[l] = moved[l] /\ Running(moved[l])
  <2>1. /\ l \in done => kernel'.lane[l] = Idle
        /\ l \notin done => kernel'.lane[l] = moved[l]
    BY <1>3
  <2>2. ASSUME l \notin done PROVE Running(moved[l])
    <3>1. Inside(moved[l]) /\ moved[l].cur # moved[l].end
      BY <1>4, <1>8, <2>2
    <3> QED
      BY <3>1 DEF Running, Inside, Job
  <2> QED
    BY <2>1, <2>2
<1> DEFINE next == k.next + c
<1>18. next \in 0 .. NonEmpty /\ kernel'.next = next
  BY <1>3, <1>4
(* A job that was in a lane is in it still, or done.                       *)
<1>19. ASSUME NEW i, NEW l \in Lane, Loaded(k)[l].pos = i - 1
       PROVE  \/ \E m \in Lane : kernel'.lane[m] # Idle /\ kernel'.lane[m].pos = i - 1
              \/ \E d \in DOMAIN whole : whole[d].pos = i - 1
  <2>1. moved[l].pos = i - 1
    BY <1>4, <1>19
  <2>2. CASE l \in done
    BY <2>1, <2>2, <1>12, <1>14 DEF p
  <2>3. CASE l \notin done
    BY <2>1, <2>3, <1>17, RunningNotIdle
  <2> QED
    BY <2>2, <2>3
<1>20. ASSUME NEW i \in DOMAIN input
       PROVE  \/ \E m \in next + 1 .. n : Ordered[m].pos = i - 1
              \/ \E l \in Lane : kernel'.lane[l] # Idle /\ kernel'.lane[l].pos = i - 1
              \/ \E d \in DOMAIN whole : whole[d].pos = i - 1
  <2>1. CASE \E m \in k.next + 1 .. n : Ordered[m].pos = i - 1
    <3>1. PICK m \in k.next + 1 .. n : Ordered[m].pos = i - 1
      BY <2>1
    <3>2. m \in Nat /\ n \in Nat
      BY <1>4, <1>6
    <3>3. CASE m > next
      <4>1. m \in next + 1 .. n
        BY <3>2, <3>3, <1>4
      <4> QED
        BY <3>1, <4>1
    <3>4. CASE ~ (m > next)
      <4>1. m - k.next \in 1 .. c /\ k.next + (m - k.next) = m /\ m \in 1 .. NonEmpty
        BY <3>2, <3>4, <1>4, <1>6
      <4>2. PICK l \in IdleLanes(k) : place(l) = m - k.next
        BY <4>1, <1>9
      <4>3. l \in Lane /\ Loaded(k)[l] = Ordered[m]
        BY <4>1, <4>2, <1>6, <1>7, <1>10
      <4> QED
        BY <3>1, <4>3, <1>19
    <3> QED
      BY <3>3, <3>4
  <2>2. CASE \E l \in Lane : k.lane[l] # Idle /\ k.lane[l].pos = i - 1
    <3>1. PICK l \in Lane : k.lane[l] # Idle /\ k.lane[l].pos = i - 1
      BY <2>2
    <3>2. Loaded(k)[l] = k.lane[l]
      BY <3>1, <1>10, <1>11
    <3> QED
      BY <3>1, <3>2, <1>19
  <2>3. CASE \E d \in DOMAIN k.done : k.done[d].pos = i - 1
    BY <2>3, <1>14
  <2> QED
    BY <2>1, <2>2, <2>3, <1>5
<1> HIDE DEF next
<1>21. Ordered' = Ordered /\ NonEmpty' = NonEmpty /\ input' = input
  BY <1>1 DEF Ordered, NonEmpty, Size, Before
<1>22. \A job : (Inside(job)' <=> Inside(job)) /\ (Running(job)' <=> Running(job))
  BY <1>21, InsideStays
<1>23. InKernel'
  <2>1. \A l \in Lane : kernel'.lane[l] = Idle \/ Running(kernel'.lane[l])
    BY <1>17
  <2>2. \A l \in Lane : (kernel.lane[l] = Idle \/ Running(kernel.lane[l]))'
    BY <2>1, <1>21 DEF Running, Inside, Start
  <2>3. (\A d \in DOMAIN kernel.done : Inside(kernel.done[d]))'
    BY <1>15, <1>16, <1>21 DEF Inside, Start
  <2> QED
    BY <2>2, <2>3, <1>3, <1>5, <1>14, <1>15, <1>18, <1>20, <1>21 DEF InKernel, n
<1>24. AtWork'
  BY <1>1, <1>2, <1>3, <1>23 DEF AtWork
<1> QED
  BY <1>1, <1>24, Works DEF IInv

--------------------------------------------------------------------------------
(* Rows and columns of numbers.                                            *)
LEMMA DivMod ==
  ASSUME NEW w \in Nat \ {0}, NEW x \in Nat
  PROVE  /\ x \div w \in Nat /\ x % w \in 0 .. w - 1
         /\ x = (x \div w) * w + (x % w)
OBVIOUS

LEMMA DivIs ==
  ASSUME NEW w \in Nat \ {0}, NEW q \in Nat, NEW r \in 0 .. w - 1
  PROVE  (q * w + r) \div w = q /\ (q * w + r) % w = r
<1> DEFINE x == q * w + r
           d == x \div w
           m == x % w
<1>0. x \in Nat
  OBVIOUS
<1> HIDE DEF x
<1>1. d \in Nat /\ m \in 0 .. w - 1 /\ x = d * w + m
  BY <1>0, DivMod
<1> HIDE DEF d, m
<1>2. d * w + m = q * w + r
  BY <1>1 DEF x
<1>3. ~ (d < q)
  <2> SUFFICES ASSUME d + 1 <= q PROVE FALSE
    BY <1>1
  <2>1. (d + 1) * w <= q * w /\ (d + 1) * w = d * w + w
    BY <1>1
  <2>2. d * w \in Nat /\ q * w \in Nat
    BY <1>1
  <2> QED
    BY <1>1, <1>2, <2>1, <2>2
<1>4. ~ (q < d)
  <2> SUFFICES ASSUME q + 1 <= d PROVE FALSE
    BY <1>1
  <2>1. (q + 1) * w <= d * w /\ (q + 1) * w = q * w + w
    BY <1>1
  <2>2. d * w \in Nat /\ q * w \in Nat
    BY <1>1
  <2> QED
    BY <1>1, <1>2, <2>1, <2>2
<1>5. d = q
  BY <1>1, <1>3, <1>4
<1>6. m = r
  <2>1. q * w \in Nat
    OBVIOUS
  <2> QED
    BY <1>1, <1>2, <1>5, <2>1
<1> QED
  BY <1>5, <1>6 DEF d, m, x

(* The order in which the kernel hands the lanes back is an order of all   *)
(* of them.                                                                *)
Backwards(l) == (Groups - 1 - (l - 1) \div Width) * Width + ((l - 1) % Width) + 1

LEMMA BackwardsTwice ==
  ASSUME NEW l \in Lane
  PROVE  Backwards(l) \in Lane /\ Backwards(Backwards(l)) = l
<1> DEFINE q == (l - 1) \div Width
           r == (l - 1) % Width
           p == Groups - 1 - q
<1>1. Groups \in Nat \ {0} /\ Width \in Nat \ {0} /\ l \in 1 .. Groups * Width
  BY KernelAssumption DEF Lane, Lanes
<1>2. l - 1 \in Nat /\ l - 1 < Groups * Width /\ l \in Nat
  <2>1. Groups * Width \in Nat
    BY <1>1
  <2> DEFINE g == Groups * Width
  <2> HIDE DEF g
  <2>2. g \in Nat /\ l \in 1 .. g
    BY <2>1, <1>1 DEF g
  <2>3. l - 1 \in Nat /\ l - 1 < g /\ l \in Nat
    BY <2>2
  <2> QED
    BY <2>3 DEF g
<1>3. q \in Nat /\ r \in 0 .. Width - 1 /\ l - 1 = q * Width + r
  BY <1>1, <1>2, DivMod
<1> HIDE DEF q, r
<1>4. q < Groups
  <2> SUFFICES ASSUME Groups <= q PROVE FALSE
    BY <1>1, <1>3
  <2>1. \A a, b, w \in Nat : a <= b => a * w <= b * w /\ a * w \in Nat /\ b * w \in Nat
    OBVIOUS
  <2>2. Groups * Width <= q * Width /\ Groups * Width \in Nat /\ q * Width \in Nat
    BY <2>1, <1>1, <1>3
  <2> QED
    BY <2>2, <1>2, <1>3, <1>1
<1>5. p \in Nat /\ p < Groups /\ Groups - 1 - p = q
  BY <1>1, <1>3, <1>4
<1> HIDE DEF p
<1>6. p * Width + r \in Nat /\ p * Width + r < Groups * Width
  <2>1. \A w, a, b \in Nat : a < b => a * w + w <= b * w /\ a * w \in Nat /\ b * w \in Nat
    <3>1. ASSUME NEW w \in Nat, NEW a \in Nat, NEW b \in Nat, a < b
          PROVE  a * w + w <= b * w /\ a * w \in Nat /\ b * w \in Nat
      <4>1. (a + 1) * w <= b * w /\ (a + 1) * w = a * w + w
        BY <3>1
      <4> QED
        BY <4>1
    <3> QED
      BY <3>1
  <2>2. p * Width + Width <= Groups * Width /\ p * Width \in Nat /\ Groups * Width \in Nat
    BY <2>1, <1>1, <1>5
  <2> QED
    BY <2>2, <1>1, <1>3
<1> DEFINE i == p * Width + r + 1
<1>7. Backwards(l) = i
  BY DEF Backwards, p, q, r
<1>8. i - 1 = p * Width + r /\ i \in Lane
  <2> DEFINE x == p * Width + r
             g == Groups * Width
  <2>1. x \in Nat /\ x < g /\ g \in Nat
    BY <1>1, <1>6
  <2> HIDE DEF x, g
  <2>2. (x + 1) - 1 = x /\ x + 1 \in 1 .. g
    BY <2>1
  <2> QED
    BY <2>2 DEF x, g, Lane, Lanes
<1>9. (i - 1) \div Width = p /\ (i - 1) % Width = r
  <2>1. i - 1 = p * Width + r
    BY <1>8
  <2>2. Width \in Nat \ {0} /\ p \in Nat /\ r \in 0 .. Width - 1
    BY <1>1, <1>3, <1>5
  <2> HIDE DEF i, p, r
  <2>3. (p * Width + r) \div Width = p /\ (p * Width + r) % Width = r
    BY <2>2, DivIs, Zenon
  <2> QED
    BY <2>1, <2>3, Zenon
<1> HIDE DEF i
<1>10. Backwards(i) = q * Width + r + 1
  BY <1>5, <1>9 DEF Backwards
<1>11. q * Width + r + 1 = l
  <2> DEFINE x == q * Width
  <2>1. x \in Nat /\ l - 1 = x + r
    BY <1>1, <1>3
  <2> HIDE DEF x
  <2>2. x + r + 1 = l
    BY <2>1, <1>1, <1>2, <1>3
  <2> QED
    BY <2>2 DEF x
<1> QED
  BY <1>7, <1>8, <1>10, <1>11

(* What the kernel hands back: the finished jobs, then what is in lanes.   *)
LEMMA HandedBack ==
  ASSUME NEW k, k.done \in Seq(Job), \A l \in Lane : k.lane[l] = Idle \/ k.lane[l] \in Job
  PROVE  /\ KernelOutput(k) \in Seq(Job)
         /\ \A d \in DOMAIN KernelOutput(k) :
              \/ \E i \in DOMAIN k.done : KernelOutput(k)[d] = k.done[i]
              \/ \E l \in Lane : k.lane[l] # Idle /\ KernelOutput(k)[d] = k.lane[l]
         /\ \A i \in DOMAIN k.done : \E d \in DOMAIN KernelOutput(k) : KernelOutput(k)[d] = k.done[i]
         /\ \A l \in Lane : k.lane[l] # Idle =>
              \E d \in DOMAIN KernelOutput(k) : KernelOutput(k)[d] = k.lane[l]
<1> DEFINE from == [i \in Lane |-> k.lane[(Groups - 1 - (i - 1) \div Width) * Width
                                           + ((i - 1) % Width) + 1]]
           S == {i \in Lane : from[i] # Idle}
           p == Packed(from, S)
           whole == KernelOutput(k)
<1>1. \A i \in Lane : from[i] = k.lane[Backwards(i)]
  BY DEF Backwards
<1>2. whole = k.done \o p
  BY DEF KernelOutput
<1> HIDE DEF from
<1>3. S \in SUBSET Lane /\ \A i \in Lane : i \in S <=> from[i] # Idle
  OBVIOUS
<1> HIDE DEF S
<1>4. S \in SUBSET Nat /\ IsFiniteSet(S)
  BY <1>3, LaneType
<1>5. \A i \in S : from[i] \in Job
  BY <1>1, <1>3, BackwardsTwice
<1>6. Stores(p, from, S, Cardinality(S)) /\ p \in Seq(Job)
  BY <1>4, <1>5, PackedLanes, PackedType
<1> DEFINE c == Cardinality(S)
<1> HIDE DEF p, whole, c
<1>7. HoldsBoth(whole, k.done, p)
  BY <1>2, <1>6, JoinedJobs
<1>8. ASSUME NEW i \in DOMAIN p PROVE \E l \in Lane : k.lane[l] # Idle /\ p[i] = k.lane[l]
  <2>1. PICK j \in S : p[i] = from[j]
    BY <1>6 DEF Stores
  <2>2. j \in Lane /\ from[j] # Idle /\ from[j] = k.lane[Backwards(j)]
    BY <2>1, <1>1, <1>3
  <2>3. Backwards(j) \in Lane
    BY <2>2, BackwardsTwice
  <2> QED
    BY <2>1, <2>2, <2>3
<1>9. ASSUME NEW l \in Lane, k.lane[l] # Idle PROVE \E i \in DOMAIN p : p[i] = k.lane[l]
  <2> DEFINE j == Backwards(l)
  <2>1. j \in Lane /\ Backwards(j) = l
    BY BackwardsTwice
  <2> HIDE DEF j
  <2>2. from[j] = k.lane[l] /\ j \in S
    BY <2>1, <1>1, <1>3, <1>9
  <2> QED
    BY <2>2, <1>6 DEF Stores
<1>10. ASSUME NEW d \in DOMAIN whole
       PROVE  \/ \E i \in DOMAIN k.done : whole[d] = k.done[i]
              \/ \E l \in Lane : k.lane[l] # Idle /\ whole[d] = k.lane[l]
  <2>1. \/ d \in DOMAIN k.done /\ whole[d] = k.done[d]
        \/ \E i \in DOMAIN p : whole[d] = p[i]
    BY <1>7 DEF HoldsBoth
  <2> QED
    BY <2>1, <1>8
<1>11. ASSUME NEW l \in Lane, k.lane[l] # Idle PROVE \E d \in DOMAIN whole : whole[d] = k.lane[l]
  <2>1. PICK i \in DOMAIN p : p[i] = k.lane[l]
    BY <1>9, <1>11
  <2>2. PICK d \in DOMAIN whole : whole[d] = p[i]
    BY <1>7 DEF HoldsBoth
  <2> QED
    BY <2>1, <2>2
<1>12. ASSUME NEW i \in DOMAIN k.done PROVE \E d \in DOMAIN whole : whole[d] = k.done[i]
  BY <1>7 DEF HoldsBoth
<1>13. whole \in Seq(Job)
  BY <1>7 DEF HoldsBoth
<1> QED
  BY <1>10, <1>11, <1>12, <1>13 DEF whole

LEMMA KernelReturnPreserves == ASSUME IInv, KernelReturn PROVE IInv'
<1>0. Given /\ Position /\ Batch /\ AtWork /\ Budget
  BY DEF IInv
<1> DEFINE k == kernel
           n == Len(input)
           front == KernelOutput(k)
           tail == SubSeq(Ordered, k.next + 1, n)
           whole == front \o tail
<1>1. /\ pc = "kernel" /\ pc' = "finish" /\ output' = whole /\ kernel' = <<>>
      /\ UNCHANGED <<arguments, curLine, curOff, input, inOff, outOff, symbolBase, budget,
                     dst, strOut, split>>
  BY DEF KernelReturn, batch, result
<1>2. InKernel
  BY <1>0, <1>1 DEF AtWork
<1>3. /\ k.next \in 0 .. NonEmpty
      /\ \A l \in Lane : k.lane[l] = Idle \/ Running(k.lane[l])
      /\ k.done \in Seq(Job) /\ \A i \in DOMAIN k.done : Inside(k.done[i])
      /\ \A i \in DOMAIN input :
           \/ \E m \in k.next + 1 .. n : Ordered[m].pos = i - 1
           \/ \E l \in Lane : k.lane[l] # Idle /\ k.lane[l].pos = i - 1
           \/ \E d \in DOMAIN k.done : k.done[d].pos = i - 1
  BY <1>2 DEF InKernel
<1>4. /\ NonEmpty \in 0 .. n /\ n \in Nat /\ Ordered \in Seq(Job) /\ Len(Ordered) = n
      /\ \A m \in 1 .. n : Inside(Ordered[m])
  BY <1>0, JobsGiven
<1>5. \A l \in Lane : k.lane[l] = Idle \/ (k.lane[l] \in Job /\ Inside(k.lane[l]))
  BY <1>3 DEF Running, Inside
<1>6. /\ front \in Seq(Job)
      /\ \A d \in DOMAIN front :
              \/ \E i \in DOMAIN k.done : front[d] = k.done[i]
              \/ \E l \in Lane : k.lane[l] # Idle /\ front[d] = k.lane[l]
      /\ \A i \in DOMAIN k.done : \E d \in DOMAIN front : front[d] = k.done[i]
      /\ \A l \in Lane : k.lane[l] # Idle => \E d \in DOMAIN front : front[d] = k.lane[l]
  BY <1>3, <1>5, HandedBack
<1> DEFINE x == k.next
           s == Ordered
<1>7. x \in 0 .. n /\ n \in Nat /\ s \in Seq(Job) /\ Len(s) = n
  BY <1>3, <1>4
<1> HIDE DEF x, n, s
<1>8. /\ SubSeq(s, x + 1, n) \in Seq(Job) /\ Len(SubSeq(s, x + 1, n)) = n - x
      /\ \A i \in 1 .. n - x : SubSeq(s, x + 1, n)[i] = s[x + i]
  BY <1>7
<1>9. /\ tail \in Seq(Job) /\ DOMAIN tail = 1 .. n - x
      /\ \A i \in 1 .. n - x : tail[i] = s[x + i]
  BY <1>8 DEF s, n, x
<1> HIDE DEF front, tail
<1>10. HoldsBoth(whole, front, tail)
  BY <1>6, <1>9, JoinedJobs
<1> HIDE DEF whole
<1>11. ASSUME NEW d \in DOMAIN whole PROVE Inside(whole[d])
  <2>1. CASE d \in DOMAIN front /\ whole[d] = front[d]
    BY <2>1, <1>3, <1>5, <1>6
  <2>2. CASE \E i \in DOMAIN tail : whole[d] = tail[i]
    <3>1. PICK i \in 1 .. n - x : whole[d] = tail[i]
      BY <2>2, <1>9
    <3>2. x + i \in 1 .. n /\ whole[d] = s[x + i]
      BY <3>1, <1>7, <1>9
    <3> QED
      BY <3>2, <1>4 DEF n, s
  <2> QED
    BY <2>1, <2>2, <1>10 DEF HoldsBoth
<1>12. ASSUME NEW i, \E d \in DOMAIN front : front[d].pos = i - 1
       PROVE  \E d \in DOMAIN whole : whole[d].pos = i - 1
  BY <1>12, <1>10 DEF HoldsBoth
<1>13. ASSUME NEW i \in DOMAIN input PROVE \E d \in DOMAIN whole : whole[d].pos = i - 1
  <2>1. CASE \E m \in k.next + 1 .. n : Ordered[m].pos = i - 1
    <3>1. PICK m \in x + 1 .. n : s[m].pos = i - 1
      BY <2>1 DEF x, s
    <3>2. m - x \in 1 .. n - x /\ x + (m - x) = m
      BY <1>7
    <3>3. tail[m - x] = s[m] /\ m - x \in DOMAIN tail
      BY <3>2, <1>9
    <3> QED
      BY <3>1, <3>3, <1>10 DEF HoldsBoth
  <2>2. CASE \E l \in Lane : k.lane[l] # Idle /\ k.lane[l].pos = i - 1
    BY <2>2, <1>6, <1>12
  <2>3. CASE \E d \in DOMAIN k.done : k.done[d].pos = i - 1
    BY <2>3, <1>6, <1>12
  <2> QED
    BY <2>1, <2>2, <2>3, <1>3 DEF n
<1>14. AtWork'
  <2>1. (\A d \in DOMAIN output : Inside(output[d]))'
    BY <1>1, <1>11 DEF Inside, Start
  <2>2. whole \in Seq(Job)
    BY <1>10 DEF HoldsBoth
  <2> QED
    BY <2>1, <2>2, <1>1, <1>13 DEF AtWork
<1> QED
  BY <1>1, <1>14, Works DEF IInv

LEMMA FinishCodePreserves == ASSUME Finalized, IInv, FinishCode PROVE IInv'
<1>0. Given /\ Position /\ Batch /\ AtWork /\ Budget
  BY DEF IInv
<1> DEFINE i == Min(Unfinished)
           job == output[i]
           found == FinalLookup(table, WordAt(symbolBase, job.cur))
           moved == Advanced(job, found)
<1>1. /\ pc = "finish" /\ pc' = "finish" /\ Unfinished # {}
      /\ output' = [output EXCEPT ![i] = moved] /\ kernel' = kernel
      /\ UNCHANGED <<arguments, curLine, curOff, input, inOff, outOff, symbolBase, budget,
                     dst, strOut, split>>
  BY DEF FinishCode, batch, result
<1>2. /\ output \in Seq(Job) /\ \A k \in DOMAIN output : Inside(output[k])
      /\ \A a \in DOMAIN input : \E k \in DOMAIN output : output[k].pos = a - 1
      /\ kernel = <<>>
  BY <1>0, <1>1 DEF AtWork
<1>3. DOMAIN output = 1 .. Len(output) /\ Len(output) \in Nat
  BY <1>2
<1>4. i \in DOMAIN output /\ job.cur < job.end
  <2>1. Unfinished \in SUBSET Nat
    BY <1>3 DEF Unfinished
  <2>2. i \in Unfinished
    BY <2>1, <1>1, LeastNat DEF Min
  <2> HIDE DEF i
  <2> QED
    BY <2>2 DEF Unfinished
<1> HIDE DEF i
<1>5. Running(job)
  BY <1>2, <1>4 DEF Running
<1>6. Inside(moved) /\ moved.pos = job.pos
  <2> HIDE DEF job
  <2> QED
    BY <1>0, <1>5, Advances
<1> HIDE DEF found, moved
<1>7. /\ output' \in Seq(Job) /\ DOMAIN output' = DOMAIN output
      /\ \A k \in DOMAIN output : output'[k] = IF k = i THEN moved ELSE output[k]
  <2>1. moved \in Job
    BY <1>6 DEF Inside
  <2> QED
    BY <2>1, <1>1, <1>2, <1>3, <1>4
<1>8. \A k \in DOMAIN output : Inside(output'[k]) /\ output'[k].pos = output[k].pos
  BY <1>2, <1>6, <1>7
<1>9. AtWork'
  <2>1. (\A k \in DOMAIN output : Inside(output[k]))'
    BY <1>1, <1>7, <1>8 DEF Inside, Start
  <2>2. \A a \in DOMAIN input : \E k \in DOMAIN output' : output'[k].pos = a - 1
    BY <1>2, <1>7, <1>8
  <2> QED
    BY <2>1, <2>2, <1>1, <1>2, <1>7 DEF AtWork
<1> QED
  BY <1>1, <1>9, Works DEF IInv

--------------------------------------------------------------------------------
(* The codes of a job are at most twice its bytes.                         *)
LEMMA CodesBound ==
  ASSUME Batch, AtWork, pc = "finish", NEW i \in 1 .. Len(input)
  PROVE  /\ IsSequence(Codes(i)) /\ Codes(i) \in Seq({codeBase[x] : x \in Int})
         /\ Len(Codes(i)) \in Nat /\ Len(Codes(i)) <= 2 * JobSizes[i]
<1> DEFINE job == CHOOSE j \in Range(output) : j.pos = i - 1
           start == input[i]
           m == job.out - start.out
           S == {codeBase[x] : x \in Int}
<1>1. /\ output \in Seq(Job) /\ \A k \in DOMAIN output : Inside(output[k])
      /\ \A a \in DOMAIN input : \E k \in DOMAIN output : output[k].pos = a - 1
  BY DEF AtWork
<1>2. /\ i \in DOMAIN input /\ i \in Nat
      /\ start \in Job /\ JobSizes[i] = Size(start)
  BY SizesType
<1>3. \E j \in Range(output) : j.pos = i - 1
  BY <1>1, <1>2 DEF Range
<1>4. job \in Range(output) /\ job.pos = i - 1
  BY <1>3
<1> HIDE DEF job
<1>5. Inside(job)
  BY <1>1, <1>4 DEF Range
<1>6. Start(job) = start
  <2>1. job.pos + 1 = i
    BY <1>2, <1>4
  <2> QED
    BY <2>1 DEF Start
<1> HIDE DEF start
<1>7. m \in Nat /\ m <= 2 * Size(start)
  <2>1. /\ job \in Job /\ job.end = start.end /\ start.cur <= job.cur /\ job.cur <= job.end
        /\ start.out <= job.out /\ job.out - start.out <= 2 * (job.cur - start.cur)
    BY <1>5, <1>6 DEF Inside
  <2>2. \A c, e, o, d, p \in Nat : d <= c /\ c <= e /\ p <= o /\ o - p <= 2 * (c - d)
                                     => o - p \in Nat /\ o - p <= 2 * (e - d)
    OBVIOUS
  <2>3. /\ job.cur \in Nat /\ job.end \in Nat /\ job.out \in Nat
        /\ start.cur \in Nat /\ start.out \in Nat
    BY <2>1, <1>2 DEF Job
  <2>4. m \in Nat /\ m <= 2 * (job.end - start.cur)
    BY <2>1, <2>2, <2>3
  <2> QED
    BY <2>1, <2>4 DEF Size
<1>8. Codes(i) = [n \in 1 .. m |-> codeBase[start.out + n - 1]]
  BY DEF Codes, job, start
<1>9. \A n \in 1 .. m : start.out + n - 1 \in Int
  BY <1>2, <1>7 DEF Job
<1> HIDE DEF m
<1> DEFINE f == [n \in 1 .. m |-> codeBase[start.out + n - 1]]
<1>10. f \in [1 .. m -> S]
  BY <1>9
<1> HIDE DEF f, S
<1>11. f \in Seq(S) /\ Len(f) = m
  BY <1>7, <1>10
<1>12. Codes(i) = f
  BY <1>8 DEF f
<1>13. IsSequence(Codes(i)) /\ Codes(i) \in Seq(S) /\ Len(Codes(i)) = m
  BY <1>11, <1>12, SequenceOf
<1> QED
  BY <1>2, <1>7, <1>13 DEF S

(* So are the codes of the batch.                                          *)
LEMMA BatchBound ==
  ASSUME Batch, AtWork, pc = "finish",
         NEW codes, codes = FlattenSeq([i \in DOMAIN input |-> Codes(i)])
  PROVE  IsSequence(codes) /\ Len(codes) \in Nat /\ Len(codes) <= 2 * Batched
<1> DEFINE n == Len(input)
           S == {codeBase[x] : x \in Int}
           ss == [i \in DOMAIN input |-> Codes(i)]
           lens == [i \in 1 .. n |-> Len(ss[i])]
           at == [j \in 0 .. n |-> SumFunctionOnSet(lens, 1 .. j)]
           of(j) == SumFunctionOnSet(JobSizes, 1 .. j)
<1>1. n \in Nat /\ DOMAIN input = 1 .. n
  BY SizesType
<1>2. \A i \in 1 .. n : /\ Codes(i) \in Seq(S) /\ Len(Codes(i)) \in Nat
                        /\ Len(Codes(i)) <= 2 * JobSizes[i]
  BY CodesBound
<1>3. \A i \in 1 .. n : JobSizes[i] \in Nat
  <2>1. ChunkMax \in Nat /\ \A i \in 1 .. n : JobSizes[i] \in 0 .. ChunkMax
    BY SizesType, SIMDAssumption
  <2> QED
    BY <2>1
<1> HIDE DEF S, n
<1>4. ss \in Seq(Seq(S)) /\ Len(ss) = n /\ \A i \in 1 .. n : ss[i] = Codes(i)
  <2>1. ss \in [1 .. n -> Seq(S)] /\ \A i \in 1 .. n : ss[i] = Codes(i)
    BY <1>1, <1>2
  <2> HIDE DEF ss
  <2> QED
    BY <2>1, <1>1
<1> HIDE DEF ss
<1>5. \A i \in 1 .. n : lens[i] = Len(ss[i]) /\ lens[i] \in Nat /\ lens[i] <= 2 * JobSizes[i]
  BY <1>2, <1>4
<1> HIDE DEF lens
<1>6. ASSUME NEW j \in 0 .. n PROVE at[j] \in Nat /\ of(j) \in Nat
  <2>1. \A i \in 1 .. j : lens[i] \in Nat /\ JobSizes[i] \in Nat
    BY <1>1, <1>3, <1>5
  <2>2. IsFiniteSet(1 .. j)
    BY <1>1, FS_Interval
  <2>3. SumFunctionOnSet(lens, 1 .. j) \in Nat /\ of(j) \in Nat
    BY <2>1, <2>2, SumNat
  <2> QED
    BY <2>3
<1>7. at[0] = 0 /\ of(0) = 0
  <2>1. 1 .. 0 = {} /\ 0 \in 0 .. n
    BY <1>1
  <2> QED
    BY <2>1, SumOfNone
<1>8. ASSUME NEW j \in 0 .. n - 1
      PROVE  at[j + 1] = at[j] + Len(ss[j + 1]) /\ of(j + 1) = of(j) + JobSizes[j + 1]
             /\ at[j + 1] <= at[j] + 2 * JobSizes[j + 1]
  <2>1. j \in Nat /\ j \in 0 .. n /\ j + 1 \in 0 .. n /\ j + 1 \in 1 .. n
    BY <1>1
  <2>2. \A i \in 1 .. j + 1 : lens[i] \in Int /\ JobSizes[i] \in Int
    BY <2>1, <1>1, <1>3, <1>5
  <2>3. SumFunctionOnSet(lens, 1 .. j + 1) = lens[j + 1] + SumFunctionOnSet(lens, 1 .. j)
    BY <2>1, <2>2, SumNext
  <2>4. SumFunctionOnSet(JobSizes, 1 .. j + 1) = JobSizes[j + 1] + SumFunctionOnSet(JobSizes, 1 .. j)
    BY <2>1, <2>2, SumNext
  <2>5. at[j + 1] = lens[j + 1] + at[j] /\ of(j + 1) = JobSizes[j + 1] + of(j)
    BY <2>1, <2>3, <2>4
  <2>6. /\ at[j] \in Nat /\ of(j) \in Nat /\ lens[j + 1] \in Nat /\ JobSizes[j + 1] \in Nat
        /\ lens[j + 1] = Len(ss[j + 1]) /\ lens[j + 1] <= 2 * JobSizes[j + 1]
    BY <2>1, <1>3, <1>5, <1>6
  <2> HIDE DEF at, of
  <2> QED
    BY <2>5, <2>6
<1>9. at \in [0 .. n -> Nat]
  BY <1>6
<1> HIDE DEF at, of
<1>10. \A i \in 1 .. n : at[i] = at[i - 1] + Len(ss[i])
  <2>1. ASSUME NEW i \in 1 .. n PROVE at[i] = at[i - 1] + Len(ss[i])
    <3>1. i - 1 \in 0 .. n - 1 /\ (i - 1) + 1 = i
      BY <1>1
    <3> QED
      BY <3>1, <1>8
  <2> QED
    BY <2>1
<1>11. at[n] <= 2 * of(n)
  <2> DEFINE T == {j \in Nat : j <= n => at[j] <= 2 * of(j)}
  <2>1. 0 \in T
    BY <1>7
  <2>2. ASSUME NEW j \in Nat, j \in T PROVE j + 1 \in T
    <3> SUFFICES ASSUME j + 1 <= n PROVE at[j + 1] <= 2 * of(j + 1)
      OBVIOUS
    <3>1. j \in 0 .. n - 1 /\ j \in 0 .. n /\ j + 1 \in 0 .. n /\ j + 1 \in 1 .. n
      BY <1>1
    <3>2. at[j] <= 2 * of(j)
      BY <2>2, <3>1
    <3>3. /\ at[j] \in Nat /\ of(j) \in Nat /\ JobSizes[j + 1] \in Nat /\ at[j + 1] \in Nat
      BY <3>1, <1>3, <1>6
    <3>4. of(j + 1) = of(j) + JobSizes[j + 1] /\ at[j + 1] <= at[j] + 2 * JobSizes[j + 1]
      BY <3>1, <1>8
    <3> QED
      BY <3>2, <3>3, <3>4
  <2> HIDE DEF T
  <2>3. n \in T
    BY <2>1, <2>2, <1>1, SetInduction
  <2> QED
    BY <2>3, <1>1 DEF T
<1>12. PartsFound(S, ss, at, FlattenSeq(ss))
  BY <1>4, <1>7, <1>9, <1>10, FlattenParts
<1>13. codes \in Seq(S) /\ Len(codes) = at[n]
  BY <1>4, <1>12 DEF PartsFound, ss
<1>14. of(n) = Batched /\ n \in 0 .. n
  BY <1>1 DEF of, Batched
<1> QED
  BY <1>6, <1>11, <1>13, <1>14, SequenceOf

LEMMA Wraps ==
  ASSUME NEW z \in Nat, NEW s \in Nat, s < z, NEW o \in Nat
  PROVE  (s - o) % z \in Nat /\ (o <= s => (s - o) % z = s - o)
<1> DEFINE x == s - o
<1>1. x \in Int /\ z > 0 /\ (o <= s => x \in 0 .. z - 1)
  OBVIOUS
<1> HIDE DEF x
<1>2. x % z \in 0 .. z - 1
  BY <1>1
<1>3. x \in 0 .. z - 1 => x % z = x
  BY <1>1
<1>4. x % z \in Nat /\ (o <= s => x % z = x)
  BY <1>1, <1>2, <1>3
<1> QED
  BY <1>4 DEF x

LEMMA CopyOutPreserves == ASSUME IInv, CopyOut PROVE IInv'
<1>0. Given /\ Position /\ Batch /\ AtWork /\ Budget
  BY DEF IInv
<1> DEFINE codes == FlattenSeq([i \in DOMAIN input |-> Codes(i)])
           of(l) == {i \in DOMAIN input : jobLine[i] = l}
<1>1. /\ pc = "finish" /\ dst' = dst \o codes
      /\ strOut' = [l \in DOMAIN strOut |->
                      IF strOut[l] = NotYet /\ of(l) # {}
                        THEN Len(dst) + BytesOf(1 .. Min(of(l)) - 1)
                        ELSE strOut[l]]
      /\ budget' = (size - Len(dst')) % SizeRange
      /\ input' = <<>> /\ output' = <<>> /\ inOff' = 0 /\ outOff' = 0
      /\ pc' = (IF Len(strOut) < curLine THEN "line" ELSE "job")
      /\ split' = (split \/ (Len(strOut) = curLine /\ curOff < Len(line[curLine])))
      /\ UNCHANGED <<arguments, curLine, curOff, symbolBase, kernel>>
  BY DEF CopyOut
<1> HIDE DEF of, codes
<1>2. kernel = <<>>
  BY <1>0, <1>1 DEF AtWork
<1>3. IsSequence(codes) /\ Len(codes) \in Nat /\ Len(codes) <= 2 * Batched
  BY <1>0, <1>1, BatchBound DEF codes
<1>4. /\ IsSequence(dst') /\ Len(dst') = Len(dst) + Len(codes) /\ Len(dst) \in Nat
      /\ Batched \in Nat /\ budget \in Nat /\ size \in Nat /\ SizeRange \in Nat /\ size < SizeRange
  BY <1>0, <1>1, <1>3, Concatenated, SizesType, LineType DEF Budget
<1>5. IsSequence(strOut') /\ Len(strOut') = Len(strOut)
  <2>1. strOut \in Seq(Range(strOut))
    BY <1>0 DEF Position, IsSequence
  <2>2. Len(strOut) \in Nat /\ DOMAIN strOut = 1 .. Len(strOut)
    BY <2>1
  <2> DEFINE value(l) == IF strOut[l] = NotYet /\ of(l) # {}
                           THEN Len(dst) + BytesOf(1 .. Min(of(l)) - 1) ELSE strOut[l]
             m == Len(strOut)
             f == strOut'
  <2>3. f = [l \in 1 .. m |-> value(l)] /\ m \in Nat
    BY <1>1, <2>2
  <2> HIDE DEF value, m, f
  <2>4. IsSequence(f) /\ Len(f) = m
    BY <2>3, SequenceIs
  <2> QED
    BY <2>4 DEF f, m
<1>6. Begun' = Begun /\ line' = line /\ size' = size
  BY <1>1, <1>5 DEF Begun, arguments
<1>7. Len(strOut) \in {curLine - 1, curLine} /\ curLine \in Nat
  BY <1>0, LineType DEF Position
<1>8. (pc' = "line" => ~ Begun) /\ (pc' = "job" => Begun) /\ pc' \in {"line", "job"}
  <2>1. pc' = (IF Len(strOut) < curLine THEN "line" ELSE "job")
    BY <1>1
  <2>2. CASE Len(strOut) = curLine - 1
    <3>1. Len(strOut) < curLine /\ Len(strOut) # curLine
      BY <1>7, <2>2
    <3> QED
      BY <2>1, <3>1 DEF Begun
  <2>3. CASE Len(strOut) = curLine
    <3>1. ~ (Len(strOut) < curLine)
      BY <1>7, <2>3
    <3> QED
      BY <2>1, <2>3, <3>1 DEF Begun
  <2> QED
    BY <1>7, <2>2, <2>3
<1>9. Position'
  <2>1. UNCHANGED <<line, curLine, curOff>>
    BY <1>1 DEF arguments
  <2> QED
    BY <1>0, <1>5, <1>6, <1>8, <2>1, Zenon DEF Position
<1>10. Batch' /\ Batched' = 0
  <2>1. MaxJobs \in Nat \ {0} /\ ChunkMax \in Nat /\ StageMax \in Nat
    BY SIMDAssumption
  <2>2. input' \in Seq(Job) /\ Len(input') = 0 /\ DOMAIN input' = {}
    BY <1>1
  <2>3. 0 <= 0 * (ChunkMax + 1)
    BY <2>1
  <2>4. Batch'
    BY <2>1, <2>2, <2>3, <1>0, <1>1 DEF Batch
  <2>5. Batched' = 0
    BY <2>2, SumOfNone DEF Batched
  <2> QED
    BY <2>4, <2>5
<1>11. Given' /\ AtWork'
  BY <1>0, <1>1, <1>2, <1>8, GivenStays DEF AtWork
<1>12. Passed' = Passed /\ Total(Len(line))' = Total(Len(line))
       /\ Total(Len(strOut))' = Total(Len(strOut)) /\ Rest' = Rest
  BY <1>1, <1>5, <1>6 DEF Passed, Rest, Total, Lengths
<1>13. /\ Len(dst) + 2 * Batched <= 2 * Passed
       /\ ~ split => Len(dst) + 2 * Batched + 2 * Rest + budget <= size
  BY <1>0 DEF Budget
<1>14. /\ Passed \in Nat /\ Rest \in Nat /\ Passed + Rest = Total(Len(strOut))
       /\ Passed + Rest <= Total(Len(line)) /\ Total(Len(line)) \in Nat
  BY <1>0, PassedType
<1> DEFINE out == Len(dst')
           before == Total(Len(strOut))
           all == Total(Len(line))
<1>15. out \in Nat /\ out <= Len(dst) + 2 * Batched /\ out <= 2 * Passed
  BY <1>3, <1>4, <1>13, <1>14
<1>16. budget' \in Nat /\ (out <= size => budget' = size - out)
  <2>1. budget' = (size - out) % SizeRange
    BY <1>1
  <2> HIDE DEF out
  <2> QED
    BY <2>1, <1>4, <1>15, Wraps
<1> HIDE DEF out, before, all
<1>17. ASSUME size >= Slack + 2 * all PROVE budget' + 2 * before >= size
  <2>1. \A o, p, r, a, b, s, k \in Nat :
          o <= 2 * p /\ p + r <= a /\ s >= k + 2 * a => o <= s /\ (s - o) + 2 * (p + r) >= s
    OBVIOUS
  <2>2. out <= size /\ (size - out) + 2 * (Passed + Rest) >= size
    BY <2>1, <1>4, <1>14, <1>15, <1>17, SIMDAssumption DEF all
  <2> QED
    BY <2>2, <1>14, <1>16 DEF before
<1>18. ASSUME ~ split' PROVE out + 2 * 0 + 2 * Rest + budget' <= size
  <2>1. ~ split /\ ~ (Len(strOut) = curLine /\ curOff < Len(line[curLine]))
    BY <1>1, <1>18
  <2>2. Rest = 0
    <3>1. CASE Begun
      <4>1. ~ (curOff < Len(line[curLine])) /\ curOff <= Len(line[curLine]) /\ curOff \in Nat
            /\ curLine \in 1 .. Len(line)
        BY <2>1, <3>1, <1>0, <1>7, LineType DEF Begun, Position
      <4>2. Len(line[curLine]) \in Nat
        BY <4>1, <1>0, LineType
      <4>3. Rest = Len(line[curLine]) - curOff
        BY <3>1 DEF Rest
      <4> QED
        BY <4>1, <4>2, <4>3
    <3>2. CASE ~ Begun
      BY <3>2 DEF Rest
    <3> QED
      BY <3>1, <3>2
  <2>3. Len(dst) + 2 * Batched + 2 * 0 + budget <= size
    BY <2>1, <2>2, <1>13
  <2>4. out <= size
    BY <2>3, <1>4, <1>15
  <2> QED
    BY <2>2, <2>4, <1>4, <1>15, <1>16
<1>19. Budget'
  <2>1. out + 2 * Batched' <= 2 * Passed'
    BY <1>10, <1>12, <1>14, <1>15
  <2>2. ~ split' => out + 2 * Batched' + 2 * Rest' + budget' <= size
    BY <1>10, <1>12, <1>18
  <2>3. pc' # "returned"
    BY <1>8
  <2> QED
    BY <2>1, <2>2, <2>3, <1>4, <1>6, <1>12, <1>16, <1>17 DEF Budget, out, before, all
<1> QED
  BY <1>9, <1>10, <1>11, <1>19 DEF IInv

--------------------------------------------------------------------------------
(* The invariant holds of every call.                                      *)
LEMMA InitInv == Init => IInv
<1> SUFFICES ASSUME Init PROVE IInv
  OBVIOUS
<1>1. /\ table \in Tables /\ line \in Inputs(table) /\ size \in Sizes
      /\ pc = "line" /\ curLine = 1 /\ curOff = 0 /\ input = <<>> /\ inOff = 0 /\ outOff = 0
      /\ budget = size /\ kernel = <<>> /\ output = <<>> /\ dst = <<>> /\ strOut = <<>>
  BY DEF Init
<1>2. Given
  BY <1>1 DEF Given
<1>3. Len(line) \in Nat /\ size \in Nat
  BY <1>2, LineType
<1>4. IsSequence(<<>>) /\ Len(<<>>) = 0
  <2>1. <<>> \in Seq({})
    OBVIOUS
  <2> QED
    BY <2>1, SequenceOf
<1>5. ~ Begun
  BY <1>1, <1>4 DEF Begun
<1>6. Position
  BY <1>1, <1>3, <1>4, <1>5 DEF Position
<1>7. symbolBase \in [SymbolIndex -> Byte]
  <2>1. PICK g \in Garbage : symbolBase = [i \in SymbolIndex |-> g]
    BY DEF Init
  <2>2. g \in Byte
    BY SIMDAssumption
  <2> QED
    BY <2>1, <2>2
<1>8. Batch
  <2>1. MaxJobs \in Nat \ {0} /\ ChunkMax \in Nat /\ StageMax \in Nat
    BY SIMDAssumption
  <2>2. input \in Seq(Job) /\ Len(input) = 0 /\ DOMAIN input = {}
    BY <1>1
  <2>3. 0 <= 0 * (ChunkMax + 1)
    BY <2>1
  <2> QED
    BY <2>1, <2>2, <2>3, <1>1, <1>7 DEF Batch
<1>9. AtWork
  BY <1>1 DEF AtWork
<1>10. Budget
  <2>1. Batched = 0
    <3>1. DOMAIN input = {}
      BY <1>1
    <3> QED
      BY <3>1, SumOfNone DEF Batched
  <2>2. Passed = 0 /\ Rest = 0 /\ Total(Len(strOut)) = 0
    <3>1. 1 - 1 = 0 /\ Total(0) = 0
      BY <1>2, TotalNext
    <3> QED
      BY <3>1, <1>1, <1>4, <1>5 DEF Passed, Rest
  <2> QED
    BY <2>1, <2>2, <1>1, <1>3, <1>4 DEF Budget
<1> QED
  BY <1>2, <1>6, <1>8, <1>9, <1>10 DEF IInv

LEMMA NextInv == ASSUME Finalized PROVE IInv /\ [Next]_vars => IInv'
<1> SUFFICES ASSUME IInv, [Next]_vars PROVE IInv'
  OBVIOUS
<1>1. CASE StartLine
  BY <1>1, StartLinePreserves
<1>2. CASE Return
  BY <1>2, ReturnPreserves
<1>3. CASE AddJob
  BY <1>3, AddJobPreserves
<1>4. CASE StageFull
  BY <1>4, StageFullPreserves
<1>5. CASE FireKernel
  BY <1>5, FireKernelPreserves
<1>6. CASE FireScalar
  BY <1>6, FireScalarPreserves
<1>7. CASE Iterate
  BY <1>7, IteratePreserves
<1>8. CASE KernelReturn
  BY <1>8, KernelReturnPreserves
<1>9. CASE FinishCode
  BY <1>9, FinishCodePreserves
<1>10. CASE CopyOut
  BY <1>10, CopyOutPreserves
<1>11. CASE UNCHANGED vars
  <2>1. UNCHANGED <<table, line, size, pc, curLine, curOff, input, inOff, outOff, budget,
                    symbolBase, kernel, output, dst, strOut, split>>
    BY <1>11 DEF vars, arguments, batch, result
  <2>2. Given' /\ Batch' /\ Batched' = Batched
    BY <2>1, GivenStays, BatchStays DEF IInv, arguments
  <2>3. Position'
    BY <2>1 DEF IInv, Position, Begun
  <2>4. AtWork'
    <3>1. AtWork
      BY DEF IInv
    <3>2. Ordered' = Ordered /\ NonEmpty' = NonEmpty
      BY <2>1 DEF Ordered, NonEmpty, Size, Before
    <3>3. ASSUME InKernel PROVE InKernel'
      <4>1. (\A l \in Lane : kernel.lane[l] = Idle \/ Running(kernel.lane[l]))'
        BY <2>1, <3>3 DEF InKernel, Running, Inside, Start
      <4>2. (\A d \in DOMAIN kernel.done : Inside(kernel.done[d]))'
        BY <2>1, <3>3 DEF InKernel, Inside, Start
      <4> QED
        BY <4>1, <4>2, <2>1, <3>2, <3>3 DEF InKernel
    <3>4. ASSUME \A k \in DOMAIN output : Inside(output[k])
          PROVE  (\A k \in DOMAIN output : Inside(output[k]))'
      BY <2>1, <3>4 DEF Inside, Start
    <3> QED
      BY <2>1, <3>1, <3>3, <3>4 DEF AtWork
  <2>5. Budget'
    BY <2>1, <2>2 DEF IInv, Budget, Passed, Rest, Begun, Total, Lengths
  <2> QED
    BY <2>2, <2>3, <2>4, <2>5 DEF IInv
<1> QED
  BY <1>1, <1>2, <1>3, <1>4, <1>5, <1>6, <1>7, <1>8, <1>9, <1>10, <1>11 DEF Next

LEMMA InvAlways == ASSUME Finalized PROVE Spec => []IInv
<1>1. IInv /\ [Next]_vars => IInv'
  BY NextInv
<1> QED
  BY InitInv, <1>1, PTL DEF Spec

(* A job that is inside its room, as a property of the staging areas.      *)
LEMMA RoomKept ==
  ASSUME Batch, NEW job, Inside(job)
  PROVE  LET start == input[job.pos + 1]
         IN  /\ job.cur \in start.cur .. start.end
             /\ job.out - start.out <= 2 * (job.cur - start.cur)
             /\ job.cur < job.end => job.out + ScatterWidth <= start.out + Room(Size(start))
             /\ start.out + Room(Size(start)) <= StageMax
<1> DEFINE start == input[job.pos + 1]
           i == job.pos + 1
<1>1. /\ job \in Job /\ i \in DOMAIN input /\ job.end = start.end
      /\ start.cur <= job.cur /\ job.cur <= job.end
      /\ start.out <= job.out /\ job.out - start.out <= 2 * (job.cur - start.cur)
  BY DEF Inside, Start
<1>2. start \in Job /\ Prepared(start, i)
  BY <1>1, SizesType
<1> HIDE DEF start, i
<1>3. /\ job.cur \in Nat /\ job.end \in Nat /\ job.out \in Nat
      /\ start.cur \in Nat /\ start.end \in Nat /\ start.out \in Nat
      /\ Slack \in Nat /\ ScatterWidth \in Nat /\ ScatterWidth <= Slack + 2
      /\ StageMax \in Nat /\ outOff \in Nat /\ outOff <= StageMax
  BY <1>1, <1>2, SIMDAssumption, KernelAssumption DEF Job, Batch
<1>4. job.cur \in start.cur .. start.end
  BY <1>1, <1>3
<1>5. Room(Size(start)) = 2 * (start.end - start.cur) + Slack
  BY DEF Room, Size
<1>6. ASSUME job.cur < job.end
      PROVE  job.out + ScatterWidth <= start.out + (2 * (start.end - start.cur) + Slack)
  <2>1. \A c, e, o, d, p, w, s \in Nat :
          c < e /\ d <= c /\ o - p <= 2 * (c - d) /\ w <= s + 2 => o + w <= p + (2 * (e - d) + s)
    OBVIOUS
  <2> QED
    BY <2>1, <1>1, <1>3, <1>6
<1>7. start.out + Room(Size(start)) <= StageMax
  <2>1. start.out + Room(Size(start)) <= outOff
    BY <1>2 DEF Prepared
  <2>2. Room(Size(start)) \in Int
    BY <1>3, <1>5
  <2> QED
    BY <2>1, <2>2, <1>3
<1> QED
  BY <1>1, <1>4, <1>5, <1>6, <1>7 DEF start, i

(* A lane never passes the end of its chunk and never writes beyond the    *)
(* room of its job, and the staging areas hold every batch: for any number *)
(* of lanes and jobs, any chunks, and any areas as large as the code has.  *)
THEOREM StagingInsideAlways == ASSUME Finalized PROVE Spec => []StagingInside
<1>1. IInv => StagingInside
  <2> SUFFICES ASSUME IInv PROVE StagingInside
    OBVIOUS
  <2>0. Given /\ Position /\ Batch /\ AtWork
    BY DEF IInv
  <2>1. inOff <= MaxJobs * (ChunkMax + 1)
    <3>1. /\ Len(input) \in Nat /\ Len(input) <= MaxJobs /\ inOff \in Nat
          /\ inOff <= Len(input) * (ChunkMax + 1)
      BY <2>0 DEF Batch
    <3>2. MaxJobs \in Nat /\ ChunkMax + 1 \in Nat
      BY SIMDAssumption
    <3> DEFINE c == ChunkMax + 1
    <3> HIDE DEF c
    <3>3. \A x, y, z \in Nat : x <= y => x * z <= y * z /\ x * z \in Nat /\ y * z \in Nat
      OBVIOUS
    <3>4. c \in Nat /\ inOff <= Len(input) * c
      BY <3>1, <3>2 DEF c
    <3>5. /\ Len(input) * c <= MaxJobs * c /\ Len(input) * c \in Nat /\ MaxJobs * c \in Nat
      BY <3>1, <3>2, <3>3, <3>4
    <3>6. inOff <= MaxJobs * c
      BY <3>1, <3>4, <3>5
    <3> QED
      BY <3>6 DEF c
  <2>2. ASSUME NEW job \in Active PROVE Inside(job)
    <3>1. CASE pc = "kernel"
      <4>1. kernel # <<>> /\ InKernel
        BY <3>1, <2>0 DEF AtWork
      <4> QED
        BY <4>1, <2>2 DEF Active, InKernel, Range, Running
    <3>2. CASE pc # "kernel"
      <4>1. kernel = <<>>
        BY <3>2, <2>0 DEF AtWork
      <4>2. job \in Range(output)
        BY <4>1, <2>2 DEF Active
      <4>3. pc = "finish"
        BY <4>2, <2>0 DEF AtWork, Range
      <4> QED
        BY <4>2, <4>3, <2>0 DEF AtWork, Range
    <3> QED
      BY <3>1, <3>2
  <2> QED
    BY <2>0, <2>1, <2>2, RoomKept DEF StagingInside
<1> QED
  BY InvAlways, <1>1, PTL

(* With the conservative space of fsst.h every string is compressed, and   *)
(* within the buffer, whatever the batches.                                *)
THEOREM ConservativeSpaceAlways == ASSUME Finalized PROVE Spec => []ConservativeSpace
<1>1. IInv => ConservativeSpace
  <2> SUFFICES ASSUME IInv PROVE ConservativeSpace
    OBVIOUS
  <2>0. Given /\ Position /\ Batch /\ Budget
    BY DEF IInv
  <2>1. /\ Passed \in Nat /\ Rest \in Nat /\ Batched \in Nat /\ Len(dst) \in Nat /\ Slack \in Nat
        /\ Passed + Rest <= Total(Len(line)) /\ Total(Len(line)) \in Nat /\ size \in Nat
        /\ Len(dst) + 2 * Batched <= 2 * Passed
    BY <2>0, PassedType, SizesType, LineType, SequenceOf, SIMDAssumption DEF Budget, IsSequence
  <2>2. DOMAIN line = 1 .. Len(line)
    BY <2>0, LineType
  <2>3. SumFunctionOnSet([l \in DOMAIN line |-> Len(line[l])], DOMAIN line) = Total(Len(line))
    BY <2>2 DEF Total, Lengths
  <2> DEFINE all == Total(Len(line))
  <2>4. size >= Slack + 2 * all => (pc = "returned" => curLine = Len(line) + 1)
    BY <2>0 DEF Budget
  <2> HIDE DEF all
  <2>5. size >= Slack + 2 * all => Len(dst) <= size
    <3>1. \A d, b, p, r, a, s, k \in Nat :
            d + 2 * b <= 2 * p /\ p + r <= a /\ s >= k + 2 * a => d <= s
      OBVIOUS
    <3> QED
      BY <2>1, <3>1 DEF all
  <2> QED
    BY <2>3, <2>4, <2>5 DEF ConservativeSpace, all
<1> QED
  BY InvAlways, <1>1, PTL

(* With any space, the output stays within the buffer as long as no batch  *)
(* ends inside a string.                                                   *)
THEOREM InBoundsUnlessSplitAlways == ASSUME Finalized PROVE Spec => []InBoundsUnlessSplit
<1>1. IInv => InBoundsUnlessSplit
  <2> SUFFICES ASSUME IInv, ~ split PROVE Len(dst) <= size
    BY DEF InBoundsUnlessSplit
  <2>0. Given /\ Position /\ Batch /\ Budget
    BY DEF IInv
  <2>1. Rest \in Nat /\ Batched \in Nat /\ Len(dst) \in Nat /\ size \in Nat /\ budget \in Nat
    BY <2>0, PassedType, SizesType, LineType, SequenceOf DEF Budget, IsSequence
  <2>2. Len(dst) + 2 * Batched + 2 * Rest + budget <= size
    BY <2>0 DEF Budget
  <2> HIDE DEF Rest, Batched
  <2> QED
    BY <2>1, <2>2
<1> QED
  BY InvAlways, <1>1, PTL

(***************************************************************************)
(* Byte compatibility.  The greedy codes of a chunk, from each of its      *)
(* bytes on.                                                               *)
(***************************************************************************)
Fitting(t, s, p) == {i \in DOMAIN t.symbols : IsPrefix(t.symbols[i], SubSeq(s, p, Len(s)))}
LongestAt(t, s, p) ==
  CHOOSE i \in Fitting(t, s, p) :
    \A j \in Fitting(t, s, p) : Len(t.symbols[j]) <= Len(t.symbols[i])

GreedyStep(t, s, f, p) ==
  IF p > Len(s) THEN <<>>
  ELSE IF Fitting(t, s, p) = {} THEN <<ESC, s[p]>> \o f[p + 1]
  ELSE <<LongestAt(t, s, p) - 1>> \o f[p + Len(t.symbols[LongestAt(t, s, p)])]

GreedyFrom(t, s) ==
  CHOOSE f : f = [p \in 1 .. Len(s) + 1 |->
    IF p > Len(s) THEN <<>>
    ELSE IF Fitting(t, s, p) = {} THEN <<ESC, s[p]>> \o f[p + 1]
    ELSE <<LongestAt(t, s, p) - 1>> \o f[p + Len(t.symbols[LongestAt(t, s, p)])]]

(* The recursive function of GreedyCodes.                                  *)
LEMMA GreedyIsFrom ==
  ASSUME NEW s
  PROVE  GreedyCodes(s) = GreedyFrom(table, s)[1]
BY Zenon DEF GreedyCodes, GreedyFrom, Fitting, LongestAt

(* The longest symbol that fits is a symbol, and not longer than the rest. *)
LEMMA LongestFits ==
  ASSUME NEW t, t.symbols \in Seq(Symbol), NEW s \in Seq(Byte), NEW p \in 1 .. Len(s),
         Fitting(t, s, p) # {}
  PROVE  LET i == LongestAt(t, s, p)
         IN  /\ i \in Fitting(t, s, p)
             /\ \A j \in Fitting(t, s, p) : Len(t.symbols[j]) <= Len(t.symbols[i])
             /\ Len(t.symbols[i]) \in Nat /\ Len(t.symbols[i]) >= 1
             /\ p + Len(t.symbols[i]) <= Len(s) + 1
<1> DEFINE F == Fitting(t, s, p)
           rest == SubSeq(s, p, Len(s))
           T == {Len(s) - Len(t.symbols[i]) : i \in F}
<1>1. Len(s) \in Nat /\ rest \in Seq(Byte) /\ Len(rest) = Len(s) - p + 1 /\ p \in Nat /\ p >= 1
  OBVIOUS
<1>2. ASSUME NEW i \in F
      PROVE  /\ Len(t.symbols[i]) \in Nat /\ Len(t.symbols[i]) >= 1
             /\ Len(t.symbols[i]) <= Len(s) - p + 1
  <2>1. i \in DOMAIN t.symbols /\ IsPrefix(t.symbols[i], rest)
    BY <1>2 DEF Fitting
  <2>2. t.symbols[i] \in Symbol
    BY <2>1
  <2>3. t.symbols[i] \in Seq(Byte) /\ Len(t.symbols[i]) \in 1 .. MaxLength
    BY <2>2, SymbolIsSeq
  <2>4. Len(t.symbols[i]) \in Nat /\ Len(t.symbols[i]) >= 1
    BY <2>3, TableAssumption
  <2> HIDE DEF rest
  <2>5. Len(t.symbols[i]) <= Len(rest)
    BY <2>1, <2>3, <1>1, PrefixElements
  <2> QED
    BY <2>4, <2>5, <1>1
<1> HIDE DEF rest, F
<1>3. T \in SUBSET Nat /\ T # {}
  <2>1. \A i \in F : Len(s) - Len(t.symbols[i]) \in Nat
    BY <1>1, <1>2
  <2>2. F # {}
    BY DEF F
  <2> QED
    BY <2>1, <2>2
<1>4. PICK x \in T : \A y \in T : x <= y
  BY <1>3, LeastNat
<1>5. PICK i \in F : x = Len(s) - Len(t.symbols[i])
  BY <1>4
<1>6. ASSUME NEW j \in F PROVE Len(t.symbols[j]) <= Len(t.symbols[i])
  <2>1. Len(s) - Len(t.symbols[i]) <= Len(s) - Len(t.symbols[j])
    BY <1>4, <1>5
  <2>2. Len(t.symbols[j]) \in Nat /\ Len(t.symbols[i]) \in Nat
    BY <1>2
  <2> QED
    BY <1>1, <2>1, <2>2
<1>7. /\ LongestAt(t, s, p) \in F
      /\ \A j \in F : Len(t.symbols[j]) <= Len(t.symbols[LongestAt(t, s, p)])
  BY <1>6, Zenon DEF LongestAt, F
<1>8. /\ Len(t.symbols[LongestAt(t, s, p)]) \in Nat /\ Len(t.symbols[LongestAt(t, s, p)]) >= 1
      /\ Len(t.symbols[LongestAt(t, s, p)]) <= Len(s) - p + 1
  BY <1>7, <1>2
<1>9. p + Len(t.symbols[LongestAt(t, s, p)]) <= Len(s) + 1
  BY <1>8, <1>1
<1> QED
  BY <1>7, <1>8, <1>9 DEF F

(* It exists.                                                              *)
LEMMA GreedyExists ==
  ASSUME NEW t, t.symbols \in Seq(Symbol), NEW s \in Seq(Byte)
  PROVE  \A p \in 1 .. Len(s) + 1 :
           GreedyFrom(t, s)[p] = GreedyStep(t, s, GreedyFrom(t, s), p)
<1> DEFINE n == Len(s)
           D == 1 .. n + 1
           Step(f, p) == GreedyStep(t, s, f, p)
           T == {m \in Nat : \E f : f = [p \in D |-> f[p]] /\
                               \A p \in D : p > n + 1 - m => f[p] = Step(f, p)}
<1>0. n \in Nat
  OBVIOUS
<1>1. 0 \in T
  <2> DEFINE f == [p \in D |-> 0]
  <2>1. f = [p \in D |-> f[p]] /\ \A p \in D : ~ (p > n + 1 - 0)
    BY <1>0
  <2> HIDE DEF f, Step
  <2> QED
    BY <2>1
<1>2. ASSUME NEW m \in Nat, m \in T PROVE m + 1 \in T
  <2>1. PICK f : f = [p \in D |-> f[p]] /\ \A p \in D : p > n + 1 - m => f[p] = Step(f, p)
    BY <1>2
  <2> DEFINE g == [p \in D |-> Step(f, p)]
  <2>2. \A p \in D : g[p] = Step(f, p)
    BY Zenon
  <2>3. \A p \in D : p > n + 1 - m => g[p] = f[p]
    <3> HIDE DEF Step, g
    <3> QED
      BY <2>1, <2>2
  <2>4. g = [p \in D |-> g[p]]
    OBVIOUS
  <2> HIDE DEF g
  <2>5. ASSUME NEW p \in D, p > n + 1 - (m + 1) PROVE g[p] = Step(g, p)
    <3>1. CASE p > n
      <4>1. Step(g, p) = Step(f, p)
        BY <3>1 DEF GreedyStep
      <4> QED
        BY <4>1, <2>2
    <3>2. CASE ~ (p > n) /\ Fitting(t, s, p) = {}
      <4>1. p + 1 \in D /\ p + 1 > n + 1 - m
        BY <2>5, <3>2, <1>0
      <4>2. g[p + 1] = f[p + 1]
        BY <4>1, <2>3
      <4>3. Step(g, p) = Step(f, p)
        BY <4>2, <3>2, Zenon DEF GreedyStep
      <4> QED
        BY <4>3, <2>2
    <3>3. CASE ~ (p > n) /\ Fitting(t, s, p) # {}
      <4> DEFINE k == Len(t.symbols[LongestAt(t, s, p)])
      <4>0. p \in 1 .. Len(s)
        BY <3>3, <1>0
      <4>1. k \in Nat /\ k >= 1 /\ p + k <= n + 1
        BY <4>0, <3>3, LongestFits
      <4> HIDE DEF k
      <4>2. p + k \in D /\ p + k > n + 1 - m
        BY <2>5, <4>1, <1>0
      <4>3. g[p + k] = f[p + k]
        BY <4>2, <2>3
      <4>4. Step(g, p) = Step(f, p)
        BY <4>3, <3>3, Zenon DEF GreedyStep, k
      <4> QED
        BY <4>4, <2>2
    <3> QED
      BY <3>1, <3>2, <3>3
  <2> HIDE DEF Step, D
  <2>6. \E h : h = [p \in D |-> h[p]] /\ \A p \in D : p > n + 1 - (m + 1) => h[p] = Step(h, p)
    BY <2>4, <2>5, Zenon
  <2>7. m + 1 \in Nat
    OBVIOUS
  <2> QED
    BY <2>6, <2>7, Zenon
<1>3. n + 1 \in T
  <2> HIDE DEF T
  <2>1. n + 1 \in Nat
    BY <1>0
  <2> QED
    BY <1>1, <1>2, <2>1, SetInduction
<1>4. PICK f : f = [p \in D |-> f[p]] /\ \A p \in D : p > n + 1 - (n + 1) => f[p] = Step(f, p)
  BY <1>3
<1>5. f = [p \in D |-> Step(f, p)]
  <2> DEFINE g == [p \in D |-> Step(f, p)]
  <2>1. g = [p \in D |-> g[p]] /\ \A p \in D : g[p] = Step(f, p)
    BY Zenon
  <2> HIDE DEF g, Step
  <2>2. \A p \in D : p > n + 1 - (n + 1)
    BY <1>0
  <2>3. \A p \in D : f[p] = g[p]
    BY <1>4, <2>1, <2>2
  <2>4. f = [p \in D |-> f[p]]
    BY <1>4
  <2>5. f = g
    BY <2>1, <2>3, <2>4
  <2> QED
    BY <2>5 DEF g
<1>6. GreedyFrom(t, s) = [p \in D |-> Step(GreedyFrom(t, s), p)]
  BY <1>5, Zenon DEF GreedyFrom, GreedyStep
<1> HIDE DEF Step
<1>7. \A p \in D : GreedyFrom(t, s)[p] = Step(GreedyFrom(t, s), p)
  BY <1>6, Zenon
<1> QED
  BY <1>7 DEF Step

(* They are codes; behind the last byte there are none.                    *)
LEMMA GreedyType ==
  ASSUME NEW t, t.symbols \in Seq(Symbol), NEW s \in Seq(Byte)
  PROVE  /\ \A p \in 1 .. Len(s) + 1 : GreedyFrom(t, s)[p] \in Seq(Nat)
         /\ GreedyFrom(t, s)[Len(s) + 1] = <<>>
<1> DEFINE n == Len(s)
           D == 1 .. n + 1
           F == GreedyFrom(t, s)
           T == {m \in Nat : \A p \in D : p > n - m => F[p] \in Seq(Nat)}
<1>0. n \in Nat
  OBVIOUS
<1>1. \A p \in D : F[p] = GreedyStep(t, s, F, p)
  BY GreedyExists
<1> HIDE DEF F
<1>2. \A p \in D : p > n => F[p] = <<>>
  BY <1>1 DEF GreedyStep
<1>3. 0 \in T
  <2>1. <<>> \in Seq(Nat)
    OBVIOUS
  <2>2. n - 0 = n
    BY <1>0
  <2> QED
    BY <1>2, <2>1, <2>2
<1>4. ASSUME NEW m \in Nat, m \in T PROVE m + 1 \in T
  <2>1. \A p \in D : p > n - m => F[p] \in Seq(Nat)
    BY <1>4
  <2>2. ASSUME NEW p \in D, p > n - (m + 1) PROVE F[p] \in Seq(Nat)
    <3>1. CASE p > n
      <4>1. F[p] = <<>>
        BY <3>1, <1>2
      <4> QED
        BY <4>1
    <3>2. CASE ~ (p > n) /\ Fitting(t, s, p) = {}
      <4>1. p + 1 \in D /\ p + 1 > n - m /\ p \in 1 .. Len(s)
        BY <2>2, <3>2, <1>0
      <4>2. F[p + 1] \in Seq(Nat)
        BY <4>1, <2>1
      <4>3. s[p] \in Byte
        BY <4>1
      <4>4. s[p] \in Nat /\ ESC \in Nat
        <5>1. CodeBase \in Nat /\ CodeBase >= 1 /\ Byte \subseteq 0 .. CodeBase - 1
          BY TableAssumption
        <5>2. s[p] \in 0 .. CodeBase - 1
          BY <4>3, <5>1
        <5> QED
          BY <5>1, <5>2 DEF ESC
      <4>5. <<ESC, s[p]>> \in Seq(Nat)
        BY <4>4
      <4>6. F[p] = <<ESC, s[p]>> \o F[p + 1]
        BY <3>2, <1>1 DEF GreedyStep
      <4> QED
        BY <4>2, <4>5, <4>6
    <3>3. CASE ~ (p > n) /\ Fitting(t, s, p) # {}
      <4> DEFINE i == LongestAt(t, s, p)
                 k == Len(t.symbols[i])
      <4>0. p \in 1 .. Len(s)
        BY <3>3, <1>0
      <4>1. k \in Nat /\ k >= 1 /\ p + k <= n + 1 /\ i \in Fitting(t, s, p)
        BY <4>0, <3>3, LongestFits
      <4>2. F[p] = <<i - 1>> \o F[p + k]
        BY <3>3, <1>1, Zenon DEF GreedyStep
      <4>3. i \in DOMAIN t.symbols
        BY <4>1, Zenon DEF Fitting
      <4> HIDE DEF k, i
      <4>4. p + k \in D /\ p + k > n - m
        BY <2>2, <4>1, <1>0
      <4>5. F[p + k] \in Seq(Nat)
        BY <4>4, <2>1
      <4>6. i - 1 \in Nat
        BY <4>3
      <4>7. <<i - 1>> \in Seq(Nat)
        BY <4>6
      <4> QED
        BY <4>2, <4>5, <4>7
    <3> QED
      BY <3>1, <3>2, <3>3
  <2> QED
    BY <2>2
<1>5. n \in T
  <2> HIDE DEF T
  <2> QED
    BY <1>0, <1>3, <1>4, SetInduction
<1>6. \A p \in D : p > n - n
  BY <1>0
<1>7. n + 1 \in D /\ n + 1 > n
  BY <1>0
<1> QED
  BY <1>2, <1>5, <1>6, <1>7 DEF F

(* The symbols of a finished table are distinct.                           *)
LEMMA FinalDistinct ==
  ASSUME NEW t, Ready(t), NSymbols(t) > 0, NEW u, u = FinalizeTable(t),
         NEW a \in DOMAIN u.symbols, NEW b \in DOMAIN u.symbols, u.symbols[a] = u.symbols[b]
  PROVE  a = b
<1>1. /\ DOMAIN u.symbols = DOMAIN t.symbols /\ u.symbols \in Seq(Symbol)
      /\ NSymbols(u) = NSymbols(t)
      /\ \A i \in DOMAIN t.symbols : u.symbols[NewCode(t)[i] + 1] = t.symbols[i]
  BY FinalSymbols
<1>2. NSymbols(t) \in Nat /\ DOMAIN t.symbols = 1 .. NSymbols(t)
  <2>1. Len(u.symbols) \in Nat /\ DOMAIN u.symbols = 1 .. Len(u.symbols)
    BY <1>1
  <2> QED
    BY <2>1, <1>1 DEF NSymbols
<1>3. a - 1 \in 0 .. NSymbols(t) - 1 /\ b - 1 \in 0 .. NSymbols(t) - 1 /\ a \in Nat /\ b \in Nat
  BY <1>1, <1>2
<1>4. PICK i \in DOMAIN t.symbols : NewCode(t)[i] = a - 1
  BY <1>3, CodesOnto
<1>5. PICK j \in DOMAIN t.symbols : NewCode(t)[j] = b - 1
  BY <1>3, CodesOnto
<1>6. t.symbols[i] = u.symbols[a] /\ t.symbols[j] = u.symbols[b]
  <2>1. NewCode(t)[i] + 1 = a /\ NewCode(t)[j] + 1 = b
    BY <1>3, <1>4, <1>5
  <2> QED
    BY <2>1, <1>1
<1>7. Agrees(t)
  BY DEF Ready
<1>8. i = j
  BY <1>6, <1>7, SymbolsDistinct
<1> QED
  BY <1>3, <1>4, <1>5, <1>8

(* Of two parts of s from one place on, of the same length.                *)
LEMMA SamePrefix ==
  ASSUME NEW S, NEW s \in Seq(S), NEW x \in Seq(S), NEW y \in Seq(S),
         IsPrefix(x, s), IsPrefix(y, s), Len(x) = Len(y)
  PROVE  x = y
<1>1. /\ \A i \in 1 .. Len(x) : x[i] = s[i]
      /\ \A i \in 1 .. Len(y) : y[i] = s[i]
  BY PrefixElements
<1> QED
  BY <1>1, SameElements

(* What a lookup finds is the next of the greedy codes.                    *)
NextCodes(t, s, p, found, b, m) ==
  /\ found.len \in 1 .. m
  /\ CodesOf(found, b) \in Seq(Nat)
  /\ GreedyFrom(t, s)[p] = CodesOf(found, b) \o GreedyFrom(t, s)[p + found.len]

(* So it is in the word at a place of the chunk.                           *)
LEMMA GreedyNext ==
  ASSUME Finalized, NEW t \in Tables, NEW s \in Seq(Byte), NEW p \in 1 .. Len(s),
         NEW word \in [1 .. MaxLength -> Byte], NEW m \in 1 .. MaxLength,
         m <= Len(s) - p + 1, m = MaxLength \/ m = Len(s) - p + 1,
         m < MaxLength => word[m + 1] = t.terminator,
         \A k \in 1 .. m : word[k] = s[p + k - 1]
  PROVE  NextCodes(t, s, p, FinalLookup(t, word), word[1], m)
<1>1. PICK b : Ready(b) /\ NSymbols(b) > 0 /\ NoneAcross(b) /\ t = FinalizeTable(b)
  BY DEF Finalized
<1> DEFINE found == FinalLookup(t, word)
           r == SubSeq(word, 1, m)
           rest == SubSeq(s, p, Len(s))
           F == GreedyFrom(t, s)
           bytes == CodesOf(found, word[1])
<1>2. b.terminator = t.terminator /\ t.symbols \in Seq(Symbol)
  BY <1>1, FinalLimits, FinalSymbols
<1>3. /\ r \in Symbol /\ Len(r) = m /\ m \in Nat /\ m >= 1 /\ MaxLength \in Nat
      /\ \A i \in 1 .. m : r[i] = word[i]
  BY TableAssumption, FirstBytes
<1>4. PICK text : Chosen(t, r, bytes, text) /\ Len(text) = found.len
  <2>1. /\ Ready(b) /\ NSymbols(b) > 0 /\ NoneAcross(b) /\ t = FinalizeTable(b)
        /\ word \in [1 .. MaxLength -> Byte] /\ m \in 1 .. MaxLength
        /\ m < MaxLength => word[m + 1] = b.terminator
    BY <1>1, <1>2
  <2> QED
    BY ONLY <2>1, LookupChooses
<1>5. /\ Len(s) \in Nat /\ rest \in Seq(Byte) /\ Len(rest) = Len(s) - p + 1 /\ p \in Nat /\ p >= 1
      /\ \A k \in 1 .. Len(rest) : rest[k] = s[p + k - 1]
  OBVIOUS
<1>6. r \in Seq(Byte)
  BY <1>3, SymbolIsSeq
<1> HIDE DEF r, rest, bytes, found
<1>7. /\ text \in Seq(Byte) /\ Len(text) \in Nat /\ Len(text) >= 1 /\ Len(text) <= m
  BY <1>2, <1>3, <1>4, ChosenPrefix
<1>8. ASSUME NEW k \in 1 .. m PROVE r[k] = rest[k]
  <2>1. k \in 1 .. Len(rest)
    BY <1>3, <1>5
  <2>2. r[k] = word[k] /\ word[k] = s[p + k - 1]
    BY <1>3
  <2>3. rest[k] = s[p + k - 1]
    BY <2>1, <1>5
  <2> QED
    BY <2>2, <2>3
<1>9. ASSUME NEW i \in DOMAIN t.symbols
      PROVE  /\ t.symbols[i] \in Seq(Byte) /\ Len(t.symbols[i]) \in Nat
             /\ IsPrefix(t.symbols[i], r) <=> i \in Fitting(t, s, p)
  <2>1. t.symbols[i] \in Symbol
    BY <1>2
  <2> DEFINE x == t.symbols[i]
  <2>2. x \in Seq(Byte) /\ Len(x) \in 1 .. MaxLength
    BY <2>1, SymbolIsSeq
  <2>3. Len(x) \in Nat /\ Len(x) <= MaxLength
    BY <2>2, <1>3
  <2> HIDE DEF x
  <2>4. IsPrefix(x, r) <=> Len(x) <= m /\ \A k \in 1 .. Len(x) : x[k] = r[k]
    <3>1. IsPrefix(x, r) <=> Len(x) <= Len(r) /\ \A k \in 1 .. Len(x) : x[k] = r[k]
      BY <2>2, <1>6, PrefixElements
    <3> QED
      BY <3>1, <1>3
  <2>5. IsPrefix(x, rest) <=> Len(x) <= Len(rest) /\ \A k \in 1 .. Len(x) : x[k] = rest[k]
    BY <2>2, <1>5, PrefixElements
  <2>6. Len(x) <= m <=> Len(x) <= Len(rest)
    BY <2>3, <1>5, <1>3
  <2>7. Len(x) <= m => \A k \in 1 .. Len(x) : r[k] = rest[k]
    <3>1. Len(x) <= m => \A k \in 1 .. Len(x) : k \in 1 .. m
      BY <2>3, <1>3
    <3> QED
      BY <3>1, <1>8
  <2>8. IsPrefix(x, r) <=> IsPrefix(x, rest)
    BY <2>4, <2>5, <2>6, <2>7
  <2>9. i \in Fitting(t, s, p) <=> IsPrefix(x, rest)
    BY DEF Fitting, x, rest
  <2> QED
    BY <2>2, <2>3, <2>8, <2>9 DEF x
<1>10. F[p] = GreedyStep(t, s, F, p) /\ ~ (p > Len(s))
  <2>1. p \in 1 .. Len(s) + 1 /\ ~ (p > Len(s))
    BY <1>5
  <2> QED
    BY <2>1, <1>2, GreedyExists
<1> HIDE DEF F
<1>11. CASE \E i \in DOMAIN t.symbols :
              bytes = <<i - 1>> /\ text = t.symbols[i] /\ IsPrefix(text, r) /\ Longest(t, r, text)
  <2>1. PICK i \in DOMAIN t.symbols :
              bytes = <<i - 1>> /\ text = t.symbols[i] /\ IsPrefix(text, r) /\ Longest(t, r, text)
    BY <1>11
  <2> DEFINE j == LongestAt(t, s, p)
  <2>2. i \in Fitting(t, s, p)
    BY <2>1, <1>9
  <2>3. /\ j \in Fitting(t, s, p)
        /\ \A k \in Fitting(t, s, p) : Len(t.symbols[k]) <= Len(t.symbols[j])
    BY <2>2, <1>2, LongestFits
  <2>4. F[p] = <<j - 1>> \o F[p + Len(t.symbols[j])]
    BY <2>2, <1>10, Zenon DEF GreedyStep
  <2> HIDE DEF j
  <2>5. j \in DOMAIN t.symbols
    BY <2>3 DEF Fitting
  <2>6. IsPrefix(t.symbols[j], r) /\ t.symbols[j] \in Seq(Byte) /\ Len(t.symbols[j]) \in Nat
    BY <2>3, <2>5, <1>9
  <2>7. Len(t.symbols[j]) <= Len(text)
    BY <2>1, <2>5, <2>6 DEF Longest, Range
  <2>8. Len(text) <= Len(t.symbols[j])
    BY <2>1, <2>2, <2>3
  <2>9. Len(text) = Len(t.symbols[j])
    BY <2>6, <2>7, <2>8, <1>7
  <2>10. t.symbols[i] = t.symbols[j]
    BY <2>1, <2>6, <2>9, <1>6, <1>7, SamePrefix
  <2>11. i = j
    BY <2>5, <2>10, <1>1, FinalDistinct
  <2>12. i - 1 \in Nat
    BY <2>1, <1>2
  <2>13. bytes \in Seq(Nat)
    BY <2>1, <2>12
  <2> QED
    BY <2>1, <2>4, <2>9, <2>11, <2>13, <1>4, <1>7, <1>3 DEF NextCodes, bytes, F, found
<1>12. CASE /\ bytes = <<ESC, r[1]>> /\ text = <<r[1]>>
            /\ \A x \in Range(t.symbols) : ~ IsPrefix(x, r)
  <2>1. Fitting(t, s, p) = {}
    <3>1. \A i \in DOMAIN t.symbols : i \notin Fitting(t, s, p)
      BY <1>9, <1>12 DEF Range
    <3> QED
      BY <3>1 DEF Fitting
  <2>2. F[p] = <<ESC, s[p]>> \o F[p + 1]
    BY <2>1, <1>10 DEF GreedyStep
  <2>3. r[1] = s[p] /\ r[1] \in Byte
    <3>1. 1 \in 1 .. m /\ p + 1 - 1 = p /\ p \in 1 .. Len(s)
      BY <1>3, <1>5
    <3>2. r[1] = s[p + 1 - 1]
      BY <3>1, <1>3
    <3> QED
      BY <3>1, <3>2
  <2>4. r[1] \in Nat /\ ESC \in Nat
    <3>1. CodeBase \in Nat /\ CodeBase >= 1 /\ Byte \subseteq 0 .. CodeBase - 1
      BY TableAssumption
    <3>2. r[1] \in 0 .. CodeBase - 1
      BY <2>3, <3>1
    <3> QED
      BY <3>1, <3>2 DEF ESC
  <2>5. bytes \in Seq(Nat)
    BY <2>4, <1>12
  <2>6. Len(text) = 1
    BY <1>12
  <2>7. found.len = 1 /\ found.len \in 1 .. m
    BY <2>6, <1>4, <1>3
  <2>8. F[p] = bytes \o F[p + found.len]
    BY <2>2, <2>3, <2>7, <1>12
  <2> QED
    BY <2>5, <2>7, <2>8 DEF NextCodes, bytes, F, found
<1> QED
  BY <1>11, <1>12, <1>4 DEF Chosen

(* The chunk of the i-th job, as it lies in the staging area, and the text *)
(* that its codes should be.                                               *)
ChunkOf(i)  == [k \in 1 .. Size(input[i]) |-> symbolBase[input[i].cur + k - 1]]
CodesFor(i) == GreedyCodes(ChunkOf(i))

(* What has been written for a job are the first of the greedy codes of    *)
(* its chunk, and those for the rest of the chunk are what is missing.     *)
EmittedOf(from, start, mem, job) ==
  LET codes == from[1]
      rest  == from[job.cur - start.cur + 1]
      d     == job.out - start.out
  IN  /\ Len(codes) = d + Len(rest)
      /\ \A n \in 1 .. d : mem[start.out + n - 1] = codes[n]
      /\ \A n \in 1 .. Len(rest) : codes[d + n] = rest[n]

Emitted(mem, job) ==
  EmittedOf(GreedyFrom(table, ChunkOf(job.pos + 1)), Start(job), mem, job)

(* The symbols of a finished table are symbols.                            *)
LEMMA TablesTyped ==
  ASSUME Finalized, NEW t \in Tables
  PROVE  t.symbols \in Seq(Symbol)
BY FinalSymbols DEF Finalized

(* The bytes of a chunk.                                                   *)
LEMMA ChunkIs ==
  ASSUME Batch, NEW i \in 1 .. Len(input)
  PROVE  /\ ChunkOf(i) \in Seq(Byte) /\ Len(ChunkOf(i)) = Size(input[i]) /\ Size(input[i]) \in Nat
         /\ \A k \in 1 .. Size(input[i]) : ChunkOf(i)[k] = symbolBase[input[i].cur + k - 1]
         /\ input[i] \in Job /\ input[i].end = input[i].cur + Size(input[i])
         /\ \A k \in 1 .. Size(input[i]) :
              /\ input[i].cur + k - 1 \in SymbolIndex /\ input[i].cur + k - 1 < inOff
<1> DEFINE job == input[i]
           z == Size(input[i])
           top == MaxJobs * (ChunkMax + 1)
<1>1. job \in Job /\ Prepared(job, i)
  BY ElementType DEF Batch
<1>2. /\ job.cur \in Nat /\ job.end \in Nat /\ job.cur <= job.end /\ z = job.end - job.cur
      /\ z > 0 => job.end < inOff
  BY <1>1 DEF Job, Prepared, Size
<1>3. z \in Nat /\ job.end = job.cur + z
  BY <1>2
<1>4. inOff \in Nat /\ inOff <= top /\ top \in Nat
  <2>1. Len(input) \in Nat /\ Len(input) <= MaxJobs /\ inOff \in Nat /\ inOff <= Len(input) * (ChunkMax + 1)
    BY DEF Batch
  <2>2. MaxJobs \in Nat /\ ChunkMax + 1 \in Nat
    BY SIMDAssumption
  <2>3. \A x, y, w \in Nat : x <= y => x * w <= y * w
    OBVIOUS
  <2>4. Len(input) * (ChunkMax + 1) <= MaxJobs * (ChunkMax + 1)
    BY <2>1, <2>2, <2>3
  <2>5. MaxJobs * (ChunkMax + 1) \in Nat /\ Len(input) * (ChunkMax + 1) \in Nat
    BY <2>1, <2>2
  <2> QED
    BY <2>1, <2>4, <2>5
<1>5. symbolBase \in [0 .. top + MaxLength - 1 -> Byte] /\ MaxLength \in Nat /\ MaxLength >= 3
      /\ SymbolIndex = 0 .. top + MaxLength - 1
  BY TableAssumption DEF Batch, SymbolIndex
<1> HIDE DEF job, z, top
<1>6. ASSUME NEW k \in 1 .. z
      PROVE  job.cur + k - 1 \in 0 .. top + MaxLength - 1 /\ job.cur + k - 1 < inOff
  BY <1>2, <1>3, <1>4, <1>5
<1>7. \A k \in 1 .. z : symbolBase[job.cur + k - 1] \in Byte
  BY <1>5, <1>6
<1>8. ChunkOf(i) = [k \in 1 .. z |-> symbolBase[job.cur + k - 1]]
  BY DEF ChunkOf, job, z
<1>9. ChunkOf(i) \in Seq(Byte) /\ Len(ChunkOf(i)) = z
  BY <1>3, <1>7, <1>8
<1>10. \A k \in 1 .. z : ChunkOf(i)[k] = symbolBase[job.cur + k - 1]
  BY <1>8
<1> QED
  BY <1>1, <1>3, <1>5, <1>6, <1>9, <1>10 DEF job, z

(* A job of which nothing has been done.                                   *)
LEMMA EmittedNone ==
  ASSUME Finalized, Given, Batch, NEW i \in 1 .. Len(input), NEW mem
  PROVE  Emitted(mem, input[i])
<1> DEFINE s == ChunkOf(i)
<1>1. s \in Seq(Byte) /\ input[i] \in Job /\ input[i].pos + 1 = i
  BY ChunkIs, ElementType DEF Batch, Prepared
<1>2. Start(input[i]) = input[i]
  BY <1>1 DEF Start
<1>3. input[i].cur \in Nat /\ input[i].out \in Nat
  BY <1>1 DEF Job
<1>4. input[i].cur - input[i].cur + 1 = 1 /\ input[i].out - input[i].out = 0
  BY <1>3
<1> DEFINE F == GreedyFrom(table, s)
<1>5. Len(F[1]) \in Nat
  <2>1. 1 \in 1 .. Len(s) + 1
    BY <1>1
  <2>2. table.symbols \in Seq(Symbol)
    BY TablesTyped DEF Given
  <2>3. F[1] \in Seq(Nat)
    BY <2>1, <2>2, <1>1, GreedyType
  <2> QED
    BY <2>3
<1> HIDE DEF F
<1>6. GreedyFrom(table, ChunkOf(input[i].pos + 1)) = F
  BY <1>1 DEF F
<1>7. /\ input[i].cur - Start(input[i]).cur + 1 = 1
      /\ input[i].out - Start(input[i]).out = 0
  BY <1>2, <1>4
<1>8. /\ Len(F[1]) = 0 + Len(F[1])
      /\ \A n \in 1 .. 0 : mem[Start(input[i]).out + n - 1] = F[1][n]
      /\ \A n \in 1 .. Len(F[1]) : F[1][0 + n] = F[1][n]
  BY <1>5
<1> QED
  BY <1>6, <1>7, <1>8 DEF Emitted, EmittedOf

(* A job that is done, to the last code.                                   *)
LEMMA EmittedAll ==
  ASSUME Finalized, Given, Batch, NEW job, Inside(job), job.cur = job.end,
         NEW mem, Emitted(mem, job)
  PROVE  LET i == job.pos + 1
         IN  /\ CodesFor(i) \in Seq(Nat) /\ Len(CodesFor(i)) = job.out - input[i].out
             /\ \A n \in 1 .. Len(CodesFor(i)) : mem[input[i].out + n - 1] = CodesFor(i)[n]
<1> DEFINE i == job.pos + 1
           s == ChunkOf(i)
           F == GreedyFrom(table, s)
<1>1. i \in 1 .. Len(input) /\ Start(job) = input[i] /\ job.end = input[i].end /\ job \in Job
  <2>1. DOMAIN input = 1 .. Len(input)
    BY DEF Batch
  <2> QED
    BY <2>1 DEF Inside, Start
<1> HIDE DEF i
<1>2. /\ s \in Seq(Byte) /\ Len(s) = Size(input[i]) /\ Len(s) \in Nat
      /\ input[i] \in Job /\ input[i].end = input[i].cur + Len(s)
  BY <1>1, ChunkIs
<1> HIDE DEF s
<1>3. job.cur - Start(job).cur + 1 = Len(s) + 1
  <2>1. input[i].cur \in Nat
    BY <1>2 DEF Job
  <2> QED
    BY <2>1, <1>1, <1>2
<1>4. F[1] \in Seq(Nat) /\ F[Len(s) + 1] = <<>>
  <2>1. 1 \in 1 .. Len(s) + 1
    BY <1>2
  <2>2. table.symbols \in Seq(Symbol)
    BY TablesTyped DEF Given
  <2> QED
    BY <2>1, <2>2, <1>2, GreedyType
<1>5. CodesFor(i) = F[1]
  BY GreedyIsFrom DEF CodesFor, s
<1> DEFINE d == job.out - input[i].out
<1>6. d \in Int
  BY <1>1, <1>2 DEF Job
<1> HIDE DEF F
<1>7. /\ Len(F[1]) = d + Len(F[Len(s) + 1])
      /\ \A n \in 1 .. d : mem[input[i].out + n - 1] = F[1][n]
  BY <1>1, <1>3, Zenon DEF Emitted, EmittedOf, F, s, i
<1>8. Len(F[1]) = d
  BY <1>4, <1>6, <1>7
<1> QED
  BY <1>4, <1>5, <1>7, <1>8 DEF i

(* It needs what has been written to stay.                                 *)
LEMMA EmittedStays ==
  ASSUME Batch, NEW job, Inside(job), NEW mem, Emitted(mem, job), NEW after,
         \A x \in Start(job).out .. job.out - 1 : after[x] = mem[x]
  PROVE  Emitted(after, job)
<1>1. Start(job).out \in Nat /\ job.out \in Nat
  <2>1. job.pos + 1 \in 1 .. Len(input) /\ input \in Seq(Job) /\ job \in Job
    BY DEF Inside, Batch
  <2>2. Start(job) \in Job
    BY <2>1, ElementType DEF Start
  <2> QED
    BY <2>1, <2>2 DEF Job
<1> DEFINE d == job.out - Start(job).out
<1>2. \A n \in 1 .. d : Start(job).out + n - 1 \in Start(job).out .. job.out - 1
  BY <1>1
<1>3. \A n \in 1 .. d : after[Start(job).out + n - 1] = mem[Start(job).out + n - 1]
  BY <1>2
<1> QED
  BY <1>3 DEF Emitted, EmittedOf

(* The codes written for a lookup.                                         *)
LEMMA CodesOfLength ==
  ASSUME NEW found, NEW b, EscapeBit(found.code) \in {0, 1}, CodesOf(found, b) \in Seq(Nat)
  PROVE  /\ Len(CodesOf(found, b)) = 1 + EscapeBit(found.code)
         /\ CodesOf(found, b)[1] = CodeByte(found.code)
         /\ EscapeBit(found.code) = 1 => CodesOf(found, b)[2] = b
<1>1. CASE EscapeBit(found.code) = 1
  BY <1>1 DEF CodesOf
<1>2. CASE EscapeBit(found.code) = 0
  BY <1>2 DEF CodesOf
<1> QED
  BY <1>1, <1>2

(* The next code is written.                                               *)
LEMMA EmittedAdvances ==
  ASSUME Finalized, Given, Batch, NEW job, Running(job), NEW mem, Emitted(mem, job),
         NEW found, found = FinalLookup(table, WordAt(symbolBase, job.cur)),
         NEW after, \A x \in Start(job).out .. job.out - 1 : after[x] = mem[x],
         after[job.out] = CodeByte(found.code),
         EscapeBit(found.code) = 1 => after[job.out + 1] = WordAt(symbolBase, job.cur)[1]
  PROVE  Emitted(after, Advanced(job, found))
<1> DEFINE i == job.pos + 1
           start == Start(job)
           s == ChunkOf(i)
           word == WordAt(symbolBase, job.cur)
           bit == EscapeBit(found.code)
           next == Advanced(job, found)
           p == job.cur - start.cur + 1
           F == GreedyFrom(table, s)
           bytes == CodesOf(found, word[1])
           d == job.out - start.out
<1>1. /\ job \in Job /\ i \in 1 .. Len(input) /\ start = input[i]
      /\ start.cur <= job.cur /\ job.cur < job.end /\ start.out <= job.out /\ job.end = start.end
  <2>1. DOMAIN input = 1 .. Len(input)
    BY DEF Batch
  <2> QED
    BY <2>1 DEF Running, Inside, Start
<1> HIDE DEF i
<1>2. /\ s \in Seq(Byte) /\ Len(s) = Size(input[i]) /\ Len(s) \in Nat
      /\ \A k \in 1 .. Len(s) : s[k] = symbolBase[start.cur + k - 1]
      /\ start \in Job /\ start.end = start.cur + Len(s)
  BY <1>1, ChunkIs
<1> HIDE DEF start, s
<1>3. /\ start.cur \in Nat /\ start.out \in Nat /\ job.cur \in Nat /\ job.out \in Nat
      /\ job.end \in Nat
  BY <1>1, <1>2 DEF Job
<1>4. p \in 1 .. Len(s) /\ p \in Nat /\ start.cur + p - 1 = job.cur /\ job.end - job.cur = Len(s) - p + 1
  <2> DEFINE a == start.cur
             b == job.cur
             e == job.end
             z == Len(s)
  <2>1. a \in Nat /\ b \in Nat /\ e \in Nat /\ z \in Nat /\ a <= b /\ b < e /\ e = a + z
    BY <1>1, <1>2, <1>3
  <2>2. p = b - a + 1
    OBVIOUS
  <2> HIDE DEF a, b, e, z, p
  <2>3. p \in 1 .. z /\ p \in Nat /\ a + p - 1 = b /\ e - b = z - p + 1
    BY <2>1, <2>2
  <2> QED
    BY <2>3 DEF a, b, e, z
<1>5. d \in Nat /\ start.out + d = job.out
  BY <1>1, <1>3
<1>6. word \in [1 .. MaxLength -> Byte]
  BY KernelWord
<1>7. PICK m \in 1 .. MaxLength :
        /\ m <= job.end - job.cur /\ (m = MaxLength \/ m = job.end - job.cur)
        /\ m < MaxLength => word[m + 1] = table.terminator
  BY KernelWord
<1>8. bit \in {0, 1}
  BY <1>6, <1>7, LookupInside DEF Given
<1>9. m \in Nat /\ MaxLength \in Nat
  BY <1>7, TableAssumption
<1>10. ASSUME NEW k \in 1 .. m PROVE word[k] = s[p + k - 1]
  <2>1. k \in 1 .. MaxLength /\ p + k - 1 \in 1 .. Len(s)
    BY <1>4, <1>7, <1>9
  <2>2. word[k] = symbolBase[job.cur + k - 1]
    BY <2>1 DEF WordAt
  <2>3. s[p + k - 1] = symbolBase[start.cur + (p + k - 1) - 1]
    BY <2>1, <1>2
  <2>4. start.cur + (p + k - 1) - 1 = job.cur + k - 1
    <3>1. k \in Int
      BY <1>9
    <3>2. \A a, b, c, x \in Int : a + b - 1 = c => a + (b + x - 1) - 1 = c + x - 1
      OBVIOUS
    <3>3. start.cur \in Int /\ job.cur \in Int /\ p \in Int /\ start.cur + p - 1 = job.cur
      BY <1>3, <1>4
    <3> DEFINE a == start.cur
               c == job.cur
               o == p
    <3>4. a \in Int /\ c \in Int /\ o \in Int /\ a + o - 1 = c
      BY <3>3
    <3> HIDE DEF a, c, o
    <3>5. a + (o + k - 1) - 1 = c + k - 1
      BY <3>1, <3>2, <3>4
    <3> QED
      BY <3>5 DEF a, c, o
  <2> QED
    BY <2>2, <2>3, <2>4
<1> DEFINE q == p + found.len
<1>11. found.len \in 1 .. m /\ bytes \in Seq(Nat) /\ F[p] = bytes \o F[q]
  <2>1. found = FinalLookup(table, word) /\ table \in Tables
    BY DEF Given
  <2>2. m <= Len(s) - p + 1 /\ (m = MaxLength \/ m = Len(s) - p + 1)
    BY <1>4, <1>7
  <2> HIDE DEF word, p
  <2>3. s \in Seq(Byte) /\ p \in 1 .. Len(s) /\ (m < MaxLength => word[m + 1] = table.terminator)
    BY <1>2, <1>4, <1>7
  <2>4. \A k \in 1 .. m : word[k] = s[p + k - 1]
    BY <1>10
  <2>5. NextCodes(table, s, p, FinalLookup(table, word), word[1], m)
    BY <2>1, <2>2, <2>3, <2>4, <1>6, GreedyNext, Zenon
  <2> QED
    BY <2>1, <2>5, Zenon DEF NextCodes
<1>12. /\ Len(bytes) = 1 + bit /\ bytes[1] = CodeByte(found.code)
       /\ bit = 1 => bytes[2] = word[1]
  BY <1>8, <1>11, CodesOfLength
<1>13. q \in 1 .. Len(s) + 1
  BY <1>4, <1>7, <1>9, <1>11
<1>14. F[1] \in Seq(Nat) /\ F[p] \in Seq(Nat) /\ F[q] \in Seq(Nat)
  <2>1. 1 \in 1 .. Len(s) + 1 /\ p \in 1 .. Len(s) + 1
    BY <1>2, <1>4
  <2>2. table.symbols \in Seq(Symbol)
    BY TablesTyped DEF Given
  <2> QED
    BY <2>1, <2>2, <1>2, <1>13, GreedyType
<1>15. Concatenates(Nat, bytes, F[q], F[p])
  BY <1>11, <1>14, ConcatParts
<1>16. /\ next.cur = job.cur + found.len /\ next.out = job.out + 1 + bit /\ next.pos = job.pos
  <2>1. found.len \in Nat /\ EscapeBit(found.code) \in Nat
    BY <1>8, <1>9, <1>11
  <2> QED
    BY <2>1, <1>1, JobAdvanced
<1>17. Start(next) = start /\ next.pos + 1 = i
  BY <1>16 DEF Start, start, i
<1> HIDE DEF next
<1>18. next.cur - start.cur + 1 = q /\ next.out - start.out = d + Len(bytes)
  <2>1. found.len \in Int /\ bit \in Int /\ next.cur = job.cur + found.len /\ next.out = job.out + 1 + bit
    BY <1>8, <1>9, <1>11, <1>16
  <2>2. \A a, b, x \in Int : (a + x) - b + 1 = (a - b + 1) + x
    OBVIOUS
  <2>3. \A a, b, x \in Int : (a + 1 + x) - b = (a - b) + (1 + x)
    OBVIOUS
  <2>4. next.cur - start.cur + 1 = q
    BY <2>1, <2>2, <1>3
  <2>5. Len(bytes) = 1 + bit
    BY <1>12
  <2> HIDE DEF bit, bytes
  <2>6. (job.out + 1 + bit) - start.out = (job.out - start.out) + (1 + bit)
    BY <2>1, <1>3
  <2>7. next.out - start.out = d + Len(bytes)
    BY <2>1, <2>5, <2>6
  <2> QED
    BY <2>4, <2>7
<1>19. /\ Len(F[1]) = d + Len(F[p])
       /\ \A n \in 1 .. d : mem[start.out + n - 1] = F[1][n]
       /\ \A n \in 1 .. Len(F[p]) : F[1][d + n] = F[p][n]
  BY DEF Emitted, EmittedOf, F, p, start, s, i
<1> DEFINE e == d + Len(bytes)
           C == F[1]
           R == F[p]
           Q == F[q]
           l == Len(bytes)
<1>20. /\ l \in {1, 2} /\ Len(R) = l + Len(Q) /\ Len(C) = d + Len(R) /\ Len(Q) \in Nat
       /\ C \in Seq(Nat) /\ R \in Seq(Nat) /\ Q \in Seq(Nat)
       /\ \A n \in 1 .. l : R[n] = bytes[n]
       /\ \A n \in 1 .. Len(Q) : R[l + n] = Q[n]
  BY <1>8, <1>12, <1>14, <1>15, <1>19 DEF Concatenates
<1>21. /\ \A n \in 1 .. d : mem[start.out + n - 1] = C[n]
       /\ \A n \in 1 .. Len(R) : C[d + n] = R[n]
  BY <1>19
<1>22. /\ \A x \in start.out .. job.out - 1 : after[x] = mem[x]
       /\ after[job.out] = bytes[1]
       /\ l = 2 => after[job.out + 1] = bytes[2]
  BY <1>8, <1>12 DEF start
<1> HIDE DEF C, R, Q, l, F, bytes, p, q, d, bit, word
<1>23. Len(C) = (d + l) + Len(Q)
  BY <1>5, <1>20
<1>24. ASSUME NEW n \in 1 .. d + l PROVE after[start.out + n - 1] = C[n]
  <2>1. CASE n <= d
    <3>0. n \in Int /\ n >= 1
      BY <1>5, <1>20
    <3>1. n \in 1 .. d /\ start.out + n - 1 \in start.out .. job.out - 1
      BY <3>0, <2>1, <1>3, <1>5
    <3> QED
      BY <3>1, <1>21, <1>22
  <2>2. CASE ~ (n <= d)
    <3>0. n \in Int /\ l \in Nat /\ d \in Nat /\ Len(R) >= l /\ Len(R) \in Nat /\ n <= d + l
      BY <1>5, <1>20
    <3>1. n - d \in 1 .. l /\ n - d \in 1 .. Len(R) /\ d + (n - d) = n
      BY <3>0, <2>2
    <3>2. C[n] = bytes[n - d]
      <4>1. C[d + (n - d)] = R[n - d] /\ R[n - d] = bytes[n - d]
        BY <3>1, <1>20, <1>21
      <4> QED
        BY <3>1, <4>1
    <3>3. start.out + n - 1 = job.out + (n - d) - 1 /\ n \in Int
      BY <3>0, <1>3, <1>5
    <3>4. CASE n - d = 1
      <4>1. start.out + n - 1 = job.out
        BY <3>3, <3>4, <1>3
      <4> QED
        BY <4>1, <3>2, <3>4, <1>22
    <3>5. CASE n - d # 1
      <4>1. n - d = 2 /\ l = 2
        BY <3>0, <3>1, <3>5, <1>20
      <4>2. start.out + n - 1 = job.out + 1
        BY <3>3, <4>1, <1>3
      <4> QED
        BY <4>1, <4>2, <3>2, <1>22
    <3> QED
      BY <3>4, <3>5
  <2> QED
    BY <2>1, <2>2
<1>25. ASSUME NEW n \in 1 .. Len(Q) PROVE C[(d + l) + n] = Q[n]
  <2>1. l + n \in 1 .. Len(R) /\ (d + l) + n = d + (l + n)
    BY <1>5, <1>20
  <2>2. C[d + (l + n)] = R[l + n] /\ R[l + n] = Q[n]
    BY <2>1, <1>20, <1>21
  <2> QED
    BY <2>1, <2>2
<1>26. /\ next.cur - start.cur + 1 = q /\ next.out - start.out = d + l
  BY <1>18 DEF l
<1>27. GreedyFrom(table, ChunkOf(next.pos + 1)) = F
  BY <1>17 DEF F, s
<1>28. /\ Len(F[1]) = (d + l) + Len(F[q])
       /\ \A n \in 1 .. d + l : after[start.out + n - 1] = F[1][n]
       /\ \A n \in 1 .. Len(F[q]) : F[1][(d + l) + n] = F[q][n]
  BY <1>23, <1>24, <1>25 DEF C, Q
<1>29. Emitted(after, next)
  BY <1>17, <1>26, <1>27, <1>28 DEF Emitted, EmittedOf
<1> QED
  BY <1>29 DEF next

(* The sum of the first values of a function.                              *)
UpTo(f, n) == SumFunctionOnSet(f, 1 .. n)

(* A sum of the first of some numbers: the next, growing, by its terms.    *)
LEMMA UpToIs ==
  ASSUME NEW f, NEW N \in Nat, \A i \in 1 .. N : f[i] \in Nat
  PROVE  /\ UpTo(f, 0) = 0
         /\ \A n \in 0 .. N : UpTo(f, n) \in Nat
         /\ \A n \in 0 .. N - 1 : UpTo(f, n + 1) = UpTo(f, n) + f[n + 1]
<1>1. ASSUME NEW n \in 0 .. N PROVE UpTo(f, n) \in Nat
  <2>1. IsFiniteSet(1 .. n) /\ \A i \in 1 .. n : f[i] \in Nat
    BY FS_Interval
  <2> QED
    BY <2>1, SumNat DEF UpTo
<1>2. ASSUME NEW n \in 0 .. N - 1 PROVE UpTo(f, n + 1) = UpTo(f, n) + f[n + 1]
  <2>1. n \in Nat /\ (\A i \in 1 .. n + 1 : f[i] \in Int) /\ n \in 0 .. N /\ n + 1 \in 1 .. N
    OBVIOUS
  <2>2. UpTo(f, n + 1) = f[n + 1] + UpTo(f, n)
    BY <2>1, SumNext DEF UpTo
  <2>3. f[n + 1] \in Nat /\ UpTo(f, n) \in Nat
    BY <2>1, <1>1
  <2> QED
    BY <2>2, <2>3
<1>3. UpTo(f, 0) = 0
  <2>1. 1 .. 0 = {}
    OBVIOUS
  <2> QED
    BY <2>1, SumOfNone DEF UpTo
<1> QED
  BY <1>1, <1>2, <1>3

LEMMA UpToGrows ==
  ASSUME NEW f, NEW N \in Nat, \A i \in 1 .. N : f[i] \in Nat, NEW n \in 0 .. N
  PROVE  UpTo(f, n) <= UpTo(f, N)
<1> DEFINE T == {d \in Nat : n + d <= N => UpTo(f, n) <= UpTo(f, n + d)}
<1>1. 0 \in T
  <2>1. UpTo(f, n) \in Nat /\ n + 0 = n
    BY UpToIs
  <2> QED
    BY <2>1
<1>2. ASSUME NEW d \in Nat, d \in T PROVE d + 1 \in T
  <2> SUFFICES ASSUME n + (d + 1) <= N PROVE UpTo(f, n) <= UpTo(f, n + (d + 1))
    OBVIOUS
  <2>1. n + d \in 0 .. N - 1 /\ n + d \in 0 .. N /\ (n + d) + 1 = n + (d + 1)
        /\ (n + d) + 1 \in 1 .. N
    OBVIOUS
  <2>2. UpTo(f, n + (d + 1)) = UpTo(f, n + d) + f[(n + d) + 1]
    BY <2>1, UpToIs
  <2>3. f[(n + d) + 1] \in Nat /\ UpTo(f, n) \in Nat /\ UpTo(f, n + d) \in Nat
    BY <2>1, UpToIs
  <2>4. UpTo(f, n) <= UpTo(f, n + d)
    BY <1>2, <2>1
  <2> QED
    BY <2>2, <2>3, <2>4
<1>3. \A d \in Nat : d \in T
  <2> HIDE DEF T
  <2> QED
    BY <1>1, <1>2, SetInduction
<1>4. N - n \in Nat /\ n + (N - n) = N
  OBVIOUS
<1>5. N - n \in T
  BY <1>3, <1>4
<1> QED
  BY <1>4, <1>5

LEMMA UpToEqual ==
  ASSUME NEW f, NEW g, NEW n \in Nat, \A i \in 1 .. n : f[i] \in Nat /\ g[i] = f[i]
  PROVE  UpTo(f, n) = UpTo(g, n)
<1>1. IsFiniteSet(1 .. n) /\ \A i \in 1 .. n : f[i] \in Int /\ g[i] = f[i]
  BY FS_Interval
<1> QED
  BY <1>1, SumEqual DEF UpTo

--------------------------------------------------------------------------------
(* One more sequence behind the others.                                    *)
LEMMA FlattenNext ==
  ASSUME NEW S, NEW ss \in Seq(Seq(S)), NEW x \in Seq(S)
  PROVE  /\ FlattenSeq(ss) \in Seq(S)
         /\ FlattenSeq(Append(ss, x)) = FlattenSeq(ss) \o x
<1> DEFINE n == Len(ss)
           tt == Append(ss, x)
           f == Joined(ss)
           g == Joined(tt)
           T == {m \in Nat : m \in 1 .. n => f[m] \in Seq(S) /\ g[m] = f[m]}
<1>1. /\ n \in Nat /\ Len(tt) = n + 1 /\ tt[n + 1] = x
      /\ \A i \in 1 .. n : tt[i] = ss[i] /\ ss[i] \in Seq(S)
  OBVIOUS
<1>2. /\ \A i \in 1 .. n : f[i] = IF i = 1 THEN ss[i] ELSE f[i - 1] \o ss[i]
      /\ \A i \in 1 .. n + 1 : g[i] = IF i = 1 THEN tt[i] ELSE g[i - 1] \o tt[i]
  <2>1. Joins(ss, f, n)
    BY <1>1, JoinedExists
  <2>2. Len(tt) \in Nat
    BY <1>1
  <2>3. Joins(tt, g, n + 1)
    BY <2>2, <1>1, JoinedExists
  <2> QED
    BY <2>1, <2>3, Zenon DEF Joins
<1> HIDE DEF f, g, tt
<1>3. 0 \in T
  OBVIOUS
<1>4. ASSUME NEW m \in Nat, m \in T PROVE m + 1 \in T
  <2> SUFFICES ASSUME m + 1 \in 1 .. n PROVE f[m + 1] \in Seq(S) /\ g[m + 1] = f[m + 1]
    OBVIOUS
  <2>1. m + 1 \in 1 .. n + 1 /\ tt[m + 1] = ss[m + 1] /\ ss[m + 1] \in Seq(S) /\ (m + 1) - 1 = m
    BY <1>1
  <2>2. CASE m = 0
    BY <2>1, <2>2, <1>2
  <2>3. CASE m # 0
    <3>1. f[m] \in Seq(S) /\ g[m] = f[m]
      BY <1>1, <1>4, <2>3
    <3>0. m + 1 # 1
      BY <2>3
    <3>2. f[m + 1] = f[m] \o ss[m + 1] /\ g[m + 1] = g[m] \o tt[m + 1]
      <4>1. /\ f[m + 1] = f[(m + 1) - 1] \o ss[m + 1]
            /\ g[m + 1] = g[(m + 1) - 1] \o tt[m + 1]
        BY <2>1, <3>0, <1>2
      <4> QED
        BY <4>1, <2>1
    <3> QED
      BY <2>1, <3>1, <3>2
  <2> QED
    BY <2>2, <2>3
<1>5. n \in T
  <2> HIDE DEF T
  <2> QED
    BY <1>1, <1>3, <1>4, SetInduction
<1>6. FlattenSeq(tt) = g[n + 1]
  <2>1. Len(tt) # 0
    BY <1>1
  <2> QED
    BY <2>1, <1>1, FlattenIsJoined DEF g
<1>7. CASE n = 0
  <2>1. ss = <<>>
    BY <1>7
  <2>2. FlattenSeq(ss) = <<>>
    BY <2>1 DEF FlattenSeq
  <2>3. g[n + 1] = x
    BY <1>1, <1>2, <1>7
  <2>4. <<>> \o x = x
    OBVIOUS
  <2> QED
    BY <2>2, <2>3, <2>4, <1>6 DEF tt
<1>8. CASE n # 0
  <2>1. n \in 1 .. n /\ n + 1 \in 1 .. n + 1 /\ n + 1 # 1 /\ (n + 1) - 1 = n
    BY <1>1, <1>8
  <2>2. f[n] \in Seq(S) /\ g[n] = f[n]
    BY <2>1, <1>5
  <2>3. g[n + 1] = g[n] \o x
    BY <2>1, <1>1, <1>2
  <2>4. FlattenSeq(ss) = f[n]
    BY <1>8, FlattenIsJoined DEF f
  <2> QED
    BY <2>2, <2>3, <2>4, <1>6 DEF tt
<1> QED
  BY <1>7, <1>8

(* No sequences; their lengths; and where each of them lies in the whole.  *)
LEMMA FlattenNone == FlattenSeq(<<>>) = <<>>
BY DEF FlattenSeq

(* The lengths of sequences, and where each of them begins.                *)
LensOf(ss) == [i \in DOMAIN ss |-> Len(ss[i])]

LEMMA LensOfType ==
  ASSUME NEW S, NEW ss \in Seq(Seq(S))
  PROVE  /\ Len(ss) \in Nat /\ DOMAIN ss = 1 .. Len(ss)
         /\ \A i \in 1 .. Len(ss) : ss[i] \in Seq(S) /\ LensOf(ss)[i] = Len(ss[i]) /\ Len(ss[i]) \in Nat
<1>1. Len(ss) \in Nat /\ DOMAIN ss = 1 .. Len(ss)
  OBVIOUS
<1>2. \A i \in 1 .. Len(ss) : ss[i] \in Seq(S)
  OBVIOUS
<1>3. \A i \in 1 .. Len(ss) : Len(ss[i]) \in Nat
  BY <1>2
<1> QED
  BY <1>1, <1>2, <1>3 DEF LensOf

LEMMA FlattenPlaces ==
  ASSUME NEW S, NEW ss \in Seq(Seq(S))
  PROVE  /\ FlattenSeq(ss) \in Seq(S)
         /\ Len(FlattenSeq(ss)) = UpTo(LensOf(ss), Len(ss))
         /\ \A i \in 1 .. Len(ss) : \A k \in 1 .. Len(ss[i]) :
              FlattenSeq(ss)[UpTo(LensOf(ss), i - 1) + k] = ss[i][k]
<1> DEFINE n == Len(ss)
           f == LensOf(ss)
           at == [i \in 0 .. n |-> UpTo(f, i)]
<1>1. n \in Nat /\ \A i \in 1 .. n : f[i] = Len(ss[i]) /\ f[i] \in Nat
  BY LensOfType
<1> HIDE DEF f
<1>2. /\ UpTo(f, 0) = 0
      /\ \A i \in 0 .. n : UpTo(f, i) \in Nat
      /\ \A i \in 0 .. n - 1 : UpTo(f, i + 1) = UpTo(f, i) + f[i + 1]
  BY <1>1, UpToIs
<1>3. at \in [0 .. Len(ss) -> Nat] /\ at[0] = 0 /\ \A i \in 0 .. n : at[i] = UpTo(f, i)
  BY <1>1, <1>2
<1> HIDE DEF at
<1>4. ASSUME NEW i \in 1 .. Len(ss) PROVE at[i] = at[i - 1] + Len(ss[i])
  <2>1. i - 1 \in 0 .. n - 1 /\ (i - 1) + 1 = i /\ i \in 0 .. n /\ i - 1 \in 0 .. n
    BY <1>1
  <2> QED
    BY <2>1, <1>1, <1>2, <1>3
<1>5. PartsFound(S, ss, at, FlattenSeq(ss))
  BY <1>3, <1>4, FlattenParts
<1>6. \A i \in 1 .. n : i - 1 \in 0 .. n
  BY <1>1
<1>7. n \in 0 .. n
  BY <1>1
<1> QED
  BY <1>3, <1>5, <1>6, <1>7 DEF PartsFound, f

(* What a batch and the output say of the strings: texts are the codes of  *)
(* the jobs and of their strings, out is the output, and starts and lens   *)
(* say where in it the strings are; pieces are the codes of as much of the *)
(* strings as is in jobs or in the output.                                 *)
JobsOf(of, l)     == {i \in DOMAIN of : of[i] = l}
BytesIn(texts, S) == SumFunctionOnSet(LensOf(texts), S)

Placed(texts, of, out, starts, lens, pieces, l) ==
  \/ /\ starts[l] # NotYet
     /\ starts[l] = UpTo(LensOf(pieces), l - 1)
     /\ \A i \in DOMAIN of : of[i] >= l
  \/ /\ starts[l] = NotYet
     /\ lens[l] = 0
     /\ \A i \in JobsOf(of, l) : (\A j \in JobsOf(of, l) : i <= j) =>
          Len(out) + UpTo(LensOf(texts), i - 1) = UpTo(LensOf(pieces), l - 1)

Content(texts, of, out, starts, lens, pieces) ==
  /\ texts \in Seq(Seq(Nat)) /\ pieces \in Seq(Seq(Nat)) /\ out \in Seq(Nat)
  /\ of \in Seq(Nat) /\ Len(of) = Len(texts) /\ \A i \in 1 .. Len(of) : of[i] \in 1 .. Len(pieces)
  /\ starts \in Seq(Int) /\ Len(starts) = Len(pieces)
  /\ lens \in Seq(Nat) /\ Len(lens) = Len(pieces)
  /\ out \o FlattenSeq(texts) = FlattenSeq(pieces)
  /\ Len(out) = UpTo(lens, Len(lens))
  /\ \A l \in 1 .. Len(pieces) :
       /\ lens[l] + BytesIn(texts, JobsOf(of, l)) = Len(pieces[l])
       /\ Placed(texts, of, out, starts, lens, pieces, l)

(* The jobs of a string, and so many bytes.                                *)
LEMMA JobsOfType ==
  ASSUME NEW texts \in Seq(Seq(Nat)), NEW of \in Seq(Nat), Len(of) = Len(texts), NEW l
  PROVE  /\ JobsOf(of, l) \in SUBSET (1 .. Len(texts)) /\ IsFiniteSet(JobsOf(of, l))
         /\ BytesIn(texts, JobsOf(of, l)) \in Nat
<1>1. JobsOf(of, l) \in SUBSET (1 .. Len(texts)) /\ Len(texts) \in Nat
  BY DEF JobsOf
<1>2. IsFiniteSet(1 .. Len(texts))
  BY <1>1, FS_Interval
<1>3. IsFiniteSet(JobsOf(of, l))
  BY <1>1, <1>2, FS_Subset
<1>4. \A i \in JobsOf(of, l) : LensOf(texts)[i] \in Nat
  BY <1>1, LensOfType
<1>5. BytesIn(texts, JobsOf(of, l)) \in Nat
  BY <1>3, <1>4, SumNat DEF BytesIn
<1> QED
  BY <1>1, <1>3, <1>5

(* Sums over the jobs do not change with a further one.                    *)
LEMMA BytesStay ==
  ASSUME NEW texts \in Seq(Seq(Nat)), NEW x \in Seq(Nat), NEW S \in SUBSET (1 .. Len(texts))
  PROVE  /\ BytesIn(Append(texts, x), S) = BytesIn(texts, S) /\ BytesIn(texts, S) \in Nat
         /\ BytesIn(Append(texts, x), S \cup {Len(texts) + 1}) = BytesIn(texts, S) + Len(x)
<1> DEFINE n == Len(texts)
           f == LensOf(texts)
           g == LensOf(Append(texts, x))
<1>1. n \in Nat /\ \A i \in 1 .. n : f[i] = Len(texts[i]) /\ f[i] \in Nat
  BY LensOfType
<1>2. Append(texts, x) \in Seq(Seq(Nat)) /\ Len(Append(texts, x)) = n + 1
      /\ Append(texts, x)[n + 1] = x /\ \A i \in 1 .. n : Append(texts, x)[i] = texts[i]
  OBVIOUS
<1>3. \A i \in 1 .. n + 1 : g[i] = Len(Append(texts, x)[i]) /\ g[i] \in Nat
  <2> DEFINE tt == Append(texts, x)
  <2>1. tt \in Seq(Seq(Nat)) /\ Len(tt) = n + 1
    BY <1>2
  <2> HIDE DEF tt
  <2>2. \A i \in 1 .. n + 1 : LensOf(tt)[i] = Len(tt[i]) /\ Len(tt[i]) \in Nat
    BY <2>1, LensOfType
  <2> QED
    BY <2>2 DEF tt
<1> HIDE DEF f, g
<1>4. \A i \in 1 .. n : g[i] = f[i]
  <2>1. \A i \in 1 .. n : i \in 1 .. n + 1
    BY <1>1
  <2> QED
    BY <2>1, <1>1, <1>2, <1>3
<1>5. IsFiniteSet(S)
  <2>1. IsFiniteSet(1 .. n)
    BY <1>1, FS_Interval
  <2> QED
    BY <2>1, FS_Subset
<1>6. \A i \in S : f[i] \in Nat /\ f[i] \in Int /\ g[i] = f[i] /\ g[i] \in Int
  BY <1>1, <1>4
<1>7. SumFunctionOnSet(f, S) = SumFunctionOnSet(g, S) /\ SumFunctionOnSet(f, S) \in Nat
  BY <1>5, <1>6, SumEqual, SumNat
<1>8. n + 1 \notin S /\ g[n + 1] = Len(x) /\ g[n + 1] \in Nat /\ g[n + 1] \in Int
  <2>1. n + 1 \in 1 .. n + 1 /\ n + 1 \notin 1 .. n
    BY <1>1
  <2> QED
    BY <2>1, <1>2, <1>3
<1>9. SumFunctionOnSet(g, S \cup {n + 1}) = g[n + 1] + SumFunctionOnSet(g, S)
  BY <1>5, <1>6, <1>8, SumWith
<1>10. SumFunctionOnSet(g, S \cup {n + 1}) = SumFunctionOnSet(f, S) + Len(x)
  BY <1>7, <1>8, <1>9
<1> QED
  BY <1>7, <1>10 DEF BytesIn, f, g

(* The beginnings do not change with a longer last sequence, or a new one. *)
LEMMA PlacesStay ==
  ASSUME NEW ss \in Seq(Seq(Nat)), NEW tt \in Seq(Seq(Nat)), NEW n \in Nat,
         n <= Len(ss), n <= Len(tt), \A i \in 1 .. n : tt[i] = ss[i]
  PROVE  UpTo(LensOf(tt), n) = UpTo(LensOf(ss), n) /\ UpTo(LensOf(ss), n) \in Nat
<1>1. /\ Len(ss) \in Nat /\ Len(tt) \in Nat
      /\ \A i \in 1 .. Len(ss) : LensOf(ss)[i] = Len(ss[i]) /\ Len(ss[i]) \in Nat
      /\ \A i \in 1 .. Len(tt) : LensOf(tt)[i] = Len(tt[i])
  BY LensOfType
<1>2. \A i \in 1 .. n : i \in 1 .. Len(ss) /\ i \in 1 .. Len(tt)
  BY <1>1
<1>3. \A i \in 1 .. n : LensOf(ss)[i] \in Nat /\ LensOf(tt)[i] = LensOf(ss)[i]
  BY <1>1, <1>2
<1>4. UpTo(LensOf(ss), n) = UpTo(LensOf(tt), n)
  BY <1>3, UpToEqual
<1>5. n \in 0 .. n
  OBVIOUS
<1>6. UpTo(LensOf(ss), n) \in Nat
  BY <1>3, <1>5, UpToIs
<1> QED
  BY <1>4, <1>6

(* A job is added, of the last string.                                     *)
LEMMA ContentJob ==
  ASSUME NEW texts, NEW of, NEW out, NEW starts, NEW lens,
         NEW front \in Seq(Seq(Nat)), NEW last \in Seq(Nat), NEW x \in Seq(Nat),
         Content(texts, of, out, starts, lens, Append(front, last))
  PROVE  Content(Append(texts, x), Append(of, Len(front) + 1), out, starts, lens,
                 Append(front, last \o x))
<1> DEFINE pieces == Append(front, last)
           later == Append(front, last \o x)
           n == Len(texts)
           N == Len(front) + 1
           texts2 == Append(texts, x)
           of2 == Append(of, N)
<1>1. /\ texts \in Seq(Seq(Nat)) /\ pieces \in Seq(Seq(Nat)) /\ out \in Seq(Nat)
      /\ of \in Seq(Nat) /\ Len(of) = Len(texts) /\ \A i \in 1 .. Len(of) : of[i] \in 1 .. Len(pieces)
      /\ starts \in Seq(Int) /\ Len(starts) = Len(pieces)
      /\ lens \in Seq(Nat) /\ Len(lens) = Len(pieces)
      /\ out \o FlattenSeq(texts) = FlattenSeq(pieces)
      /\ Len(out) = UpTo(lens, Len(lens))
      /\ \A l \in 1 .. Len(pieces) :
           /\ lens[l] + BytesIn(texts, JobsOf(of, l)) = Len(pieces[l])
           /\ Placed(texts, of, out, starts, lens, pieces, l)
  BY Zenon DEF Content
<1>2. last \o x \in Seq(Nat) /\ Len(last \o x) = Len(last) + Len(x) /\ Len(last) \in Nat /\ Len(x) \in Nat
  OBVIOUS
<1>3. /\ N \in Nat /\ N >= 1 /\ Len(pieces) = N /\ Len(later) = N /\ pieces \in Seq(Seq(Nat)) /\ later \in Seq(Seq(Nat))
      /\ pieces[N] = last /\ later[N] = last \o x
      /\ \A l \in 1 .. N - 1 : later[l] = pieces[l]
  BY <1>2
<1>4. /\ n \in Nat /\ texts2 \in Seq(Seq(Nat)) /\ Len(texts2) = n + 1
      /\ of2 \in Seq(Nat) /\ Len(of2) = n + 1 /\ of2[n + 1] = N
      /\ \A i \in 1 .. n : of2[i] = of[i]
      /\ DOMAIN of = 1 .. n /\ DOMAIN of2 = 1 .. n + 1
  <2>1. n \in Nat /\ texts2 \in Seq(Seq(Nat)) /\ Len(texts2) = n + 1
    BY <1>1
  <2>2. N \in Nat /\ of \in Seq(Nat) /\ Len(of) = n
    BY <1>1, <1>3
  <2> HIDE DEF N, n
  <2>3. /\ of2 \in Seq(Nat) /\ Len(of2) = n + 1 /\ of2[n + 1] = N
        /\ \A i \in 1 .. n : of2[i] = of[i]
        /\ DOMAIN of = 1 .. n /\ DOMAIN of2 = 1 .. n + 1
    BY <2>2
  <2> QED
    BY <2>1, <2>3
<1>5. out \o FlattenSeq(texts2) = FlattenSeq(later)
  <2>1. FlattenSeq(texts) \in Seq(Nat) /\ FlattenSeq(texts2) = FlattenSeq(texts) \o x
    BY <1>1, FlattenNext
  <2>2. /\ FlattenSeq(front) \in Seq(Nat) /\ FlattenSeq(pieces) = FlattenSeq(front) \o last
        /\ FlattenSeq(later) = FlattenSeq(front) \o (last \o x)
    BY <1>2, FlattenNext
  <2>3. /\ Associate(out, FlattenSeq(texts), x) /\ Associate(FlattenSeq(front), last, x)
    BY <2>1, <2>2, <1>1, ConcatAssoc
  <2> QED
    BY <2>1, <2>2, <2>3, <1>1 DEF Associate
<1> HIDE DEF pieces, later, texts2, of2, N
<1>6. \A l \in 1 .. N : UpTo(LensOf(later), l - 1) = UpTo(LensOf(pieces), l - 1)
                        /\ UpTo(LensOf(pieces), l - 1) \in Nat
  <2> TAKE l \in 1 .. N
  <2>1. l - 1 \in Nat /\ l - 1 <= Len(pieces) /\ l - 1 <= Len(later)
    BY <1>3
  <2>2. \A i \in 1 .. l - 1 : i \in 1 .. N - 1
    BY <1>3
  <2>3. \A i \in 1 .. l - 1 : later[i] = pieces[i]
    BY <2>2, <1>3
  <2> QED
    BY <2>1, <2>3, <1>3, PlacesStay
<1>7. \A i \in 1 .. n + 1 : UpTo(LensOf(texts2), i - 1) = UpTo(LensOf(texts), i - 1)
                            /\ UpTo(LensOf(texts), i - 1) \in Nat
  <2> TAKE i \in 1 .. n + 1
  <2>1. i - 1 \in Nat /\ i - 1 <= Len(texts) /\ i - 1 <= Len(texts2)
    BY <1>4
  <2>2. \A j \in 1 .. i - 1 : texts2[j] = texts[j]
    <3>1. \A j \in 1 .. i - 1 : j \in 1 .. n
      BY <1>4
    <3>2. \A j \in 1 .. n : texts2[j] = texts[j]
      BY <1>1 DEF texts2
    <3> QED
      BY <3>1, <3>2
  <2> QED
    BY <2>1, <2>2, <1>1, <1>4, PlacesStay
<1>8. ASSUME NEW l \in 1 .. N
      PROVE  /\ l # N => JobsOf(of2, l) = JobsOf(of, l)
             /\ JobsOf(of2, N) = JobsOf(of, N) \cup {n + 1}
             /\ JobsOf(of, l) \in SUBSET (1 .. n)
  <2>1. JobsOf(of, l) \in SUBSET (1 .. n)
    BY <1>4 DEF JobsOf
  <2>2. \A i \in 1 .. n + 1 : i = n + 1 \/ i \in 1 .. n
    BY <1>4
  <2>3. n + 1 \in 1 .. n + 1 /\ \A i \in 1 .. n : i \in 1 .. n + 1
    BY <1>4
  <2>4. l # N => JobsOf(of2, l) = JobsOf(of, l)
    BY <2>2, <2>3, <1>4 DEF JobsOf
  <2>5. JobsOf(of2, N) = JobsOf(of, N) \cup {n + 1}
    BY <2>2, <2>3, <1>4 DEF JobsOf
  <2> QED
    BY <2>1, <2>4, <2>5
<1>9. ASSUME NEW l \in 1 .. N
      PROVE  lens[l] + BytesIn(texts2, JobsOf(of2, l)) = Len(later[l])
  <2>0. lens[l] + BytesIn(texts, JobsOf(of, l)) = Len(pieces[l]) /\ lens[l] \in Nat
    <3>1. l \in 1 .. Len(pieces) /\ l \in 1 .. Len(lens)
      BY <1>1, <1>3
    <3> QED
      BY <3>1, <1>1, ElementType
  <2>1. CASE l # N
    <3>1. BytesIn(texts2, JobsOf(of, l)) = BytesIn(texts, JobsOf(of, l))
      BY <1>1, <1>8, BytesStay DEF texts2
    <3>2. l \in 1 .. N - 1
      BY <2>1, <1>3
    <3> QED
      BY <2>0, <2>1, <3>1, <3>2, <1>3, <1>8
  <2>2. CASE l = N
    <3>1. /\ BytesIn(texts2, JobsOf(of, N) \cup {n + 1}) = BytesIn(texts, JobsOf(of, N)) + Len(x)
          /\ BytesIn(texts, JobsOf(of, N)) \in Nat
      BY <2>2, <1>1, <1>8, BytesStay DEF texts2
    <3>2. Len(later[N]) = Len(pieces[N]) + Len(x) /\ Len(x) \in Nat
      BY <1>2, <1>3
    <3>3. lens[N] + BytesIn(texts, JobsOf(of, N)) = Len(pieces[N]) /\ lens[N] \in Nat
      BY <2>0, <2>2
    <3>4. JobsOf(of2, N) = JobsOf(of, N) \cup {n + 1}
      BY <1>8
    <3>5. BytesIn(texts2, JobsOf(of2, N)) = BytesIn(texts, JobsOf(of, N)) + Len(x)
      BY <3>1, <3>4
    <3>6. lens[N] + BytesIn(texts2, JobsOf(of2, N)) = Len(later[N])
      <4>1. \A a, b, c, p, q, z \in Int : a + b = p /\ c = b + z /\ q = p + z => a + c = q
        OBVIOUS
      <4>2. /\ BytesIn(texts2, JobsOf(of2, N)) \in Int /\ Len(pieces[N]) \in Int /\ Len(later[N]) \in Int
            /\ BytesIn(texts, JobsOf(of, N)) \in Int /\ lens[N] \in Int /\ Len(x) \in Int
        <5>1. BytesIn(texts, JobsOf(of, N)) \in Nat /\ lens[N] \in Nat /\ Len(x) \in Nat
          BY <3>1, <3>2, <3>3
        <5>2. Len(pieces[N]) \in Int
          BY <5>1, <3>3
        <5> QED
          BY <5>1, <5>2, <3>2, <3>5
      <4> DEFINE a == lens[N]
                 b == BytesIn(texts, JobsOf(of, N))
                 c == BytesIn(texts2, JobsOf(of2, N))
                 k == Len(pieces[N])
                 q == Len(later[N])
                 z == Len(x)
      <4>3. a + b = k /\ c = b + z /\ q = k + z
        BY <3>2, <3>3, <3>5
      <4>4. a \in Int /\ b \in Int /\ c \in Int /\ k \in Int /\ q \in Int /\ z \in Int
        BY <4>2
      <4> HIDE DEF a, b, c, k, q, z
      <4>5. a + c = q
        BY <4>1, <4>3, <4>4
      <4> QED
        BY <4>5 DEF a, c, q
    <3> QED
      BY <2>2, <3>6
  <2> QED
    BY <2>1, <2>2
<1>10. ASSUME NEW l \in 1 .. N
       PROVE  Placed(texts2, of2, out, starts, lens, later, l)
  <2>0. Placed(texts, of, out, starts, lens, pieces, l)
    BY <1>1, <1>3
  <2>1. CASE starts[l] # NotYet
    <3>1. starts[l] = UpTo(LensOf(pieces), l - 1) /\ \A i \in DOMAIN of : of[i] >= l
      BY <2>0, <2>1 DEF Placed
    <3>2. \A i \in DOMAIN of2 : of2[i] >= l
      <4>1. \A i \in 1 .. n + 1 : i = n + 1 \/ i \in 1 .. n
        BY <1>4
      <4>2. N >= l
        BY <1>3
      <4> QED
        BY <3>1, <4>1, <4>2, <1>4
    <3> QED
      BY <2>1, <3>1, <3>2, <1>6 DEF Placed
  <2>2. CASE starts[l] = NotYet
    <3>1. lens[l] = 0 /\ \A i \in JobsOf(of, l) : (\A j \in JobsOf(of, l) : i <= j) =>
              Len(out) + UpTo(LensOf(texts), i - 1) = UpTo(LensOf(pieces), l - 1)
      BY <2>0, <2>2 DEF Placed
    <3>2. ASSUME NEW i \in JobsOf(of2, l), \A j \in JobsOf(of2, l) : i <= j
          PROVE  Len(out) + UpTo(LensOf(texts2), i - 1) = UpTo(LensOf(later), l - 1)
      <4>0. JobsOf(of, l) \in SUBSET (1 .. n) /\ JobsOf(of, l) \subseteq JobsOf(of2, l)
            /\ (i \in JobsOf(of, l) \/ (l = N /\ i = n + 1))
        BY <1>8
      <4>1. CASE i \in JobsOf(of, l)
        <5>1. Len(out) + UpTo(LensOf(texts), i - 1) = UpTo(LensOf(pieces), l - 1)
          BY <3>1, <3>2, <4>0, <4>1
        <5>2. i \in 1 .. n + 1
          BY <4>0, <4>1, <1>4
        <5> QED
          BY <5>1, <5>2, <1>6, <1>7
      <4>2. CASE l = N /\ i = n + 1
        <5>1. JobsOf(of, N) = {}
          <6>1. \A j \in JobsOf(of, N) : j \in 1 .. n /\ n + 1 <= j
            BY <3>2, <4>0, <4>2
          <6>2. \A j \in 1 .. n : ~ (n + 1 <= j)
            BY <1>4
          <6> QED
            BY <6>1, <6>2
        <5>2. BytesIn(texts, JobsOf(of, N)) = 0
          BY <5>1, SumOfNone DEF BytesIn
        <5>3. lens[N] + BytesIn(texts, JobsOf(of, N)) = Len(pieces[N]) /\ lens[N] = 0
          BY <1>1, <1>3, <3>1, <4>2
        <5>4. Len(pieces[N]) = 0
          BY <5>2, <5>3
        <5>5. /\ FlattenSeq(texts) \in Seq(Nat) /\ Len(FlattenSeq(texts)) = UpTo(LensOf(texts), n)
              /\ FlattenSeq(pieces) \in Seq(Nat) /\ Len(FlattenSeq(pieces)) = UpTo(LensOf(pieces), N)
          BY <1>1, <1>3, FlattenPlaces
        <5>6. Len(out) + Len(FlattenSeq(texts)) = Len(FlattenSeq(pieces)) /\ Len(out) \in Nat
          BY <5>5, <1>1
        <5>7. UpTo(LensOf(pieces), N) = UpTo(LensOf(pieces), N - 1) + Len(pieces[N])
          <6>1. \A k \in 1 .. N : LensOf(pieces)[k] \in Nat /\ LensOf(pieces)[k] = Len(pieces[k])
            <7>1. \A k \in 1 .. Len(pieces) : LensOf(pieces)[k] = Len(pieces[k]) /\ Len(pieces[k]) \in Nat
              BY <1>3, LensOfType
            <7> QED
              BY <7>1, <1>3
          <6>2. N - 1 \in 0 .. N - 1 /\ (N - 1) + 1 = N /\ N \in 1 .. N
            BY <1>3
          <6>3. UpTo(LensOf(pieces), (N - 1) + 1) = UpTo(LensOf(pieces), N - 1) + LensOf(pieces)[(N - 1) + 1]
            BY <6>1, <6>2, <1>3, UpToIs
          <6> QED
            BY <6>1, <6>2, <6>3
        <5>8. UpTo(LensOf(pieces), N - 1) \in Nat /\ UpTo(LensOf(later), N - 1) = UpTo(LensOf(pieces), N - 1)
          BY <4>2, <1>6
        <5>9. UpTo(LensOf(texts2), (n + 1) - 1) = UpTo(LensOf(texts), n) /\ (n + 1) - 1 = n
          <6>1. n + 1 \in 1 .. n + 1 /\ (n + 1) - 1 = n
            BY <1>4
          <6> QED
            BY <6>1, <1>7
        <5>10. Len(out) + UpTo(LensOf(texts), n) = UpTo(LensOf(pieces), N - 1)
          BY <5>4, <5>5, <5>6, <5>7, <5>8
        <5> QED
          BY <4>2, <5>8, <5>9, <5>10
      <4> QED
        BY <4>0, <4>1, <4>2
    <3> QED
      BY <2>2, <3>1, <3>2 DEF Placed
  <2> QED
    BY <2>1, <2>2
<1>11. \A i \in 1 .. Len(of2) : of2[i] \in 1 .. Len(later)
  <2>1. \A i \in 1 .. n + 1 : i = n + 1 \/ i \in 1 .. n
    BY <1>4
  <2>2. N \in 1 .. N
    BY <1>3
  <2> QED
    BY <2>1, <2>2, <1>1, <1>3, <1>4
<1>12. Content(texts2, of2, out, starts, lens, later)
  BY <1>1, <1>3, <1>4, <1>5, <1>9, <1>10, <1>11 DEF Content
<1> QED
  BY <1>12 DEF texts2, of2, later, N

(* A string is begun.                                                      *)
LEMMA ContentLine ==
  ASSUME NEW texts, NEW of, NEW out, NEW starts, NEW lens, NEW pieces,
         Content(texts, of, out, starts, lens, pieces)
  PROVE  Content(texts, of, out, Append(starts, NotYet), Append(lens, 0), Append(pieces, <<>>))
<1> DEFINE N == Len(pieces)
           starts2 == Append(starts, NotYet)
           lens2 == Append(lens, 0)
           pieces2 == Append(pieces, <<>>)
<1>1. /\ texts \in Seq(Seq(Nat)) /\ pieces \in Seq(Seq(Nat)) /\ out \in Seq(Nat)
      /\ of \in Seq(Nat) /\ Len(of) = Len(texts) /\ \A i \in 1 .. Len(of) : of[i] \in 1 .. Len(pieces)
      /\ starts \in Seq(Int) /\ Len(starts) = Len(pieces)
      /\ lens \in Seq(Nat) /\ Len(lens) = Len(pieces)
      /\ out \o FlattenSeq(texts) = FlattenSeq(pieces)
      /\ Len(out) = UpTo(lens, Len(lens))
      /\ \A l \in 1 .. Len(pieces) :
           /\ lens[l] + BytesIn(texts, JobsOf(of, l)) = Len(pieces[l])
           /\ Placed(texts, of, out, starts, lens, pieces, l)
  BY Zenon DEF Content
<1>2. NotYet \in Int /\ <<>> \in Seq(Nat) /\ Len(<<>>) = 0
  BY DEF NotYet
<1>3. /\ N \in Nat /\ pieces2 \in Seq(Seq(Nat)) /\ Len(pieces2) = N + 1 /\ pieces2[N + 1] = <<>>
      /\ \A l \in 1 .. N : pieces2[l] = pieces[l]
  BY <1>1, <1>2
<1>4. /\ starts2 \in Seq(Int) /\ Len(starts2) = N + 1 /\ starts2[N + 1] = NotYet
      /\ \A l \in 1 .. N : starts2[l] = starts[l]
  BY <1>1, <1>2
<1>5. /\ lens2 \in Seq(Nat) /\ Len(lens2) = N + 1 /\ lens2[N + 1] = 0
      /\ \A l \in 1 .. N : lens2[l] = lens[l] /\ lens[l] \in Nat
  <2>1. Len(lens) = N /\ lens \in Seq(Nat) /\ N \in Nat
    BY <1>1
  <2> HIDE DEF N
  <2> QED
    BY <2>1
<1>6. out \o FlattenSeq(texts) = FlattenSeq(pieces2)
  <2>1. FlattenSeq(pieces) \in Seq(Nat) /\ FlattenSeq(pieces2) = FlattenSeq(pieces) \o <<>>
    BY <1>1, <1>2, FlattenNext
  <2>2. FlattenSeq(pieces) \o <<>> = FlattenSeq(pieces)
    BY <2>1
  <2> QED
    BY <2>1, <2>2, <1>1
<1> HIDE DEF starts2, lens2, pieces2, N
<1>7. Len(out) = UpTo(lens2, N + 1)
  <2>1. \A l \in 1 .. N + 1 : lens2[l] \in Nat
    BY <1>3, <1>5, ElementType
  <2>2. N \in 0 .. (N + 1) - 1 /\ N + 1 \in Nat /\ N \in 0 .. N + 1
    BY <1>3
  <2>3. UpTo(lens2, N + 1) = UpTo(lens2, N) + lens2[N + 1] /\ UpTo(lens2, N) \in Nat
    BY <2>1, <2>2, UpToIs
  <2>4. UpTo(lens, N) = UpTo(lens2, N)
    BY <1>3, <1>5, UpToEqual
  <2> QED
    BY <2>3, <2>4, <1>1, <1>5 DEF N
<1>8. \A l \in 1 .. N : UpTo(LensOf(pieces2), l - 1) = UpTo(LensOf(pieces), l - 1)
  <2> TAKE l \in 1 .. N
  <2>1. l - 1 \in Nat /\ l - 1 <= Len(pieces) /\ l - 1 <= Len(pieces2)
    BY <1>3 DEF N
  <2>2. \A i \in 1 .. l - 1 : i \in 1 .. N
    BY <1>3
  <2>3. \A i \in 1 .. l - 1 : pieces2[i] = pieces[i]
    BY <2>2, <1>3
  <2> QED
    BY <2>1, <2>3, <1>1, <1>3, PlacesStay
<1>9. JobsOf(of, N + 1) = {}
  <2>1. \A i \in DOMAIN of : of[i] \in 1 .. N
    BY <1>1 DEF N
  <2>2. N + 1 \notin 1 .. N
    BY <1>3
  <2> QED
    BY <2>1, <2>2 DEF JobsOf
<1>10. ASSUME NEW l \in 1 .. N + 1
       PROVE  /\ lens2[l] + BytesIn(texts, JobsOf(of, l)) = Len(pieces2[l])
              /\ Placed(texts, of, out, starts2, lens2, pieces2, l)
  <2>1. CASE l = N + 1
    <3>1. BytesIn(texts, JobsOf(of, N + 1)) = 0
      BY <1>9, SumOfNone DEF BytesIn
    <3> QED
      BY <2>1, <3>1, <1>2, <1>3, <1>4, <1>5, <1>9 DEF Placed
  <2>2. CASE l # N + 1
    <3>1. l \in 1 .. N
      BY <2>2, <1>3
    <3>2. /\ lens[l] + BytesIn(texts, JobsOf(of, l)) = Len(pieces[l])
          /\ Placed(texts, of, out, starts, lens, pieces, l)
      BY <3>1, <1>1 DEF N
    <3>3. /\ lens2[l] = lens[l] /\ pieces2[l] = pieces[l] /\ starts2[l] = starts[l]
          /\ UpTo(LensOf(pieces2), l - 1) = UpTo(LensOf(pieces), l - 1)
      BY <3>1, <1>3, <1>4, <1>5, <1>8
    <3> QED
      BY <3>2, <3>3 DEF Placed
  <2> QED
    BY <2>1, <2>2
<1>11. \A i \in 1 .. Len(of) : of[i] \in 1 .. Len(pieces2)
  <2>1. \A i \in 1 .. Len(of) : of[i] \in 1 .. N
    BY <1>1 DEF N
  <2>2. \A k \in 1 .. N : k \in 1 .. N + 1
    BY <1>3
  <2> QED
    BY <2>1, <2>2, <1>3
<1>12. Content(texts, of, out, starts2, lens2, pieces2)
  BY <1>1, <1>3, <1>4, <1>5, <1>6, <1>7, <1>10, <1>11, Zenon DEF Content
<1> QED
  BY <1>12 DEF starts2, lens2, pieces2

(* The least of the jobs of a string.                                      *)
LEMMA LeastJob ==
  ASSUME NEW S \in SUBSET Nat, S # {}
  PROVE  Min(S) \in S /\ \A j \in S : Min(S) <= j
<1>1. \E x \in S : \A y \in S : x <= y
  BY LeastNat
<1> QED
  BY <1>1, Zenon DEF Min

(* The codes of the jobs are copied to the output.                         *)
LEMMA ContentCopied ==
  ASSUME NEW texts, NEW of, NEW out, NEW starts, NEW lens, NEW pieces,
         Content(texts, of, out, starts, lens, pieces),
         NEW starts2, starts2 = [l \in DOMAIN starts |->
                                  IF starts[l] = NotYet /\ JobsOf(of, l) # {}
                                    THEN Len(out) + BytesIn(texts, 1 .. Min(JobsOf(of, l)) - 1)
                                    ELSE starts[l]],
         NEW lens2, lens2 = [l \in DOMAIN lens |-> lens[l] + BytesIn(texts, JobsOf(of, l))]
  PROVE  Content(<<>>, <<>>, out \o FlattenSeq(texts), starts2, lens2, pieces)
<1> DEFINE N == Len(pieces)
           out2 == out \o FlattenSeq(texts)
<1>1. /\ texts \in Seq(Seq(Nat)) /\ pieces \in Seq(Seq(Nat)) /\ out \in Seq(Nat)
      /\ of \in Seq(Nat) /\ Len(of) = Len(texts) /\ \A i \in 1 .. Len(of) : of[i] \in 1 .. Len(pieces)
      /\ starts \in Seq(Int) /\ Len(starts) = Len(pieces)
      /\ lens \in Seq(Nat) /\ Len(lens) = Len(pieces)
      /\ out \o FlattenSeq(texts) = FlattenSeq(pieces)
      /\ \A l \in 1 .. Len(pieces) :
           /\ lens[l] + BytesIn(texts, JobsOf(of, l)) = Len(pieces[l])
           /\ Placed(texts, of, out, starts, lens, pieces, l)
  BY Zenon DEF Content
<1>2. N \in Nat /\ DOMAIN starts = 1 .. N /\ DOMAIN lens = 1 .. N /\ Len(out) \in Nat
  BY <1>1
<1>3. FlattenSeq(pieces) \in Seq(Nat) /\ Len(FlattenSeq(pieces)) = UpTo(LensOf(pieces), N)
  BY <1>1, FlattenPlaces
<1>4. out2 = FlattenSeq(pieces) /\ out2 \in Seq(Nat) /\ Len(out2) = UpTo(LensOf(pieces), N)
  BY <1>1, <1>3
<1>5. \A l \in 1 .. N : lens2[l] = Len(pieces[l]) /\ Len(pieces[l]) \in Nat /\ lens2[l] = lens[l] + BytesIn(texts, JobsOf(of, l))
  <2>1. \A l \in 1 .. N : lens2[l] = lens[l] + BytesIn(texts, JobsOf(of, l))
    BY <1>2
  <2>2. \A l \in 1 .. N : lens[l] + BytesIn(texts, JobsOf(of, l)) = Len(pieces[l])
    BY <1>1
  <2>3. \A l \in 1 .. N : Len(pieces[l]) \in Nat
    BY <1>1, LensOfType
  <2> QED
    BY <2>1, <2>2, <2>3
<1>6. lens2 \in Seq(Nat) /\ Len(lens2) = N
  <2>1. lens2 = [l \in 1 .. N |-> lens2[l]]
    BY <1>2
  <2>2. \A l \in 1 .. N : lens2[l] \in Nat
    BY <1>5
  <2> QED
    BY <2>1, <2>2, <1>2
<1>7. ASSUME NEW l \in 1 .. N
      PROVE  /\ starts2[l] \in Int
             /\ Placed(<<>>, <<>>, out2, starts2, lens2, pieces, l)
  <2>0. Placed(texts, of, out, starts, lens, pieces, l)
    BY <1>1
  <2>1. starts[l] \in Int
    BY <1>1, <1>2, ElementType
  <2>2. starts2[l] = IF starts[l] = NotYet /\ JobsOf(of, l) # {}
                       THEN Len(out) + BytesIn(texts, 1 .. Min(JobsOf(of, l)) - 1)
                       ELSE starts[l]
    BY <1>2
  <2>3. DOMAIN <<>> = {} /\ JobsOf(<<>>, l) = {}
    BY DEF JobsOf
  <2>4. CASE starts[l] # NotYet
    <3>1. starts2[l] = starts[l] /\ starts[l] = UpTo(LensOf(pieces), l - 1)
      BY <2>0, <2>2, <2>4 DEF Placed
    <3> QED
      BY <2>1, <2>3, <2>4, <3>1 DEF Placed
  <2>5. CASE starts[l] = NotYet /\ JobsOf(of, l) # {}
    <3> DEFINE m == Min(JobsOf(of, l))
    <3>1. JobsOf(of, l) \in SUBSET (1 .. Len(texts)) /\ Len(texts) \in Nat
      BY <1>1, JobsOfType
    <3>2. JobsOf(of, l) \in SUBSET Nat
      BY <3>1
    <3>3. m \in JobsOf(of, l) /\ \A j \in JobsOf(of, l) : m <= j
      BY <2>5, <3>2, LeastJob
    <3>4. Len(out) + UpTo(LensOf(texts), m - 1) = UpTo(LensOf(pieces), l - 1)
      BY <2>0, <2>5, <3>3 DEF Placed
    <3>5. starts2[l] = Len(out) + UpTo(LensOf(texts), m - 1)
      BY <2>2, <2>5 DEF BytesIn, UpTo
    <3> HIDE DEF m
    <3>6. UpTo(LensOf(texts), m - 1) \in Nat
      <4>1. m \in 1 .. Len(texts)
        BY <3>1, <3>3
      <4>2. m - 1 \in 0 .. Len(texts)
        BY <4>1, <3>1
      <4>3. \A i \in 1 .. Len(texts) : LensOf(texts)[i] \in Nat
        <5>1. \A i \in 1 .. Len(texts) : LensOf(texts)[i] = Len(texts[i]) /\ Len(texts[i]) \in Nat
          BY <1>1, LensOfType
        <5> QED
          BY <5>1
      <4> QED
        BY <4>2, <4>3, <3>1, UpToIs
    <3>7. starts2[l] \in Nat /\ starts2[l] # NotYet
      BY <3>5, <3>6, <1>2 DEF NotYet
    <3> QED
      BY <2>3, <3>4, <3>5, <3>7 DEF Placed
  <2>6. CASE starts[l] = NotYet /\ JobsOf(of, l) = {}
    <3>1. starts2[l] = NotYet
      BY <2>2, <2>6
    <3>2. lens[l] = 0
      BY <2>0, <2>6 DEF Placed
    <3>3. BytesIn(texts, JobsOf(of, l)) = 0
      BY <2>6, SumOfNone DEF BytesIn
    <3>4. lens2[l] = 0
      BY <3>2, <3>3, <1>5
    <3> QED
      BY <2>1, <2>3, <2>6, <3>1, <3>4 DEF Placed
  <2> QED
    BY <2>4, <2>5, <2>6
<1>8. starts2 \in Seq(Int) /\ Len(starts2) = N
  <2>1. starts2 = [l \in 1 .. N |-> starts2[l]]
    BY <1>2
  <2>2. \A l \in 1 .. N : starts2[l] \in Int
    BY <1>7
  <2> QED
    BY <2>1, <2>2, <1>2
<1>9. Len(out2) = UpTo(lens2, Len(lens2))
  <2>1. \A l \in 1 .. N : LensOf(pieces)[l] = Len(pieces[l])
    BY <1>1, LensOfType
  <2>2. \A l \in 1 .. N : LensOf(pieces)[l] \in Nat /\ lens2[l] = LensOf(pieces)[l]
    BY <2>1, <1>5
  <2>3. UpTo(LensOf(pieces), N) = UpTo(lens2, N)
    BY <2>2, <1>2, UpToEqual
  <2> QED
    BY <2>3, <1>4, <1>6
<1>10. out2 \o FlattenSeq(<<>>) = FlattenSeq(pieces)
  <2>1. out2 \o <<>> = out2
    BY <1>4
  <2> QED
    BY <2>1, <1>4, FlattenNone
<1>11. \A l \in 1 .. N : lens2[l] + BytesIn(<<>>, JobsOf(<<>>, l)) = Len(pieces[l])
  <2>1. \A l : JobsOf(<<>>, l) = {}
    BY DEF JobsOf
  <2>2. \A l : BytesIn(<<>>, JobsOf(<<>>, l)) = 0
    BY <2>1, SumOfNone DEF BytesIn
  <2> QED
    BY <2>2, <1>5
<1>12. <<>> \in Seq(Nat) /\ <<>> \in Seq(Seq(Nat)) /\ \A i \in 1 .. Len(<<>>) : <<>>[i] \in 1 .. N
  OBVIOUS
<1> HIDE DEF out2
<1>13. Content(<<>>, <<>>, out2, starts2, lens2, pieces)
  BY <1>1, <1>4, <1>6, <1>7, <1>8, <1>9, <1>10, <1>11, <1>12, Zenon DEF Content
<1> QED
  BY <1>13 DEF out2

(* What has been copied out of a string are its codes, from the start; the *)
(* string follows those before it.                                         *)
LEMMA ContentDelivered ==
  ASSUME NEW texts, NEW of, NEW out, NEW starts, NEW lens, NEW pieces,
         Content(texts, of, out, starts, lens, pieces),
         NEW l \in 1 .. Len(pieces), starts[l] # NotYet
  PROVE  LET part == SubSeq(out, starts[l] + 1, starts[l] + lens[l])
         IN  /\ part \in Seq(Nat) /\ Len(part) <= Len(pieces[l])
             /\ \A k \in 1 .. Len(part) : part[k] = pieces[l][k]
             /\ texts = <<>> => Len(part) = Len(pieces[l])
             /\ starts[l] = UpTo(lens, l - 1)
<1> DEFINE N == Len(pieces)
           a == UpTo(lens, l - 1)
           z == lens[l]
           P == pieces[l]
           W == FlattenSeq(pieces)
<1>1. /\ texts \in Seq(Seq(Nat)) /\ pieces \in Seq(Seq(Nat)) /\ out \in Seq(Nat)
      /\ of \in Seq(Nat) /\ Len(of) = Len(texts)
      /\ lens \in Seq(Nat) /\ Len(lens) = Len(pieces)
      /\ out \o FlattenSeq(texts) = FlattenSeq(pieces)
      /\ Len(out) = UpTo(lens, Len(lens))
      /\ \A m \in 1 .. Len(pieces) :
           /\ lens[m] + BytesIn(texts, JobsOf(of, m)) = Len(pieces[m])
           /\ Placed(texts, of, out, starts, lens, pieces, m)
  BY Zenon DEF Content
<1>2. N \in Nat /\ (\A m \in 1 .. N : lens[m] \in Nat) /\ l \in Nat /\ l >= 1 /\ l <= N
  <2>1. N \in Nat
    BY <1>1
  <2>2. \A m \in 1 .. N : lens[m] \in Nat
    BY <1>1, ElementType
  <2> QED
    BY <2>1, <2>2
<1>3. starts[l] = UpTo(LensOf(pieces), l - 1) /\ \A i \in DOMAIN of : of[i] >= l
  BY <1>1 DEF Placed
<1>4. ASSUME NEW m \in 1 .. l - 1 PROVE LensOf(pieces)[m] = lens[m] /\ lens[m] \in Nat
  <2>1. m \in 1 .. N /\ ~ (m >= l)
    BY <1>2
  <2>2. JobsOf(of, m) = {}
    BY <2>1, <1>3 DEF JobsOf
  <2>3. BytesIn(texts, JobsOf(of, m)) = 0
    BY <2>2, SumOfNone DEF BytesIn
  <2>4. lens[m] + BytesIn(texts, JobsOf(of, m)) = Len(pieces[m]) /\ lens[m] \in Nat
    BY <2>1, <1>1, <1>2
  <2>5. LensOf(pieces)[m] = Len(pieces[m])
    BY <2>1, <1>1, LensOfType
  <2> QED
    BY <2>3, <2>4, <2>5
<1>5. starts[l] = a
  <2>1. l - 1 \in Nat
    BY <1>2
  <2>2. UpTo(lens, l - 1) = UpTo(LensOf(pieces), l - 1)
    BY <2>1, <1>4, UpToEqual
  <2> QED
    BY <2>2, <1>3
<1>6. a \in Nat /\ z \in Nat /\ a + z <= Len(out) /\ Len(out) \in Nat
  <2>1. l - 1 \in 0 .. N /\ l - 1 \in 0 .. N - 1 /\ (l - 1) + 1 = l /\ l \in 0 .. N /\ l \in 1 .. N
    BY <1>2
  <2>2. a \in Nat /\ UpTo(lens, (l - 1) + 1) = a + lens[(l - 1) + 1]
    BY <2>1, <1>2, UpToIs
  <2>3. UpTo(lens, l) <= UpTo(lens, N)
    BY <2>1, <1>2, UpToGrows
  <2> QED
    BY <2>1, <2>2, <2>3, <1>1, <1>2
<1>7. z <= Len(P) /\ (texts = <<>> => z = Len(P)) /\ P \in Seq(Nat) /\ Len(P) \in Nat
  <2>1. BytesIn(texts, JobsOf(of, l)) \in Nat /\ JobsOf(of, l) \in SUBSET (1 .. Len(texts))
    BY <1>1, JobsOfType
  <2>2. z + BytesIn(texts, JobsOf(of, l)) = Len(P)
    BY <1>1
  <2>3. P \in Seq(Nat) /\ Len(P) \in Nat
    BY <1>1, LensOfType
  <2>4. ASSUME texts = <<>> PROVE BytesIn(texts, JobsOf(of, l)) = 0
    <3>1. 1 .. Len(texts) = {}
      BY <2>4
    <3>2. JobsOf(of, l) = {}
      BY <2>1, <3>1
    <3> QED
      BY <3>2, SumOfNone DEF BytesIn
  <2> QED
    BY <2>1, <2>2, <2>3, <2>4, <1>6
<1>8. \A k \in 1 .. Len(P) : W[a + k] = P[k]
  <2>1. \A i \in 1 .. Len(pieces) : \A k \in 1 .. Len(pieces[i]) :
          FlattenSeq(pieces)[UpTo(LensOf(pieces), i - 1) + k] = pieces[i][k]
    BY <1>1, FlattenPlaces
  <2>2. UpTo(LensOf(pieces), l - 1) = a
    BY <1>3, <1>5
  <2> QED
    BY <2>1, <2>2
<1>9. FlattenSeq(texts) \in Seq(Nat)
  BY <1>1, FlattenPlaces
<1>10. Concatenates(Nat, out, FlattenSeq(texts), out \o FlattenSeq(texts))
  BY <1>1, <1>9, ConcatParts
<1>11. \A j \in 1 .. Len(out) : out[j] = W[j]
  BY <1>1, <1>10 DEF Concatenates
<1> HIDE DEF a, z, P, W, N
<1> DEFINE part == SubSeq(out, a + 1, a + z)
<1>12. part \in Seq(Nat) /\ Len(part) = z /\ \A k \in 1 .. z : part[k] = out[a + k]
  BY <1>1, <1>6
<1> HIDE DEF part
<1>13. ASSUME NEW k \in 1 .. z PROVE part[k] = P[k]
  <2>1. a + k \in 1 .. Len(out) /\ k \in 1 .. Len(P)
    BY <1>6, <1>7
  <2> QED
    BY <2>1, <1>8, <1>11, <1>12
<1>14. /\ part \in Seq(Nat) /\ Len(part) <= Len(P)
       /\ \A k \in 1 .. Len(part) : part[k] = P[k]
       /\ texts = <<>> => Len(part) = Len(P)
  BY <1>7, <1>12, <1>13
<1> QED
  BY <1>5, <1>14 DEF part, a, z, P

(* The chunks of a string, and the codes of the first of them.             *)
TextOf(t, s)     == GreedyFrom(t, s)[1]
ChunkCount(n)    == (n + ChunkMax - 1) \div ChunkMax
ChunkAt(s, c)    == SubSeq(s, (c - 1) * ChunkMax + 1, Min({c * ChunkMax, Len(s)}))
ChunkCodes(t, s) == [c \in 1 .. ChunkCount(Len(s)) |-> TextOf(t, ChunkAt(s, c))]
Piece(t, s, n)   == FlattenSeq(SubSeq(ChunkCodes(t, s), 1, ChunkCount(n)))

(* The codes of a string; they are those of its chunks.                    *)
LEMMA TextType ==
  ASSUME Finalized, NEW t \in Tables, NEW s \in Seq(Byte)
  PROVE  TextOf(t, s) \in Seq(Nat) /\ (s = <<>> => TextOf(t, s) = <<>>)
<1>1. t.symbols \in Seq(Symbol)
  BY TablesTyped
<1>2. 1 \in 1 .. Len(s) + 1 /\ (s = <<>> => Len(s) + 1 = 1)
  OBVIOUS
<1>3. /\ \A p \in 1 .. Len(s) + 1 : GreedyFrom(t, s)[p] \in Seq(Nat)
      /\ GreedyFrom(t, s)[Len(s) + 1] = <<>>
  BY <1>1, GreedyType
<1> QED
  BY <1>2, <1>3 DEF TextOf

LEMMA LineCodesAre ==
  ASSUME NEW s
  PROVE  LineCodes(s) = FlattenSeq(ChunkCodes(table, s))
<1>1. \A x : GreedyCodes(x) = TextOf(table, x)
  BY GreedyIsFrom DEF TextOf
<1> QED
  BY <1>1, Zenon DEF LineCodes, ChunkCodes, ChunkCount, ChunkAt

(* The least of two numbers.                                               *)
LEMMA LeastOfTwo ==
  ASSUME NEW a \in Nat, NEW b \in Nat
  PROVE  Min({a, b}) = IF a <= b THEN a ELSE b
<1>1. Min({a, b}) \in {a, b} /\ \A j \in {a, b} : Min({a, b}) <= j
  BY LeastJob
<1> QED
  BY <1>1

(* How many chunks there are up to a place.                                *)
LEMMA ChunkCounts ==
  ASSUME NEW q \in Nat, NEW r \in 0 .. ChunkMax
  PROVE  /\ ChunkCount(q * ChunkMax + r) = IF r = 0 THEN q ELSE q + 1
         /\ q * ChunkMax \in Nat /\ (q + 1) * ChunkMax = q * ChunkMax + ChunkMax
<1> DEFINE w == ChunkMax
<1>0. w \in Nat \ {0} /\ w \in Nat /\ w >= 1
  BY SIMDAssumption
<1> HIDE DEF w
<1>1. q * w \in Nat /\ (q + 1) * w = q * w + w
  BY <1>0
<1>2. CASE r = 0
  <2>1. w - 1 \in 0 .. w - 1
    BY <1>0
  <2>2. (q * w + (w - 1)) \div w = q
    BY <2>1, <1>0, DivIs
  <2>3. q * w + r + w - 1 = q * w + (w - 1)
    BY <1>0, <1>1, <1>2
  <2> QED
    BY <2>2, <2>3, <1>1, <1>2 DEF ChunkCount, w
<1>3. CASE r # 0
  <2>1. r - 1 \in 0 .. w - 1 /\ q + 1 \in Nat
    BY <1>0, <1>3 DEF w
  <2>2. ((q + 1) * w + (r - 1)) \div w = q + 1
    BY <2>1, <1>0, DivIs
  <2>3. q * w + r + w - 1 = (q + 1) * w + (r - 1)
    <3>1. \A a, b, c, d \in Int : d = a + b => a + c + b - 1 = d + (c - 1)
      OBVIOUS
    <3>2. r \in Int /\ w \in Int /\ q * w \in Int /\ (q + 1) * w \in Int
      BY <2>1, <1>0, <1>1 DEF w
    <3> QED
      BY <3>1, <3>2, <1>1
  <2> QED
    BY <2>2, <2>3, <1>1, <1>3 DEF ChunkCount, w
<1> QED
  BY <1>2, <1>3

(* Every number is a number of full chunks and a rest.                     *)
LEMMA ChunksAndRest ==
  ASSUME NEW n \in Nat
  PROVE  \E q \in Nat : \E r \in 0 .. ChunkMax - 1 : n = q * ChunkMax + r /\ n % ChunkMax = r
<1>1. ChunkMax \in Nat \ {0}
  BY SIMDAssumption
<1>2. /\ n \div ChunkMax \in Nat /\ n % ChunkMax \in 0 .. ChunkMax - 1
      /\ n = (n \div ChunkMax) * ChunkMax + (n % ChunkMax)
  BY <1>1, DivMod
<1> QED
  BY <1>2, Zenon

(* The number of chunks grows with the place.                              *)
LEMMA ChunkCountGrows ==
  ASSUME NEW m \in Nat, NEW n \in Nat, m <= n
  PROVE  ChunkCount(m) <= ChunkCount(n) /\ ChunkCount(m) \in Nat /\ ChunkCount(n) \in Nat
<1>0. ChunkMax \in Nat /\ ChunkMax >= 1
  BY SIMDAssumption
<1>1. PICK q \in Nat, r \in 0 .. ChunkMax - 1 : m = q * ChunkMax + r
  BY ChunksAndRest
<1>2. PICK p \in Nat, s \in 0 .. ChunkMax - 1 : n = p * ChunkMax + s
  BY ChunksAndRest
<1>3. r \in 0 .. ChunkMax /\ s \in 0 .. ChunkMax
  BY <1>0
<1>4. /\ ChunkCount(m) = (IF r = 0 THEN q ELSE q + 1)
      /\ ChunkCount(n) = (IF s = 0 THEN p ELSE p + 1)
      /\ q * ChunkMax \in Nat /\ p * ChunkMax \in Nat
  BY <1>1, <1>2, <1>3, ChunkCounts
<1>5. q <= p
  <2>1. ASSUME p < q PROVE FALSE
    <3>1. p + 1 <= q
      BY <2>1
    <3>2. \A a, b, c \in Nat : a <= b => a * c <= b * c
      OBVIOUS
    <3>3. (p + 1) * ChunkMax <= q * ChunkMax
      BY <3>1, <3>2, <1>0
    <3>4. (p + 1) * ChunkMax = p * ChunkMax + ChunkMax
      BY <1>3, ChunkCounts
    <3>5. s < ChunkMax /\ s \in Nat /\ r \in Nat
      BY <1>0
    <3> QED
      BY <3>3, <3>4, <3>5, <1>0, <1>1, <1>2, <1>4
  <2> QED
    BY <2>1
<1>6. q = p => (s = 0 => r = 0)
  BY <1>1, <1>2, <1>4
<1> QED
  BY <1>4, <1>5, <1>6

(* The codes of its chunks, one after the other.                           *)
LEMMA ChunkCodesType ==
  ASSUME Finalized, NEW t \in Tables, NEW s \in Seq(Byte)
  PROVE  /\ ChunkCodes(t, s) \in Seq(Seq(Nat)) /\ Len(ChunkCodes(t, s)) = ChunkCount(Len(s))
         /\ ChunkCount(Len(s)) \in Nat
         /\ \A c \in 1 .. ChunkCount(Len(s)) : ChunkCodes(t, s)[c] = TextOf(t, ChunkAt(s, c))
<1> DEFINE n == ChunkCount(Len(s))
<1>1. n \in Nat
  <2>1. Len(s) \in Nat /\ Len(s) <= Len(s)
    OBVIOUS
  <2> QED
    BY <2>1, ChunkCountGrows
<1>2. ASSUME NEW c \in 1 .. n PROVE TextOf(t, ChunkAt(s, c)) \in Seq(Nat)
  <2>1. c \in Nat /\ c >= 1 /\ ChunkMax \in Nat /\ Len(s) \in Nat
    BY <1>1, SIMDAssumption
  <2>2. \A x, y \in Nat : x >= 1 => (x - 1) * y \in Nat /\ x * y \in Nat
    OBVIOUS
  <2>3. (c - 1) * ChunkMax \in Nat /\ c * ChunkMax \in Nat
    BY <2>1, <2>2
  <2>4. Min({c * ChunkMax, Len(s)}) \in Nat /\ Min({c * ChunkMax, Len(s)}) <= Len(s)
    BY <2>1, <2>3, LeastOfTwo
  <2> DEFINE a == (c - 1) * ChunkMax
             b == Min({c * ChunkMax, Len(s)})
  <2>5. a \in Nat /\ b \in Nat /\ b <= Len(s)
    BY <2>3, <2>4
  <2> HIDE DEF a, b
  <2>6. SubSeq(s, a + 1, b) \in Seq(Byte)
    BY <2>5
  <2>7. ChunkAt(s, c) \in Seq(Byte)
    BY <2>6 DEF ChunkAt, a, b
  <2> QED
    BY <2>7, TextType
<1> HIDE DEF n
<1>3. ChunkCodes(t, s) = [c \in 1 .. n |-> TextOf(t, ChunkAt(s, c))]
  BY DEF ChunkCodes, n
<1>4. ChunkCodes(t, s) \in Seq(Seq(Nat)) /\ Len(ChunkCodes(t, s)) = n
  BY <1>1, <1>2, <1>3
<1>5. \A c \in 1 .. n : ChunkCodes(t, s)[c] = TextOf(t, ChunkAt(s, c))
  BY <1>3
<1> QED
  BY <1>1, <1>4, <1>5 DEF n

(* A sequence and one more.                                                *)
LEMMA AppendAt ==
  ASSUME NEW S, NEW a \in Seq(S), NEW x \in S
  PROVE  /\ Append(a, x) \in Seq(S) /\ Len(Append(a, x)) = Len(a) + 1 /\ Len(a) \in Nat
         /\ \A i \in 1 .. Len(a) : Append(a, x)[i] = a[i]
         /\ Append(a, x)[Len(a) + 1] = x
  OBVIOUS

(* The first of a sequence of sequences.                                   *)
LEMMA FirstOnes ==
  ASSUME NEW ss \in Seq(Seq(Nat)), NEW n \in Nat, n < Len(ss)
  PROVE  /\ SubSeq(ss, 1, n) \in Seq(Seq(Nat)) /\ ss[n + 1] \in Seq(Nat)
         /\ SubSeq(ss, 1, n + 1) = Append(SubSeq(ss, 1, n), ss[n + 1])
<1> DEFINE a == SubSeq(ss, 1, n)
           x == ss[n + 1]
           b == SubSeq(ss, 1, n + 1)
<1>1. Len(ss) \in Nat /\ n + 1 \in 1 .. Len(ss) /\ n + 1 <= Len(ss)
  OBVIOUS
<1>2. a \in Seq(Seq(Nat)) /\ Len(a) = n /\ \A i \in 1 .. n : a[i] = ss[i]
  BY <1>1
<1>3. b \in Seq(Seq(Nat)) /\ Len(b) = n + 1 /\ \A i \in 1 .. n + 1 : b[i] = ss[i]
  BY <1>1
<1>4. x \in Seq(Nat)
  BY <1>1, ElementType
<1> HIDE DEF a, x, b
<1>5. /\ Append(a, x) \in Seq(Seq(Nat)) /\ Len(Append(a, x)) = n + 1
      /\ \A i \in 1 .. n : Append(a, x)[i] = a[i]
      /\ Append(a, x)[n + 1] = x
  <2>1. /\ Append(a, x) \in Seq(Seq(Nat)) /\ Len(Append(a, x)) = Len(a) + 1
        /\ \A i \in 1 .. Len(a) : Append(a, x)[i] = a[i]
        /\ Append(a, x)[Len(a) + 1] = x
    BY <1>2, <1>4, AppendAt
  <2> HIDE DEF a, x
  <2> QED
    BY <2>1, <1>2
<1>6. ASSUME NEW i \in 1 .. n + 1 PROVE b[i] = Append(a, x)[i]
  <2>1. CASE i = n + 1
    BY <2>1, <1>3, <1>5 DEF x
  <2>2. CASE i # n + 1
    <3>1. i \in 1 .. n
      BY <2>2
    <3>2. b[i] = ss[i] /\ a[i] = ss[i] /\ Append(a, x)[i] = a[i]
      BY <3>1, <1>2, <1>3, <1>5
    <3> QED
      BY <3>2
  <2> QED
    BY <2>1, <2>2
<1>7. b = Append(a, x)
  BY <1>3, <1>5, <1>6, SameElements
<1> QED
  BY <1>2, <1>4, <1>7 DEF a, x, b

(* All of a sequence.                                                      *)
LEMMA FirstAll ==
  ASSUME NEW S, NEW s \in Seq(S)
  PROVE  SubSeq(s, 1, Len(s)) = s
<1>1. SubSeq(s, 1, Len(s)) \in Seq(S) /\ Len(SubSeq(s, 1, Len(s))) = Len(s)
      /\ \A i \in 1 .. Len(s) : SubSeq(s, 1, Len(s))[i] = s[i]
  OBVIOUS
<1> QED
  BY <1>1, SameElements

(* Their concatenation is a part of that of all.                           *)
LEMMA FirstFlat ==
  ASSUME NEW ss \in Seq(Seq(Nat)), NEW n \in Nat, n <= Len(ss)
  PROVE  LET first == FlattenSeq(SubSeq(ss, 1, n))
         IN  /\ first \in Seq(Nat) /\ FlattenSeq(ss) \in Seq(Nat)
             /\ Len(first) <= Len(FlattenSeq(ss))
             /\ \A k \in 1 .. Len(first) : first[k] = FlattenSeq(ss)[k]
<1> DEFINE F(m) == FlattenSeq(SubSeq(ss, 1, m))
           Begins2(a, b) == a \in Seq(Nat) /\ b \in Seq(Nat) /\ Len(a) <= Len(b)
                            /\ \A k \in 1 .. Len(a) : a[k] = b[k]
           T == {d \in Nat : n + d <= Len(ss) => Begins2(F(n), F(n + d))}
<1>0. Len(ss) \in Nat
  OBVIOUS
<1>1. ASSUME NEW m \in Nat, m <= Len(ss) PROVE F(m) \in Seq(Nat)
  <2>1. SubSeq(ss, 1, m) \in Seq(Seq(Nat))
    BY <1>0, <1>1
  <2> HIDE DEF F
  <2> QED
    BY <2>1, FlattenPlaces DEF F
<1>2. ASSUME NEW m \in Nat, m < Len(ss) PROVE F(m + 1) = F(m) \o ss[m + 1] /\ ss[m + 1] \in Seq(Nat)
  <2>1. /\ SubSeq(ss, 1, m) \in Seq(Seq(Nat)) /\ ss[m + 1] \in Seq(Nat)
        /\ SubSeq(ss, 1, m + 1) = Append(SubSeq(ss, 1, m), ss[m + 1])
    BY <1>2, FirstOnes
  <2> QED
    BY <2>1, FlattenNext
<1> HIDE DEF F
<1>3. 0 \in T
  <2>1. n + 0 = n /\ F(n) \in Seq(Nat)
    BY <1>1
  <2> QED
    BY <2>1
<1>4. ASSUME NEW d \in Nat, d \in T PROVE d + 1 \in T
  <2> SUFFICES ASSUME n + (d + 1) <= Len(ss) PROVE Begins2(F(n), F(n + (d + 1)))
    OBVIOUS
  <2>1. n + d \in Nat /\ n + d < Len(ss) /\ (n + d) + 1 = n + (d + 1) /\ n + d <= Len(ss)
    BY <1>0
  <2>2. Begins2(F(n), F(n + d))
    BY <1>4, <2>1
  <2> DEFINE a == F(n)
             b == F(n + d)
             x == ss[(n + d) + 1]
  <2>3. F(n + (d + 1)) = b \o x /\ x \in Seq(Nat)
    BY <2>1, <1>2
  <2>4. a \in Seq(Nat) /\ b \in Seq(Nat) /\ Len(a) <= Len(b) /\ \A k \in 1 .. Len(a) : a[k] = b[k]
    BY <2>2
  <2> HIDE DEF a, b, x
  <2>5. Concatenates(Nat, b, x, b \o x)
    BY <2>3, <2>4, ConcatParts
  <2> DEFINE c == b \o x
  <2>6. /\ c \in Seq(Nat) /\ Len(c) = Len(b) + Len(x) /\ Len(b) \in Nat /\ Len(x) \in Nat /\ Len(a) \in Nat
        /\ \A j \in 1 .. Len(b) : c[j] = b[j]
    BY <2>3, <2>4, <2>5 DEF Concatenates
  <2> HIDE DEF c
  <2>7. \A k \in 1 .. Len(a) : k \in 1 .. Len(b)
    BY <2>4, <2>6
  <2>8. Len(a) <= Len(c) /\ \A k \in 1 .. Len(a) : a[k] = c[k]
    BY <2>4, <2>6, <2>7
  <2> QED
    BY <2>3, <2>4, <2>6, <2>8 DEF a, c
<1>5. Len(ss) - n \in T
  <2> HIDE DEF T
  <2>1. \A d \in Nat : d \in T
    BY <1>3, <1>4, SetInduction
  <2>2. Len(ss) - n \in Nat
    BY <1>0
  <2> QED
    BY <2>1, <2>2
<1>6. Begins2(F(n), F(Len(ss)))
  <2>1. n + (Len(ss) - n) = Len(ss)
    BY <1>0
  <2> QED
    BY <2>1, <1>0, <1>5
<1>7. F(Len(ss)) = FlattenSeq(ss)
  BY FirstAll DEF F
<1> QED
  BY <1>6, <1>7 DEF F

--------------------------------------------------------------------------------
(* One more chunk of the string.                                           *)
LEMMA PieceGrows ==
  ASSUME Finalized, NEW t \in Tables, NEW s \in Seq(Byte), NEW n \in Nat, n < Len(s),
         n % ChunkMax = 0, NEW m, m = Min({ChunkMax, Len(s) - n})
  PROVE  /\ Piece(t, s, n + m) = Piece(t, s, n) \o TextOf(t, SubSeq(s, n + 1, n + m))
         /\ (n + m) % ChunkMax = 0 \/ n + m = Len(s)
<1> DEFINE w == ChunkMax
           cs == ChunkCodes(t, s)
           L == Len(s)
<1>0. w \in Nat /\ w >= 1 /\ L \in Nat /\ w \in Nat \ {0}
  BY SIMDAssumption
<1>1. PICK q \in Nat : \E r \in 0 .. ChunkMax - 1 : n = q * ChunkMax + r /\ n % ChunkMax = r
  BY ChunksAndRest
<1>2. q * w \in Nat /\ n = q * w
  <2>1. n = q * w + 0
    BY <1>1
  <2>2. q * w \in Nat
    BY <1>0
  <2> QED
    BY <2>1, <2>2
<1>3. m = IF w <= L - n THEN w ELSE L - n
  <2>1. L - n \in Nat
    BY <1>0
  <2> QED
    BY <2>1, <1>0, LeastOfTwo
<1>4. m \in Nat /\ m >= 1 /\ m <= w /\ n + m <= L
  BY <1>0, <1>3
<1>5. ChunkCount(n) = q /\ ChunkCount(n + m) = q + 1 /\ (q + 1) * w = q * w + w
  <2>1. 0 \in 0 .. ChunkMax /\ m \in 0 .. ChunkMax /\ m # 0 /\ q * ChunkMax + 0 = n
    BY <1>0, <1>2, <1>4
  <2>2. ChunkCount(q * ChunkMax + 0) = q
    BY <2>1, ChunkCounts
  <2>3. ChunkCount(q * ChunkMax + m) = q + 1 /\ (q + 1) * w = q * w + w
    BY <2>1, ChunkCounts
  <2>4. q * ChunkMax + m = n + m
    BY <1>2
  <2> QED
    BY <2>1, <2>2, <2>3, <2>4
<1>6. ChunkCount(n + m) <= ChunkCount(L)
  <2>1. n + m \in Nat
    BY <1>4
  <2> QED
    BY <2>1, <1>0, <1>4, ChunkCountGrows
<1>7. /\ cs \in Seq(Seq(Nat)) /\ Len(cs) = ChunkCount(L) /\ ChunkCount(L) \in Nat
      /\ \A c \in 1 .. ChunkCount(L) : cs[c] = TextOf(t, ChunkAt(s, c))
  BY ChunkCodesType
<1> HIDE DEF w, cs, L
<1>8. q < Len(cs) /\ q + 1 \in 1 .. Len(cs)
  BY <1>5, <1>6, <1>7
<1>9. ChunkAt(s, q + 1) = SubSeq(s, n + 1, n + m)
  <2>1. ((q + 1) - 1) * w = q * w
    BY <1>0
  <2>2. (q + 1) * w \in Nat
    BY <1>0, <1>2, <1>5
  <2>3. Min({(q + 1) * w, L}) = IF (q + 1) * w <= L THEN (q + 1) * w ELSE L
    BY <2>2, <1>0, LeastOfTwo
  <2>4. Min({(q + 1) * w, L}) = n + m
    BY <2>2, <2>3, <1>0, <1>2, <1>3, <1>5
  <2>5. ((q + 1) - 1) * w + 1 = n + 1
    BY <2>1, <1>2
  <2> QED
    BY <2>4, <2>5 DEF ChunkAt, w, L
<1>10. /\ SubSeq(cs, 1, q) \in Seq(Seq(Nat)) /\ cs[q + 1] \in Seq(Nat)
       /\ SubSeq(cs, 1, q + 1) = Append(SubSeq(cs, 1, q), cs[q + 1])
  BY <1>7, <1>8, FirstOnes
<1>11. FlattenSeq(SubSeq(cs, 1, q + 1)) = FlattenSeq(SubSeq(cs, 1, q)) \o cs[q + 1]
  BY <1>10, FlattenNext
<1>12. cs[q + 1] = TextOf(t, SubSeq(s, n + 1, n + m))
  BY <1>7, <1>8, <1>9
<1>13. Piece(t, s, n + m) = Piece(t, s, n) \o TextOf(t, SubSeq(s, n + 1, n + m))
  BY <1>5, <1>11, <1>12 DEF Piece, cs
<1>14. (n + m) % ChunkMax = 0 \/ n + m = Len(s)
  <2>1. CASE w <= L - n
    <3>1. n + m = (q + 1) * w + 0
      BY <2>1, <1>0, <1>2, <1>3, <1>5
    <3>2. 0 \in 0 .. w - 1 /\ q + 1 \in Nat
      BY <1>0
    <3>3. ((q + 1) * w + 0) % w = 0
      BY <3>2, <1>0, DivIs
    <3> QED
      BY <3>1, <3>3 DEF w
  <2>2. CASE ~ (w <= L - n)
    BY <2>2, <1>0, <1>3 DEF L
  <2> QED
    BY <2>1, <2>2
<1> QED
  BY <1>13, <1>14

(* Of nothing, of everything, and in between.                              *)
LEMMA PieceType ==
  ASSUME Finalized, NEW t \in Tables, NEW s \in Seq(Byte), NEW n \in Nat, n <= Len(s)
  PROVE  LET whole == FlattenSeq(ChunkCodes(t, s))
         IN  /\ Piece(t, s, n) \in Seq(Nat) /\ whole \in Seq(Nat)
             /\ Len(Piece(t, s, n)) <= Len(whole)
             /\ \A k \in 1 .. Len(Piece(t, s, n)) : Piece(t, s, n)[k] = whole[k]
             /\ n = Len(s) => Piece(t, s, n) = whole
             /\ n = 0 => Piece(t, s, n) = <<>>
<1> DEFINE cs == ChunkCodes(t, s)
<1>1. cs \in Seq(Seq(Nat)) /\ Len(cs) = ChunkCount(Len(s))
  BY ChunkCodesType
<1>2. ChunkCount(n) <= ChunkCount(Len(s)) /\ ChunkCount(n) \in Nat
  BY ChunkCountGrows
<1> HIDE DEF cs
<1>3. /\ Piece(t, s, n) \in Seq(Nat) /\ FlattenSeq(cs) \in Seq(Nat)
      /\ Len(Piece(t, s, n)) <= Len(FlattenSeq(cs))
      /\ \A k \in 1 .. Len(Piece(t, s, n)) : Piece(t, s, n)[k] = FlattenSeq(cs)[k]
  <2>1. Piece(t, s, n) = FlattenSeq(SubSeq(cs, 1, ChunkCount(n)))
    BY DEF Piece, cs
  <2>2. ChunkCount(n) <= Len(cs)
    BY <1>1, <1>2
  <2> QED
    BY <2>1, <2>2, <1>1, <1>2, FirstFlat
<1>4. n = Len(s) => Piece(t, s, n) = FlattenSeq(cs)
  <2>1. SubSeq(cs, 1, Len(cs)) = cs
    BY <1>1, FirstAll
  <2> QED
    BY <2>1, <1>1 DEF Piece, cs
<1>5. n = 0 => Piece(t, s, n) = <<>>
  <2>1. 0 \in Nat /\ 0 \in 0 .. ChunkMax /\ 0 * ChunkMax + 0 = 0
    BY SIMDAssumption
  <2>2. ChunkCount(0 * ChunkMax + 0) = 0
    BY <2>1, ChunkCounts
  <2>3. SubSeq(cs, 1, 0) = <<>>
    BY <1>1
  <2> QED
    BY <2>1, <2>2, <2>3, FlattenNone DEF Piece, cs
<1> QED
  BY <1>3, <1>4, <1>5 DEF cs

--------------------------------------------------------------------------------
(* What the lanes of an iteration write, one after the other.              *)
MemFrom(k) ==
  LET job   == Loaded(k)
      found == [l \in Lane |-> FinalLookup(table, WordAt(symbolBase, job[l].cur))]
      mem[l \in 0 .. Lanes] ==
        IF l = 0 THEN k.mem
        ELSE Scattered(mem[l - 1], job[l].out, found[l].code, WordAt(symbolBase, job[l].cur)[1])
  IN  mem

FoundFor(job) == FinalLookup(table, WordAt(symbolBase, job.cur))

WriteOf(mem, job) ==
  Scattered(mem, job.out, FoundFor(job).code, WordAt(symbolBase, job.cur)[1])

(* The bytes a lane writes.                                                *)
Spot(job) == job.out .. job.out + ScatterWidth - 1

(* The lanes write one after the other: the function for what is in the    *)
(* staging area after each of them exists.                                 *)
LEMMA MemExists ==
  ASSUME NEW k
  PROVE  /\ MemFrom(k)[0] = k.mem
         /\ \A l \in Lane : MemFrom(k)[l] = WriteOf(MemFrom(k)[l - 1], Loaded(k)[l])
<1> DEFINE D == 0 .. Lanes
           job == Loaded(k)
           found == [l \in Lane |-> FinalLookup(table, WordAt(symbolBase, job[l].cur))]
           Step(f, l) ==
             IF l = 0 THEN k.mem
             ELSE Scattered(f[l - 1], job[l].out, found[l].code, WordAt(symbolBase, job[l].cur)[1])
           T == {m \in Nat : \E f : f = [l \in D |-> f[l]] /\ \A l \in D : l < m => f[l] = Step(f, l)}
<1>0. Lanes \in Nat
  BY LaneType
<1> HIDE DEF job, found
<1>1. 0 \in T
  <2> DEFINE f == [l \in D |-> 0]
  <2>1. f = [l \in D |-> f[l]] /\ \A l \in D : ~ (l < 0)
    BY <1>0
  <2> HIDE DEF f, Step
  <2> QED
    BY <2>1
<1>2. ASSUME NEW m \in Nat, m \in T PROVE m + 1 \in T
  <2>1. PICK f : f = [l \in D |-> f[l]] /\ \A l \in D : l < m => f[l] = Step(f, l)
    BY <1>2
  <2> DEFINE g == [l \in D |-> Step(f, l)]
  <2>2. \A l \in D : g[l] = Step(f, l)
    BY Zenon
  <2>3. \A l \in D : l < m => g[l] = f[l]
    <3> HIDE DEF Step, g
    <3> QED
      BY <2>1, <2>2
  <2>4. g = [l \in D |-> g[l]]
    OBVIOUS
  <2> HIDE DEF g
  <2>5. ASSUME NEW l \in D, l < m + 1 PROVE g[l] = Step(g, l)
    <3>1. CASE l = 0
      <4>1. Step(g, l) = Step(f, l)
        BY <3>1
      <4> QED
        BY <4>1, <2>2
    <3>2. CASE l # 0
      <4>1. l - 1 \in D /\ l - 1 < m
        BY <2>5, <3>2, <1>0
      <4>2. g[l - 1] = f[l - 1]
        BY <4>1, <2>3
      <4>3. Step(g, l) = Step(f, l)
        BY <4>2, Zenon
      <4> QED
        BY <4>3, <2>2
    <3> QED
      BY <3>1, <3>2
  <2> HIDE DEF Step, D
  <2>6. \E h : h = [l \in D |-> h[l]] /\ \A l \in D : l < m + 1 => h[l] = Step(h, l)
    BY <2>4, <2>5, Zenon
  <2>7. m + 1 \in Nat
    OBVIOUS
  <2> QED
    BY <2>6, <2>7, Zenon
<1>3. Lanes + 1 \in T
  <2> HIDE DEF T
  <2>1. Lanes + 1 \in Nat
    BY <1>0
  <2> QED
    BY <1>1, <1>2, <2>1, SetInduction
<1>4. PICK f : f = [l \in D |-> f[l]] /\ \A l \in D : l < Lanes + 1 => f[l] = Step(f, l)
  BY <1>3
<1>5. f = [l \in D |-> Step(f, l)]
  <2> DEFINE g == [l \in D |-> Step(f, l)]
  <2>1. g = [l \in D |-> g[l]] /\ \A l \in D : g[l] = Step(f, l)
    BY Zenon
  <2> HIDE DEF g, Step
  <2>2. \A l \in D : l < Lanes + 1
    BY <1>0
  <2>3. \A l \in D : f[l] = g[l]
    BY <1>4, <2>1, <2>2
  <2>4. f = [l \in D |-> f[l]]
    BY <1>4
  <2>5. f = g
    BY <2>1, <2>3, <2>4
  <2> QED
    BY <2>5 DEF g
<1>6. MemFrom(k) = [l \in D |-> Step(MemFrom(k), l)]
  BY <1>5, Zenon DEF MemFrom, job, found
<1> HIDE DEF Step
<1>7. \A l \in D : MemFrom(k)[l] = Step(MemFrom(k), l)
  BY <1>6, Zenon
<1>8. 0 \in D /\ \A l \in Lane : l \in D /\ l # 0
  BY <1>0 DEF Lane
<1>9. MemFrom(k)[0] = k.mem
  BY <1>7, <1>8 DEF Step
<1>10. ASSUME NEW l \in Lane PROVE MemFrom(k)[l] = WriteOf(MemFrom(k)[l - 1], Loaded(k)[l])
  <2>1. MemFrom(k)[l] = Step(MemFrom(k), l) /\ l # 0
    BY <1>7, <1>8
  <2>2. found[l] = FoundFor(job[l])
    BY DEF found, FoundFor
  <2> QED
    BY <2>1, <2>2, Zenon DEF Step, WriteOf, job
<1> QED
  BY <1>9, <1>10

(* It is what the step of the kernel stores.                               *)
LEMMA StepMem ==
  ASSUME NEW k
  PROVE  KernelStep(k, table, symbolBase).mem = MemFrom(k)[Lanes]
BY Zenon DEF KernelStep, MemFrom

(* What one lane writes.                                                   *)
LEMMA WriteIs ==
  ASSUME NEW mem, NEW job, job.out \in Nat
  PROVE  /\ DOMAIN WriteOf(mem, job) = DOMAIN mem
         /\ \A x \in DOMAIN mem : x \notin Spot(job) => WriteOf(mem, job)[x] = mem[x]
         /\ job.out \in DOMAIN mem => WriteOf(mem, job)[job.out] = CodeByte(FoundFor(job).code)
         /\ job.out + 1 \in DOMAIN mem =>
              WriteOf(mem, job)[job.out + 1] = WordAt(symbolBase, job.cur)[1]
<1> DEFINE o == job.out
           c == FoundFor(job).code
           b == WordAt(symbolBase, job.cur)[1]
           after == Scattered(mem, o, c, b)
<1>1. WriteOf(mem, job) = after
  BY DEF WriteOf
<1>2. o \in Nat /\ ScatterWidth \in Nat /\ ScatterWidth >= 2
  BY KernelAssumption
<1> HIDE DEF o, c, b
<1>3. DOMAIN after = DOMAIN mem
  BY DEF Scattered
<1>4. ASSUME NEW x \in DOMAIN mem, x \notin o .. o + ScatterWidth - 1 PROVE after[x] = mem[x]
  <2>1. o \in o .. o + ScatterWidth - 1 /\ o + 1 \in o .. o + ScatterWidth - 1
    BY <1>2
  <2>2. \A y \in o + 2 .. o + ScatterWidth - 1 : y \in o .. o + ScatterWidth - 1
    BY <1>2
  <2>3. x # o /\ x # o + 1 /\ x \notin o + 2 .. o + ScatterWidth - 1
    BY <1>4, <2>1, <2>2
  <2> QED
    BY <2>3 DEF Scattered
<1>5. o \in DOMAIN mem => after[o] = CodeByte(c)
  BY DEF Scattered
<1>6. o + 1 \in DOMAIN mem => after[o + 1] = b
  <2>1. o + 1 # o
    BY <1>2
  <2> QED
    BY <2>1 DEF Scattered
<1> QED
  BY <1>1, <1>3, <1>4, <1>5, <1>6 DEF Spot, o, c, b

(* Between two lanes, nothing is written but by the lanes between them.    *)
LEMMA MemStays ==
  ASSUME NEW k, NEW a \in 0 .. Lanes, NEW b \in 0 .. Lanes, a <= b,
         \A l \in Lane : Loaded(k)[l].out \in Nat,
         NEW x \in DOMAIN k.mem, \A l \in a + 1 .. b : x \notin Spot(Loaded(k)[l])
  PROVE  /\ MemFrom(k)[b][x] = MemFrom(k)[a][x]
         /\ DOMAIN MemFrom(k)[a] = DOMAIN k.mem /\ DOMAIN MemFrom(k)[b] = DOMAIN k.mem
<1> DEFINE M == MemFrom(k)
<1>0. Lanes \in Nat
  BY LaneType
<1>1. M[0] = k.mem /\ \A l \in Lane : M[l] = WriteOf(M[l - 1], Loaded(k)[l])
  BY MemExists
<1> HIDE DEF M
<1>2. \A l \in Nat : l <= Lanes => DOMAIN M[l] = DOMAIN k.mem
  <2> DEFINE T == {l \in Nat : l <= Lanes => DOMAIN M[l] = DOMAIN k.mem}
  <2>1. 0 \in T
    BY <1>1
  <2>2. ASSUME NEW l \in Nat, l \in T PROVE l + 1 \in T
    <3> SUFFICES ASSUME l + 1 <= Lanes PROVE DOMAIN M[l + 1] = DOMAIN k.mem
      OBVIOUS
    <3>1. l + 1 \in Lane /\ (l + 1) - 1 = l /\ l <= Lanes
      BY <1>0 DEF Lane
    <3>2. DOMAIN M[l] = DOMAIN k.mem
      BY <2>2, <3>1
    <3>3. M[l + 1] = WriteOf(M[l], Loaded(k)[l + 1])
      BY <3>1, <1>1
    <3>4. Loaded(k)[l + 1].out \in Nat
      BY <3>1
    <3>5. DOMAIN WriteOf(M[l], Loaded(k)[l + 1]) = DOMAIN M[l]
      BY <3>4, WriteIs
    <3> QED
      BY <3>2, <3>3, <3>5
  <2> HIDE DEF T
  <2>3. \A l \in Nat : l \in T
    BY <2>1, <2>2, SetInduction
  <2> QED
    BY <2>3 DEF T
<1>3. \A d \in Nat : a + d <= b => M[a + d][x] = M[a][x]
  <2> DEFINE T == {d \in Nat : a + d <= b => M[a + d][x] = M[a][x]}
  <2>1. 0 \in T
    <3>1. a + 0 = a
      BY <1>0
    <3> QED
      BY <3>1
  <2>2. ASSUME NEW d \in Nat, d \in T PROVE d + 1 \in T
    <3> SUFFICES ASSUME a + (d + 1) <= b PROVE M[a + (d + 1)][x] = M[a][x]
      OBVIOUS
    <3> DEFINE l == a + (d + 1)
    <3>1. l \in Lane /\ l - 1 = a + d /\ a + d <= b /\ l \in a + 1 .. b /\ a + d \in Nat /\ a + d <= Lanes
      BY <1>0 DEF Lane
    <3> HIDE DEF l
    <3>2. M[l - 1][x] = M[a][x] /\ DOMAIN M[l - 1] = DOMAIN k.mem
      BY <2>2, <3>1, <1>2
    <3>3. M[l] = WriteOf(M[l - 1], Loaded(k)[l]) /\ Loaded(k)[l].out \in Nat /\ x \notin Spot(Loaded(k)[l])
      BY <3>1, <1>1
    <3>4. WriteOf(M[l - 1], Loaded(k)[l])[x] = M[l - 1][x]
      BY <3>2, <3>3, WriteIs
    <3>5. M[l][x] = M[a][x]
      BY <3>2, <3>3, <3>4
    <3> QED
      BY <3>5 DEF l
  <2> HIDE DEF T
  <2>3. \A d \in Nat : d \in T
    BY <2>1, <2>2, SetInduction
  <2> QED
    BY <2>3 DEF T
<1>4. b - a \in Nat /\ a + (b - a) = b /\ a + (b - a) <= b
  BY <1>0
<1>5. M[b][x] = M[a][x]
  BY <1>3, <1>4
<1>6. DOMAIN M[a] = DOMAIN k.mem /\ DOMAIN M[b] = DOMAIN k.mem
  BY <1>0, <1>2
<1> QED
  BY <1>5, <1>6 DEF M

(* A lane whose bytes no other lane writes finds its code there, and the   *)
(* bytes that no lane writes stay.                                         *)
LEMMA LaneWrites ==
  ASSUME NEW k, \A l \in Lane : Loaded(k)[l].out \in Nat, NEW l0 \in Lane,
         NEW x \in DOMAIN k.mem, \A l \in Lane : l # l0 => x \notin Spot(Loaded(k)[l])
  PROVE  LET after == MemFrom(k)[Lanes]
             job == Loaded(k)[l0]
         IN  /\ x \notin Spot(job) => after[x] = k.mem[x]
             /\ x = job.out => after[x] = CodeByte(FoundFor(job).code)
             /\ x = job.out + 1 => after[x] = WordAt(symbolBase, job.cur)[1]
             /\ DOMAIN after = DOMAIN k.mem
<1> DEFINE M == MemFrom(k)
           job == Loaded(k)[l0]
<1>0. Lanes \in Nat /\ l0 \in 1 .. Lanes
  BY LaneType DEF Lane
<1>1. M[0] = k.mem /\ M[l0] = WriteOf(M[l0 - 1], job)
  BY MemExists
<1>2. M[l0 - 1][x] = M[0][x] /\ DOMAIN M[l0 - 1] = DOMAIN k.mem
  <2>1. 0 \in 0 .. Lanes /\ l0 - 1 \in 0 .. Lanes /\ 0 <= l0 - 1
    BY <1>0
  <2>2. \A l \in 0 + 1 .. l0 - 1 : l \in Lane /\ l # l0
    BY <1>0 DEF Lane
  <2>3. \A l \in 0 + 1 .. l0 - 1 : x \notin Spot(Loaded(k)[l])
    BY <2>2
  <2> QED
    BY <2>1, <2>3, MemStays
<1>3. M[Lanes][x] = M[l0][x] /\ DOMAIN M[Lanes] = DOMAIN k.mem
  <2>1. l0 \in 0 .. Lanes /\ Lanes \in 0 .. Lanes /\ l0 <= Lanes
    BY <1>0
  <2>2. \A l \in l0 + 1 .. Lanes : l \in Lane /\ l # l0
    BY <1>0 DEF Lane
  <2>3. \A l \in l0 + 1 .. Lanes : x \notin Spot(Loaded(k)[l])
    BY <2>2
  <2> QED
    BY <2>1, <2>3, MemStays
<1> HIDE DEF M
<1>4. job.out \in Nat
  OBVIOUS
<1> HIDE DEF job
<1>5. /\ x \notin Spot(job) => WriteOf(M[l0 - 1], job)[x] = M[l0 - 1][x]
      /\ x = job.out => WriteOf(M[l0 - 1], job)[x] = CodeByte(FoundFor(job).code)
      /\ x = job.out + 1 => WriteOf(M[l0 - 1], job)[x] = WordAt(symbolBase, job.cur)[1]
  BY <1>2, <1>4, WriteIs
<1> QED
  BY <1>1, <1>2, <1>3, <1>5 DEF M, job

--------------------------------------------------------------------------------
(* No two jobs have one number, wherever they are.                         *)
LEMMA OrderedApart ==
  ASSUME JobsNumbered, NEW m \in 1 .. Len(input), NEW n \in 1 .. Len(input),
         Ordered[m].pos = Ordered[n].pos
  PROVE  m = n
<1> DEFINE R == Range(input)
           c == Len(input)
           D == 1 .. c
<1>1. c \in Nat /\ DOMAIN input = D /\ IsFiniteSet(R) /\ Cardinality(R) = c
  BY JobCounts DEF JobsNumbered
<1>2. /\ DOMAIN Ordered = D /\ \A i \in D : Ordered[i] \in R
      /\ \A i \in D : \E j \in D : Ordered[j] = input[i]
  BY SortedJobs
<1>3. Ordered = [i \in D |-> Ordered[i]]
  <2>1. Ordered = [i \in DOMAIN input |->
           CHOOSE j \in Range(input) : Cardinality({k \in Range(input) : Before(k, j)}) = i - 1]
    BY Zenon DEF Ordered
  <2> DEFINE pick(i) == CHOOSE j \in Range(input) :
                          Cardinality({k \in Range(input) : Before(k, j)}) = i - 1
  <2>2. Ordered = [i \in D |-> pick(i)]
    BY <2>1, <1>1, Zenon
  <2> HIDE DEF pick
  <2> QED
    BY <2>2
<1>4. \A j \in R : \E i \in D : input[i] = j
  BY <1>1 DEF Range
<1>5. \A i \in D : input[i].pos = i - 1
  BY <1>1 DEF JobsNumbered
<1> HIDE DEF R, c
<1>6. \A j \in R : \E i \in D : Ordered[i] = j
  BY <1>2, <1>4
<1>7. Ordered \in Surjection(D, R)
  <2>1. Ordered \in [D -> R]
    BY <1>2, <1>3
  <2> QED
    BY <2>1, <1>6 DEF Surjection
<1>8. IsFiniteSet(D) /\ Cardinality(D) = c
  BY <1>1, FS_Interval
<1>9. Ordered \in Injection(D, R)
  <2> HIDE DEF D
  <2> QED
    BY <1>1, <1>7, <1>8, FS_Surjection
<1>10. m \in D /\ n \in D
  BY DEF c
<1>11. \A i, j \in R : i.pos = j.pos => i = j
  <2>1. ASSUME NEW i \in R, NEW j \in R, i.pos = j.pos PROVE i = j
    <3>1. PICK a \in D : input[a] = i
      BY <1>4
    <3>2. PICK b \in D : input[b] = j
      BY <1>4
    <3>3. a - 1 = b - 1
      BY <2>1, <3>1, <3>2, <1>5
    <3>4. a = b
      BY <3>3, <1>1
    <3> QED
      BY <3>1, <3>2, <3>4
  <2> QED
    BY <2>1
<1>12. Ordered[m] = Ordered[n]
  BY <1>2, <1>10, <1>11
<1> QED
  BY <1>9, <1>10, <1>12 DEF Injection, IsInjective

(* Lanes stored one behind the other do not lie in one place.              *)
LEMMA PlacesApart ==
  ASSUME NEW S \in SUBSET Nat, IsFiniteSet(S), NEW l \in S, NEW m \in S, l # m
  PROVE  Cardinality({i \in S : i <= l}) # Cardinality({i \in S : i <= m})
<1>0. \A a, b, i \in Nat : a < b => b <= b /\ ~ (b <= a) /\ (i <= a => i <= b)
  OBVIOUS
<1>1. ASSUME NEW a \in S, NEW b \in S, a < b
      PROVE  Cardinality({i \in S : i <= a}) # Cardinality({i \in S : i <= b})
  <2> DEFINE A == {i \in S : i <= a}
             B == {i \in S : i <= b}
  <2>1. A \in SUBSET B /\ B \in SUBSET S
    <3>1. \A i \in S : i <= a => i <= b
      BY <1>0, <1>1
    <3> QED
      BY <3>1
  <2>2. b \in B /\ b \notin A
    BY <1>0, <1>1
  <2> HIDE DEF A, B
  <2>3. IsFiniteSet(B)
    BY <2>1, FS_Subset
  <2>4. Cardinality(A) # Cardinality(B)
    BY <2>1, <2>2, <2>3, FS_Subset
  <2> QED
    BY <2>4 DEF A, B
<1>2. l < m \/ m < l
  OBVIOUS
<1> QED
  BY <1>1, <1>2

(* So the finished lanes are jobs of different numbers.                    *)
LEMMA PackedApart ==
  ASSUME NEW S \in SUBSET Nat, IsFiniteSet(S), NEW lane,
         NEW m \in DOMAIN Packed(lane, S), NEW n \in DOMAIN Packed(lane, S), m # n
  PROVE  \E l, o \in S : l # o /\ Packed(lane, S)[m] = lane[l] /\ Packed(lane, S)[n] = lane[o]
<1> DEFINE c == Cardinality(S)
           P == Less(S)
<1>1. c \in Nat /\ DOMAIN Packed(lane, S) = 1 .. c
  BY FS_CardinalityType DEF Packed
<1>2. TotalOrder(S, P) /\ \A l \in S : {k \in S : <<k, l>> \in P} = {k \in S : k < l}
  BY NumbersOrdered
<1>3. \A i \in 1 .. c : Nth(S, P, i) \in S /\ Rank2(S, P, Nth(S, P, i)) = i - 1
  BY <1>2, NthOfRank
<1> HIDE DEF P, c
<1>4. \A i \in 1 .. c : Packed(lane, S)[i] = lane[Nth(S, P, i)]
  <2>1. ASSUME NEW i \in 1 .. c
        PROVE  (CHOOSE l \in S : Cardinality({k \in S : k < l}) = i - 1) = Nth(S, P, i)
    <3>1. \A l \in S : Cardinality({k \in S : k < l}) = Rank2(S, P, l)
      BY <1>2 DEF Rank2
    <3> QED
      BY <3>1 DEF Nth
  <2> QED
    BY <2>1 DEF Packed, c
<1>5. m \in 1 .. c /\ n \in 1 .. c
  BY <1>1
<1>6. Nth(S, P, m) # Nth(S, P, n)
  <2>1. m - 1 # n - 1
    BY <1>1, <1>5
  <2> QED
    BY <2>1, <1>3, <1>5
<1> QED
  BY <1>3, <1>4, <1>5, <1>6

(* A job that is not done has a number of its own.                         *)
ApartIn(s) ==
  \A d, e \in DOMAIN s : d # e /\ s[d].cur < s[d].end => s[d].pos # s[e].pos

(* Two sequences of jobs, one behind the other.                            *)
LEMMA JoinedApart ==
  ASSUME NEW a \in Seq(Job), NEW b \in Seq(Job), ApartIn(a), ApartIn(b),
         \A i \in DOMAIN a : \A j \in DOMAIN b :
           a[i].cur < a[i].end \/ b[j].cur < b[j].end => a[i].pos # b[j].pos
  PROVE  ApartIn(a \o b)
<1> DEFINE whole == a \o b
           m == Len(a)
           n == Len(b)
<1>1. Concatenates(Job, a, b, whole)
  BY ConcatParts
<1> HIDE DEF whole
<1>2. /\ whole \in Seq(Job) /\ Len(whole) = Len(a) + Len(b)
      /\ \A i \in 1 .. Len(a) : whole[i] = a[i]
      /\ \A i \in 1 .. Len(b) : whole[Len(a) + i] = b[i]
  BY <1>1 DEF Concatenates
<1>3. /\ DOMAIN a = 1 .. m /\ DOMAIN b = 1 .. n /\ DOMAIN whole = 1 .. m + n
      /\ m \in Nat /\ n \in Nat
  BY <1>2
<1>4. (\A i \in 1 .. m : whole[i] = a[i]) /\ \A i \in 1 .. n : whole[m + i] = b[i]
  BY <1>2
<1> HIDE DEF m, n
<1>5. ASSUME NEW d \in 1 .. m + n
      PROVE  \/ d \in DOMAIN a /\ whole[d] = a[d]
             \/ d - m \in DOMAIN b /\ whole[d] = b[d - m] /\ d \notin DOMAIN a
  <2>1. d \in 1 .. m \/ (d - m \in 1 .. n /\ m + (d - m) = d /\ d \notin 1 .. m)
    BY <1>3
  <2>2. CASE d \in 1 .. m
    BY <2>2, <1>3, <1>4
  <2>3. CASE d - m \in 1 .. n /\ m + (d - m) = d /\ d \notin 1 .. m
    BY <2>3, <1>3, <1>4
  <2> QED
    BY <2>1, <2>2, <2>3
<1>6. ASSUME NEW d \in DOMAIN whole, NEW e \in DOMAIN whole, d # e, whole[d].cur < whole[d].end
      PROVE  whole[d].pos # whole[e].pos
  <2>1. /\ \/ d \in DOMAIN a /\ whole[d] = a[d]
           \/ d - m \in DOMAIN b /\ whole[d] = b[d - m] /\ d \notin DOMAIN a
        /\ \/ e \in DOMAIN a /\ whole[e] = a[e]
           \/ e - m \in DOMAIN b /\ whole[e] = b[e - m] /\ e \notin DOMAIN a
    BY <1>3, <1>5
  <2>2. d - m # e - m
    BY <1>3, <1>6
  <2>3. CASE d \in DOMAIN a /\ whole[d] = a[d]
    <3>1. CASE e \in DOMAIN a /\ whole[e] = a[e]
      BY <3>1, <2>3, <1>6 DEF ApartIn
    <3>2. CASE e - m \in DOMAIN b /\ whole[e] = b[e - m]
      BY <3>2, <2>3, <1>6
    <3> QED
      BY <3>1, <3>2, <2>1
  <2>4. CASE d - m \in DOMAIN b /\ whole[d] = b[d - m]
    <3>1. CASE e \in DOMAIN a /\ whole[e] = a[e]
      BY <3>1, <2>4, <1>6
    <3>2. CASE e - m \in DOMAIN b /\ whole[e] = b[e - m]
      BY <3>2, <2>2, <2>4, <1>6 DEF ApartIn
    <3> QED
      BY <3>1, <3>2, <2>1
  <2> QED
    BY <2>1, <2>3, <2>4
<1> QED
  BY <1>6 DEF ApartIn, whole

(* The numbers in the lanes, among the finished jobs and of those still to *)
(* be loaded.                                                              *)
LanesApart(lane, done, next) ==
  /\ \A l, m \in Lane : l # m /\ lane[l] # Idle /\ lane[m] # Idle => lane[l].pos # lane[m].pos
  /\ \A l \in Lane : lane[l] # Idle => \A d \in DOMAIN done : lane[l].pos # done[d].pos
  /\ \A n \in next + 1 .. Len(input) :
       /\ \A l \in Lane : lane[l] # Idle => Ordered[n].pos # lane[l].pos
       /\ \A d \in DOMAIN done : Ordered[n].pos # done[d].pos

(* What the kernel hands back.                                             *)
LEMMA BackApart ==
  ASSUME NEW k, k.done \in Seq(Job), \A l \in Lane : k.lane[l] = Idle \/ k.lane[l] \in Job,
         \A d \in DOMAIN k.done : k.done[d].cur = k.done[d].end,
         LanesApart(k.lane, k.done, k.next)
  PROVE  ApartIn(KernelOutput(k))
<1> DEFINE from == [i \in Lane |-> k.lane[(Groups - 1 - (i - 1) \div Width) * Width
                                           + ((i - 1) % Width) + 1]]
           S == {i \in Lane : from[i] # Idle}
           p == Packed(from, S)
<1>1. \A i \in Lane : from[i] = k.lane[Backwards(i)] /\ Backwards(i) \in Lane
  BY BackwardsTwice DEF Backwards
<1>2. KernelOutput(k) = k.done \o p
  BY DEF KernelOutput
<1> HIDE DEF from
<1>3. S \in SUBSET Lane /\ \A i \in Lane : i \in S <=> from[i] # Idle
  OBVIOUS
<1> HIDE DEF S
<1>4. S \in SUBSET Nat /\ IsFiniteSet(S)
  BY <1>3, LaneType
<1>5. \A i \in S : /\ from[i] \in Job /\ from[i] # Idle /\ from[i] = k.lane[Backwards(i)]
                   /\ Backwards(i) \in Lane /\ i \in Lane
  BY <1>1, <1>3
<1>6. Stores(p, from, S, Cardinality(S)) /\ p \in Seq(Job)
  BY <1>4, <1>5, PackedLanes, PackedType
<1>7. \A m, n \in DOMAIN p : m # n => \E l, o \in S : l # o /\ p[m] = from[l] /\ p[n] = from[o]
  BY <1>4, PackedApart
<1>8. \A n \in DOMAIN p : \E l \in S : p[n] = from[l]
  BY <1>6 DEF Stores
<1> HIDE DEF p
<1>9. ApartIn(p)
  <2>1. ASSUME NEW m \in DOMAIN p, NEW n \in DOMAIN p, m # n PROVE p[m].pos # p[n].pos
    <3>1. PICK l \in S, o \in S : l # o /\ p[m] = from[l] /\ p[n] = from[o]
      BY <2>1, <1>7
    <3>2. Backwards(l) # Backwards(o)
      BY <3>1, <1>5, BackwardsTwice
    <3> QED
      BY <3>1, <3>2, <1>5 DEF LanesApart
  <2> QED
    BY <2>1 DEF ApartIn
<1>10. \A d \in DOMAIN k.done : k.done[d].cur \in Nat /\ ~ (k.done[d].cur < k.done[d].end)
  <2>1. ASSUME NEW d \in DOMAIN k.done PROVE k.done[d].cur \in Nat
    <3>1. k.done[d] \in Job
      BY ElementType
    <3> QED
      BY <3>1 DEF Job
  <2> QED
    BY <2>1
<1>11. ApartIn(k.done)
  BY <1>10 DEF ApartIn
<1>12. ASSUME NEW i \in DOMAIN k.done, NEW j \in DOMAIN p PROVE k.done[i].pos # p[j].pos
  <2>1. PICK l \in S : p[j] = from[l]
    BY <1>8
  <2> QED
    BY <2>1, <1>5 DEF LanesApart
<1>13. ApartIn(k.done \o p)
  BY <1>6, <1>9, <1>11, <1>12, JoinedApart
<1> QED
  BY <1>2, <1>13

(* Loading and moving keep them apart.                                     *)
LEMMA LoadedApart ==
  ASSUME JobsNumbered, NEW k, LanesApart(k.lane, k.done, k.next), k.next \in Nat,
         k.next + Cardinality(IdleLanes(k)) <= Len(k.jobs), Len(k.jobs) <= Len(input),
         Len(k.jobs) \in Nat, \A n \in 1 .. Len(k.jobs) : k.jobs[n] = Ordered[n]
  PROVE  /\ \A l, m \in Lane : l # m => Loaded(k)[l].pos # Loaded(k)[m].pos
         /\ \A l \in Lane : \A d \in DOMAIN k.done : Loaded(k)[l].pos # k.done[d].pos
         /\ \A n \in k.next + Cardinality(IdleLanes(k)) + 1 .. Len(input) :
              /\ \A l \in Lane : Ordered[n].pos # Loaded(k)[l].pos
              /\ \A d \in DOMAIN k.done : Ordered[n].pos # k.done[d].pos
         /\ \A l \in Lane : \/ k.lane[l] # Idle /\ Loaded(k)[l] = k.lane[l]
                            \/ \E n \in 1 .. Len(k.jobs) : Loaded(k)[l] = Ordered[n]
<1> DEFINE I == IdleLanes(k)
           c == Cardinality(I)
           place(l) == Cardinality({i \in I : i <= l})
           N == Len(input)
           z == k.next
<1>1. I \in SUBSET Lane /\ \A l \in Lane : l \in I <=> k.lane[l] = Idle
  BY DEF IdleLanes
<1>2. c \in Nat /\ IsFiniteSet(I) /\ I \in SUBSET Nat
  BY <1>1, LaneType
<1> HIDE DEF c
<1>3. (\A l \in I : place(l) \in 1 .. c) /\ \A l, m \in I : l # m => place(l) # place(m)
  BY <1>2, PlacesTaken, PlacesApart DEF c
<1>4. \A l \in Lane : IF l \in I THEN Loaded(k)[l] = k.jobs[z + place(l)]
                                 ELSE Loaded(k)[l] = k.lane[l] /\ k.lane[l] # Idle
  BY <1>1 DEF Loaded
<1>5. N \in Nat /\ z \in Nat /\ z + c <= Len(k.jobs) /\ Len(k.jobs) <= N
  BY DEF JobsNumbered, c
<1> HIDE DEF place, I, N, z
<1>6. \A l \in I : /\ z + place(l) \in z + 1 .. N /\ z + place(l) \in 1 .. N
                   /\ z + place(l) \in 1 .. Len(k.jobs)
                   /\ z + place(l) <= z + c /\ place(l) \in Int
                   /\ Loaded(k)[l] = Ordered[z + place(l)]
  <2>1. ASSUME NEW l \in I
        PROVE  /\ z + place(l) \in z + 1 .. N /\ z + place(l) \in 1 .. N
               /\ z + place(l) \in 1 .. Len(k.jobs)
               /\ z + place(l) <= z + c /\ place(l) \in Int
    BY <1>2, <1>3, <1>5
  <2> QED
    BY <2>1, <1>1, <1>4
<1>7. /\ \A l, m \in Lane : l # m /\ k.lane[l] # Idle /\ k.lane[m] # Idle =>
           k.lane[l].pos # k.lane[m].pos
      /\ \A l \in Lane : k.lane[l] # Idle => \A d \in DOMAIN k.done : k.lane[l].pos # k.done[d].pos
      /\ \A n \in z + 1 .. N :
           /\ \A l \in Lane : k.lane[l] # Idle => Ordered[n].pos # k.lane[l].pos
           /\ \A d \in DOMAIN k.done : Ordered[n].pos # k.done[d].pos
  BY Zenon DEF LanesApart, z, N
<1>8. \A m, n \in 1 .. N : m # n => Ordered[m].pos # Ordered[n].pos
  BY OrderedApart DEF N
<1>9. ASSUME NEW l \in Lane, NEW m \in Lane, l # m PROVE Loaded(k)[l].pos # Loaded(k)[m].pos
  <2>1. CASE l \in I /\ m \in I
    <3>1. z + place(l) # z + place(m)
      BY <2>1, <1>3, <1>5, <1>6, <1>9
    <3> QED
      BY <2>1, <3>1, <1>6, <1>8
  <2>2. CASE l \in I /\ m \notin I
    BY <2>2, <1>4, <1>6, <1>7
  <2>3. CASE l \notin I /\ m \in I
    <3>1. Loaded(k)[m] = Ordered[z + place(m)] /\ z + place(m) \in z + 1 .. N
      BY <2>3, <1>6
    <3>2. Loaded(k)[l] = k.lane[l] /\ k.lane[l] # Idle
      BY <2>3, <1>4
    <3> QED
      BY <3>1, <3>2, <1>7
  <2>4. CASE l \notin I /\ m \notin I
    BY <2>4, <1>4, <1>7, <1>9
  <2> QED
    BY <2>1, <2>2, <2>3, <2>4
<1>10. ASSUME NEW l \in Lane, NEW d \in DOMAIN k.done PROVE Loaded(k)[l].pos # k.done[d].pos
  <2>1. CASE l \in I
    BY <2>1, <1>6, <1>7
  <2>2. CASE l \notin I
    BY <2>2, <1>4, <1>7
  <2> QED
    BY <2>1, <2>2
<1>11. ASSUME NEW n \in z + c + 1 .. N
       PROVE  /\ \A l \in Lane : Ordered[n].pos # Loaded(k)[l].pos
              /\ \A d \in DOMAIN k.done : Ordered[n].pos # k.done[d].pos
  <2>1. n \in z + 1 .. N /\ n \in 1 .. N /\ n > z + c
    BY <1>2, <1>5
  <2>2. ASSUME NEW l \in Lane PROVE Ordered[n].pos # Loaded(k)[l].pos
    <3>1. CASE l \in I
      <4>1. z + place(l) # n
        BY <3>1, <2>1, <1>2, <1>5, <1>6
      <4> QED
        BY <4>1, <3>1, <2>1, <1>6, <1>8
    <3>2. CASE l \notin I
      BY <3>2, <2>1, <1>4, <1>7
    <3> QED
      BY <3>1, <3>2
  <2> QED
    BY <2>1, <2>2, <1>7
<1>12. \A l \in Lane : \/ k.lane[l] # Idle /\ Loaded(k)[l] = k.lane[l]
                       \/ \E n \in 1 .. Len(k.jobs) : Loaded(k)[l] = Ordered[n]
  BY <1>4, <1>6
<1> QED
  BY <1>9, <1>10, <1>11, <1>12 DEF z, c, I, N

--------------------------------------------------------------------------------
(* The invariant.  Rooms of different jobs are apart.                      *)
RoomsApart ==
  \A i, j \in DOMAIN input : i < j => input[i].out + Room(Size(input[i])) <= input[j].out

(* The jobs in the kernel, and those that it has left.                     *)
KernelContent ==
  /\ DOMAIN kernel.mem = 0 .. StageMax - 1
  /\ LanesApart(kernel.lane, kernel.done, kernel.next)
  /\ \A l \in Lane : kernel.lane[l] # Idle => Emitted(kernel.mem, kernel.lane[l])
  /\ \A d \in DOMAIN kernel.done :
       Emitted(kernel.mem, kernel.done[d]) /\ kernel.done[d].cur = kernel.done[d].end

FinishContent == ApartIn(output) /\ \A d \in DOMAIN output : Emitted(codeBase, output[d])

(* How much of a string is in jobs or in the output, and what both say.    *)
Reached(l) == IF l < curLine THEN Len(line[l]) ELSE curOff
JobTexts   == [i \in DOMAIN input |-> TextOf(table, ChunkOf(i))]
Pieces     == [l \in 1 .. Len(strOut) |-> Piece(table, line[l], Reached(l))]

BatchContent ==
  /\ RoomsApart
  /\ Content(JobTexts, jobLine, dst, strOut, lenOut, Pieces)
  /\ Begun => curOff % ChunkMax = 0 \/ curOff = Len(line[curLine])
  /\ \A l \in 1 .. Len(strOut) : strOut[l] = NotYet /\ l < curLine => JobsOf(jobLine, l) # {}

CInv ==
  /\ IInv
  /\ BatchContent
  /\ DOMAIN codeBase = 0 .. StageMax - 1
  /\ pc = "kernel" => KernelContent
  /\ pc = "finish" => FinishContent
  /\ pc = "returned" => input = <<>>
  /\ pc = "line" /\ input # <<>> => Fits(curLine)

(* Steps that leave the batch and the output alone.                        *)
LEMMA BatchContentStays ==
  ASSUME BatchContent,
         UNCHANGED <<table, line, input, symbolBase, curLine, curOff, jobLine, dst, strOut, lenOut>>
  PROVE  BatchContent'
<1>1. RoomsApart' /\ JobTexts' = JobTexts /\ Pieces' = Pieces /\ (Begun' <=> Begun)
  BY DEF BatchContent, RoomsApart, Room, Size, JobTexts, ChunkOf, Pieces, Reached, Begun
<1> QED
  BY <1>1 DEF BatchContent

LEMMA EmittedSame ==
  ASSUME UNCHANGED <<table, input, symbolBase>>
  PROVE  \A mem, job : Emitted(mem, job)' <=> Emitted(mem, job)
BY DEF Emitted, ChunkOf, Start, Size

(* The steps outside the kernel that change no job.                        *)
LEMMA InitContent == ASSUME Finalized, Init PROVE CInv
<1>1. IInv
  BY InitInv
<1>2. /\ input = <<>> /\ jobLine = <<>> /\ dst = <<>> /\ strOut = <<>> /\ lenOut = <<>> /\ pc = "line"
      /\ curLine = 1 /\ codeBase = [i \in 0 .. StageMax - 1 |-> 0]
  BY DEF Init
<1>3. JobTexts = <<>> /\ Pieces = <<>> /\ DOMAIN input = {} /\ DOMAIN strOut = {} /\ Len(strOut) = 0
      /\ 1 .. Len(strOut) = {}
  BY <1>2 DEF JobTexts, Pieces
<1>4. Content(<<>>, <<>>, <<>>, <<>>, <<>>, <<>>)
  <2>1. FlattenSeq(<<>>) = <<>> /\ <<>> \o <<>> = <<>>
    BY FlattenNone
  <2>2. UpTo(<<>>, 0) = 0
    <3>1. \A i \in 1 .. 0 : <<>>[i] \in Nat
      OBVIOUS
    <3> QED
      BY <3>1, UpToIs
  <2>3. Len(<<>>) = 0 /\ 1 .. 0 = {} /\ <<>> \in Seq(Seq(Nat)) /\ <<>> \in Seq(Nat) /\ <<>> \in Seq(Int)
    OBVIOUS
  <2> QED
    BY <2>1, <2>2, <2>3 DEF Content
<1>5. BatchContent
  BY <1>2, <1>3, <1>4 DEF BatchContent, RoomsApart, Begun
<1> QED
  BY <1>1, <1>2, <1>5 DEF CInv

LEMMA StageFullContent == ASSUME CInv, StageFull PROVE CInv'
<1>1. /\ pc = "job" /\ pc' = "fire" /\ IInv'
      /\ UNCHANGED <<table, line, input, symbolBase, curLine, curOff, jobLine, dst, strOut, lenOut,
                     codeBase>>
  BY StageFullPreserves DEF CInv, StageFull, arguments, batch, result
<1> QED
  BY <1>1, BatchContentStays DEF CInv

LEMMA ReturnContent == ASSUME CInv, Return PROVE CInv'
<1>1. /\ pc = "line" /\ pc' = "returned" /\ IInv' /\ ~ Fits(curLine)
      /\ UNCHANGED <<table, line, input, symbolBase, curLine, curOff, jobLine, dst, strOut, lenOut,
                     codeBase>>
  BY ReturnPreserves DEF CInv, Return, arguments, batch, result
<1>2. input' = <<>>
  BY <1>1 DEF CInv
<1> QED
  BY <1>1, <1>2, BatchContentStays DEF CInv

(* The next string, of which nothing is in jobs yet.                       *)
LEMMA StartLineContent == ASSUME Finalized, CInv, StartLine PROVE CInv'
<1>0. IInv /\ BatchContent /\ Given /\ Position
  BY DEF CInv, IInv
<1>1. /\ pc = "line" /\ pc' = "job" /\ curLine <= Len(line)
      /\ UNCHANGED <<table, line, input, symbolBase, curLine, jobLine, dst, codeBase>>
      /\ strOut' = Append(strOut, NotYet) /\ lenOut' = Append(lenOut, 0) /\ curOff' = 0
  BY DEF StartLine, Fits, arguments
<1>2. IInv'
  BY <1>0, StartLinePreserves
<1>3. Len(strOut) = curLine - 1 /\ curLine \in 1 .. Len(line) /\ Len(line) \in Nat
  BY <1>0, <1>1, LineType DEF Position, Begun
<1> DEFINE n == Len(strOut)
<1>4. n \in Nat /\ n + 1 = curLine /\ Len(strOut') = n + 1 /\ strOut'[n + 1] = NotYet
      /\ \A l \in 1 .. n : strOut'[l] = strOut[l]
  <2>1. strOut \in Seq(Int) /\ Len(strOut) = Len(Pieces)
    BY <1>0 DEF BatchContent, Content
  <2>2. NotYet \in Int
    BY DEF NotYet
  <2>3. n \in Nat /\ Len(strOut') = n + 1 /\ strOut'[n + 1] = NotYet
        /\ \A l \in 1 .. n : strOut'[l] = strOut[l]
    BY <1>1, <2>1, <2>2, AppendAt
  <2> QED
    BY <2>3, <1>3
<1> HIDE DEF n
<1>5. JobTexts' = JobTexts /\ RoomsApart'
  BY <1>0, <1>1 DEF JobTexts, ChunkOf, Size, BatchContent, RoomsApart, Room
<1>6. Pieces = [l \in 1 .. n |-> Piece(table, line[l], Len(line[l]))]
  <2>1. \A l \in 1 .. n : Reached(l) = Len(line[l])
    BY <1>3, <1>4 DEF Reached
  <2> QED
    BY <2>1 DEF Pieces, n
<1>7. Pieces' = [l \in 1 .. n + 1 |-> IF l <= n THEN Piece(table, line[l], Len(line[l])) ELSE <<>>]
  <2>1. Pieces' = [l \in 1 .. n + 1 |-> Piece(table, line[l], IF l < curLine THEN Len(line[l]) ELSE 0)]
    BY <1>1, <1>4 DEF Pieces, Reached
  <2>2. \A l \in 1 .. n + 1 : l < curLine <=> l <= n
    BY <1>3, <1>4
  <2>3. Piece(table, line[curLine], 0) = <<>>
    <3>1. table \in Tables /\ line[curLine] \in Seq(Byte) /\ 0 \in Nat /\ 0 <= Len(line[curLine])
      BY <1>0, <1>3, LineType DEF Given
    <3> QED
      BY <3>1, PieceType
  <2>4. \A l \in 1 .. n + 1 : ~ (l <= n) => l = curLine
    BY <1>3, <1>4
  <2>5. \A l \in 1 .. n + 1 : Piece(table, line[l], IF l < curLine THEN Len(line[l]) ELSE 0)
                               = IF l <= n THEN Piece(table, line[l], Len(line[l])) ELSE <<>>
    BY <2>2, <2>3, <2>4
  <2> QED
    BY <2>1, <2>5
<1>8. Pieces' = Append(Pieces, <<>>)
  <2>1. Pieces \in Seq(Seq(Nat)) /\ Len(Pieces) = n
    BY <1>0 DEF BatchContent, Content, n
  <2> DEFINE p == Pieces
             S == Seq(Nat)
             f(l) == Piece(table, line[l], Len(line[l]))
             q == [l \in 1 .. n + 1 |-> IF l <= n THEN f(l) ELSE <<>>]
  <2>2. <<>> \in S
    OBVIOUS
  <2>3. p \in Seq(S) /\ Len(p) = n /\ \A l \in 1 .. n : p[l] = f(l)
    BY <2>1, <1>6
  <2>4. Pieces' = q
    BY <1>7
  <2> HIDE DEF p, S, f
  <2>5. /\ Append(p, <<>>) \in Seq(S) /\ Len(Append(p, <<>>)) = n + 1
        /\ \A l \in 1 .. n : Append(p, <<>>)[l] = p[l]
        /\ Append(p, <<>>)[n + 1] = <<>>
    BY <2>2, <2>3, AppendAt
  <2>6. \A l \in 1 .. n : f(l) \in S
    BY <2>3, ElementType
  <2>7. \A l \in 1 .. n + 1 : (IF l <= n THEN f(l) ELSE <<>>) \in S
    <3>1. \A l \in 1 .. n + 1 : l <= n => l \in 1 .. n
      BY <1>4
    <3> QED
      BY <3>1, <2>2, <2>6
  <2>8. q \in Seq(S) /\ Len(q) = n + 1
    BY <2>7, <1>4
  <2>9. \A l \in 1 .. n + 1 : q[l] = Append(p, <<>>)[l]
    <3>1. ASSUME NEW l \in 1 .. n + 1 PROVE q[l] = Append(p, <<>>)[l]
      <4>1. CASE l <= n
        <5>1. l \in 1 .. n
          BY <4>1, <1>4
        <5> QED
          BY <4>1, <5>1, <2>3, <2>5
      <4>2. CASE ~ (l <= n)
        <5>1. l = n + 1
          BY <4>2, <1>4
        <5> QED
          BY <4>2, <5>1, <2>5
      <4> QED
        BY <4>1, <4>2
    <3> QED
      BY <3>1
  <2> HIDE DEF q
  <2>10. q = Append(p, <<>>)
    BY <2>5, <2>8, <2>9, SameElements
  <2> QED
    BY <2>4, <2>10 DEF p
<1>9. Content(JobTexts, jobLine, dst, strOut, lenOut, Pieces)'
  <2>1. Content(JobTexts, jobLine, dst, Append(strOut, NotYet), Append(lenOut, 0), Append(Pieces, <<>>))
    BY <1>0, ContentLine DEF BatchContent
  <2> QED
    BY <2>1, <1>1, <1>5, <1>8
<1>10. ASSUME NEW l \in 1 .. Len(strOut'), strOut'[l] = NotYet, l < curLine'
       PROVE  JobsOf(jobLine', l) # {}
  <2>1. l \in 1 .. n /\ strOut[l] = NotYet /\ l < curLine
    BY <1>1, <1>3, <1>4, <1>10
  <2> QED
    BY <2>1, <1>0, <1>1 DEF BatchContent, n
<1>11. curOff' % ChunkMax = 0
  <2>1. \A w \in Nat \ {0} : 0 % w = 0
    OBVIOUS
  <2> QED
    BY <2>1, <1>1, SIMDAssumption
<1>12. BatchContent'
  BY <1>5, <1>9, <1>10, <1>11 DEF BatchContent
<1> QED
  BY <1>1, <1>2, <1>12 DEF CInv

--------------------------------------------------------------------------------
(* What one job writes is none of another's.                               *)
LEMMA RoomBounds ==
  ASSUME Batch, NEW a, Inside(a)
  PROVE  /\ Start(a).out \in Nat /\ a.out \in Nat /\ Start(a).out <= a.out
         /\ a.pos + 1 \in DOMAIN input /\ a.pos \in Nat
         /\ Room(Size(Start(a))) \in Nat
         /\ a.out <= Start(a).out + Room(Size(Start(a)))
         /\ Start(a).out + Room(Size(Start(a))) <= StageMax
         /\ Running(a) => a.out + ScatterWidth <= Start(a).out + Room(Size(Start(a)))
<1> DEFINE s == Start(a)
           r == Room(Size(s))
<1>1. /\ a.pos + 1 \in 1 .. Len(input) /\ a \in Job /\ s = input[a.pos + 1]
      /\ s.out <= a.out /\ a.end = s.end /\ a.cur <= a.end
  BY SizesType DEF Inside, Start
<1>2. s \in Job
  BY <1>1, SizesType
<1>3. /\ a.cur \in s.cur .. s.end /\ a.out - s.out <= 2 * (a.cur - s.cur)
      /\ a.cur < a.end => a.out + ScatterWidth <= s.out + r
      /\ s.out + r <= StageMax
  BY <1>1, RoomKept
<1>4. a.cur \in Nat /\ a.out \in Nat /\ a.pos \in Nat /\ s.out \in Nat /\ s.cur \in Nat /\ s.end \in Nat
  BY <1>1, <1>2 DEF Job
<1>5. r = 2 * (s.end - s.cur) + Slack /\ Slack \in Nat
  BY SIMDAssumption DEF Room, Size
<1> HIDE DEF s, r
<1>6. r \in Nat /\ a.out <= s.out + r
  BY <1>3, <1>4, <1>5
<1>7. a.pos + 1 \in DOMAIN input
  BY DEF Inside
<1>8. Running(a) => a.out + ScatterWidth <= s.out + r
  BY <1>3 DEF Running
<1> QED
  BY <1>1, <1>3, <1>4, <1>6, <1>7, <1>8 DEF s, r

(* A job has written into its own room, and a lane writes into its own.    *)
LEMMA RoomsDisjoint ==
  ASSUME Batch, RoomsApart, NEW a, Inside(a), NEW b, Running(b), a.pos # b.pos
  PROVE  /\ \A x \in Start(a).out .. a.out - 1 : x \notin Spot(b)
         /\ Running(a) => a.out \notin Spot(b) /\ a.out + 1 \notin Spot(b)
<1> DEFINE sa == Start(a).out
           sb == Start(b).out
           ra == Room(Size(Start(a)))
           rb == Room(Size(Start(b)))
           w == ScatterWidth
<1>1. /\ sa \in Nat /\ a.out \in Nat /\ sa <= a.out /\ ra \in Nat /\ a.out <= sa + ra
      /\ Running(a) => a.out + w <= sa + ra
      /\ a.pos + 1 \in DOMAIN input /\ a.pos \in Nat
  BY RoomBounds
<1>2. /\ sb \in Nat /\ b.out \in Nat /\ sb <= b.out /\ rb \in Nat /\ b.out + w <= sb + rb
      /\ b.pos + 1 \in DOMAIN input /\ b.pos \in Nat
  <2>1. Inside(b)
    BY DEF Running
  <2> QED
    BY <2>1, RoomBounds
<1>3. sa + ra <= sb \/ sb + rb <= sa
  <2>1. a.pos + 1 < b.pos + 1 \/ b.pos + 1 < a.pos + 1
    BY <1>1, <1>2
  <2> QED
    BY <2>1, <1>1, <1>2 DEF RoomsApart, Start
<1>4. w \in Nat /\ w >= 2
  BY KernelAssumption
<1> HIDE DEF sa, sb, ra, rb, w
<1>5. ASSUME NEW x \in sa .. a.out - 1 PROVE x \notin b.out .. b.out + w - 1
  BY <1>1, <1>2, <1>3, <1>4
<1>6. ASSUME Running(a), NEW x \in {a.out, a.out + 1} PROVE x \notin b.out .. b.out + w - 1
  BY <1>1, <1>2, <1>3, <1>4, <1>6
<1> QED
  BY <1>5, <1>6 DEF Spot, sa, w

(* The bytes of a job are in the staging area.                             *)
LEMMA RoomStaged ==
  ASSUME Batch, NEW a, Inside(a)
  PROVE  /\ \A x \in Start(a).out .. a.out - 1 : x \in 0 .. StageMax - 1 /\ x \notin Spot(a)
         /\ Running(a) => a.out \in 0 .. StageMax - 1 /\ a.out + 1 \in 0 .. StageMax - 1
                          /\ a.out + 1 \in Spot(a)
<1> DEFINE sa == Start(a).out
           ra == Room(Size(Start(a)))
           w == ScatterWidth
           t == StageMax
<1>1. /\ sa \in Nat /\ a.out \in Nat /\ sa <= a.out /\ ra \in Nat /\ a.out <= sa + ra
      /\ Running(a) => a.out + w <= sa + ra
      /\ sa + ra <= t
  BY RoomBounds
<1>2. w \in Nat /\ w >= 2 /\ t \in Nat
  BY KernelAssumption, SIMDAssumption
<1> HIDE DEF sa, ra, w, t
<1>3. ASSUME NEW x \in sa .. a.out - 1 PROVE x \in 0 .. t - 1 /\ x \notin a.out .. a.out + w - 1
  BY <1>1, <1>2
<1>4. ASSUME Running(a)
      PROVE  a.out \in 0 .. t - 1 /\ a.out + 1 \in 0 .. t - 1 /\ a.out + 1 \in a.out .. a.out + w - 1
  BY <1>1, <1>2, <1>4
<1> QED
  BY <1>3, <1>4 DEF Spot, sa, w, t

--------------------------------------------------------------------------------
(* A job found by its place in the order of the sort has not been begun.   *)
LEMMA EmittedOrdered ==
  ASSUME Finalized, Given, Batch, NEW n \in 1 .. Len(input), NEW mem
  PROVE  Emitted(mem, Ordered[n])
<1>1. PICK i \in DOMAIN input : Ordered[n] = input[i]
  BY SizesType, SortedJobs DEF Range
<1>2. i \in 1 .. Len(input)
  BY SizesType
<1> QED
  BY <1>1, <1>2, EmittedNone

(* Steps that begin or go on with the work on a batch.                     *)
LEMMA WorkContent ==
  ASSUME CInv, IInv',
         UNCHANGED <<table, line, input, symbolBase, curLine, curOff, jobLine, dst, strOut, lenOut>>,
         pc' \in {"kernel", "finish"}, DOMAIN codeBase' = 0 .. StageMax - 1,
         pc' = "kernel" => KernelContent', pc' = "finish" => FinishContent'
  PROVE  CInv'
<1>1. BatchContent'
  BY BatchContentStays DEF CInv
<1>2. pc' # "returned" /\ pc' # "line"
  OBVIOUS
<1> QED
  BY <1>1, <1>2 DEF CInv

LEMMA FireScalarContent == ASSUME Finalized, CInv, FireScalar PROVE CInv'
<1>0. IInv /\ Given /\ Batch /\ DOMAIN codeBase = 0 .. StageMax - 1
  BY DEF CInv, IInv
<1>1. /\ pc' = "finish" /\ output' = input /\ codeBase' = codeBase
      /\ UNCHANGED <<table, line, input, symbolBase, curLine, curOff, jobLine, dst, strOut, lenOut>>
  BY DEF FireScalar, arguments, batch, result
<1>2. /\ DOMAIN input = 1 .. Len(input) /\ Len(input) \in Nat
      /\ \A i \in 1 .. Len(input) : input[i].pos = i - 1
  BY <1>0, SizesType DEF Prepared
<1>3. ApartIn(input)
  BY <1>2 DEF ApartIn
<1>4. \A d \in DOMAIN input : Emitted(codeBase, input[d])
  BY <1>0, <1>2, EmittedNone
<1>5. FinishContent'
  <2>1. \A d \in DOMAIN output' : Emitted(codeBase, output[d])'
    <3>1. ASSUME NEW d \in DOMAIN input PROVE Emitted(codeBase, output[d])'
      <4>1. Emitted(codeBase, input[d])
        BY <3>1, <1>4
      <4> QED
        BY <4>1, <1>1 DEF Emitted, ChunkOf, Start, Size
    <3> QED
      BY <3>1, <1>1
  <2>2. ApartIn(output)'
    BY <1>1, <1>3 DEF ApartIn
  <2> QED
    BY <2>1, <2>2 DEF FinishContent
<1> QED
  BY <1>0, <1>1, <1>5, FireScalarPreserves, WorkContent

LEMMA FireKernelContent == ASSUME Finalized, CInv, FireKernel PROVE CInv'
<1>0. IInv /\ Given /\ Batch /\ DOMAIN codeBase = 0 .. StageMax - 1
  BY DEF CInv, IInv
<1> DEFINE k == KernelStart(SubSeq(Ordered, 1, NonEmpty), codeBase)
<1>1. /\ pc' = "kernel" /\ kernel' = k /\ codeBase' = codeBase
      /\ UNCHANGED <<table, line, input, symbolBase, curLine, curOff, jobLine, dst, strOut, lenOut>>
  BY DEF FireKernel, arguments, batch, result
<1>2. k.mem = codeBase /\ k.done = <<>> /\ k.lane = [l \in Lane |-> Idle]
  BY DEF KernelStart
<1> HIDE DEF k
<1>3. (\A l \in Lane : k.lane[l] = Idle) /\ DOMAIN k.done = {}
  BY <1>2
<1>4. KernelContent'
  BY <1>0, <1>1, <1>2, <1>3 DEF KernelContent, LanesApart
<1> QED
  BY <1>0, <1>1, <1>4, FireKernelPreserves, WorkContent

(* Scalar code writes the code and the byte behind it.                     *)
LEMMA FinishCodeContent == ASSUME Finalized, CInv, FinishCode PROVE CInv'
<1>0. IInv /\ Given /\ Batch /\ AtWork /\ BatchContent /\ DOMAIN codeBase = 0 .. StageMax - 1
  BY DEF CInv, IInv
<1> DEFINE i == Min(Unfinished)
           job == output[i]
           found == FinalLookup(table, WordAt(symbolBase, job.cur))
           moved == Advanced(job, found)
           b == WordAt(symbolBase, job.cur)[1]
           c == CodeByte(found.code)
           mem == codeBase
           after == [mem EXCEPT ![job.out] = c, ![job.out + 1] = b]
<1>1. /\ pc = "finish" /\ pc' = "finish" /\ Unfinished # {}
      /\ output' = [output EXCEPT ![i] = moved] /\ codeBase' = after
      /\ UNCHANGED <<table, line, input, symbolBase, curLine, curOff, jobLine, dst, strOut, lenOut>>
  BY DEF FinishCode, arguments, batch, result
<1>2. /\ output \in Seq(Job) /\ \A d \in DOMAIN output : Inside(output[d])
      /\ ApartIn(output) /\ \A d \in DOMAIN output : Emitted(mem, output[d])
  BY <1>0, <1>1 DEF AtWork, CInv, FinishContent
<1>3. DOMAIN output = 1 .. Len(output) /\ Len(output) \in Nat
  BY <1>2
<1>4. i \in DOMAIN output /\ job.cur < job.end
  <2>1. Unfinished \in SUBSET Nat
    BY <1>3 DEF Unfinished
  <2>2. i \in Unfinished
    BY <2>1, <1>1, LeastJob
  <2> HIDE DEF i
  <2> QED
    BY <2>2 DEF Unfinished
<1> HIDE DEF i
<1>5. Running(job) /\ Inside(job) /\ Emitted(mem, job)
  BY <1>2, <1>4 DEF Running
<1> HIDE DEF job
<1>6. Inside(moved) /\ moved.pos = job.pos
  BY <1>0, <1>5, Advances
<1>7. /\ job.out \in DOMAIN mem /\ job.out + 1 \in DOMAIN mem /\ job.out \in Nat
      /\ job.out + 1 \in Spot(job) /\ job.out \in Spot(job)
      /\ \A x \in Start(job).out .. job.out - 1 : x \in DOMAIN mem /\ x \notin Spot(job)
  <2>1. job.out \in Nat /\ ScatterWidth \in Nat /\ ScatterWidth >= 2
    BY <1>0, <1>5, RoomBounds, KernelAssumption
  <2>2. job.out \in Spot(job)
    BY <2>1 DEF Spot
  <2> QED
    BY <2>1, <2>2, <1>0, <1>5, RoomStaged
<1> DEFINE o == job.out
<1> HIDE DEF mem, b, c
<1>8. /\ after[o] = c /\ after[o + 1] = b /\ DOMAIN after = DOMAIN mem
      /\ \A x \in DOMAIN mem : x # o /\ x # o + 1 => after[x] = mem[x]
  <2>1. o # o + 1
    BY <1>7
  <2> QED
    BY <2>1, <1>7
<1> HIDE DEF o, after
<1>9. Emitted(after, moved)
  <2>1. \A x \in Start(job).out .. job.out - 1 : after[x] = mem[x]
    BY <1>7, <1>8 DEF o
  <2>2. after[job.out] = c /\ after[job.out + 1] = b
    BY <1>8 DEF o
  <2> QED
    BY <2>1, <2>2, <1>0, <1>5, EmittedAdvances DEF c, b
<1>10. ASSUME NEW d \in DOMAIN output, d # i PROVE Emitted(after, output[d])
  <2>1. Inside(output[d]) /\ Emitted(mem, output[d]) /\ output[d].pos # job.pos
    BY <1>2, <1>4, <1>10 DEF ApartIn, job
  <2> DEFINE a == output[d]
  <2> HIDE DEF a
  <2>2. Inside(a) /\ Emitted(mem, a) /\ a.pos # job.pos
    BY <2>1 DEF a
  <2>3. \A x \in Start(a).out .. a.out - 1 : x \notin Spot(job) /\ x \in 0 .. StageMax - 1
    BY <2>2, <1>0, <1>5, RoomsDisjoint, RoomStaged DEF BatchContent
  <2>4. \A x \in Start(a).out .. a.out - 1 : after[x] = mem[x]
    BY <2>3, <1>0, <1>7, <1>8 DEF o, mem
  <2>5. Emitted(after, a)
    BY <2>2, <2>4, <1>0, EmittedStays
  <2> QED
    BY <2>5 DEF a
<1> HIDE DEF moved
<1>11. /\ DOMAIN output' = DOMAIN output
       /\ \A d \in DOMAIN output : output'[d] = IF d = i THEN moved ELSE output[d]
  BY <1>1, <1>4
<1>12. FinishContent'
  <2>1. ASSUME NEW d \in DOMAIN output PROVE Emitted(codeBase, output[d])'
    <3>1. Emitted(after, output'[d])
      BY <1>9, <1>10, <1>11
    <3> QED
      BY <3>1, <1>1 DEF Emitted, ChunkOf, Start, Size
  <2>2. ApartIn(output')
    <3>1. \A d \in DOMAIN output : output'[d].pos = output[d].pos
      BY <1>6, <1>11 DEF job
    <3>2. \A d \in DOMAIN output : output'[d].cur < output'[d].end => output[d].cur < output[d].end
      BY <1>4, <1>11 DEF job
    <3> QED
      BY <3>1, <3>2, <1>2, <1>11 DEF ApartIn
  <2>3. ApartIn(output)'
    BY <2>2 DEF ApartIn
  <2> QED
    BY <2>1, <2>3, <1>11 DEF FinishContent
<1>13. DOMAIN codeBase' = 0 .. StageMax - 1
  BY <1>0, <1>1, <1>8 DEF mem
<1> QED
  BY <1>0, <1>1, <1>12, <1>13, FinishCodePreserves, WorkContent

--------------------------------------------------------------------------------
(* An iteration, whatever the order in which the lanes write.              *)
LEMMA LanesWrite ==
  ASSUME Finalized, Given, Batch, RoomsApart, NEW k, DOMAIN k.mem = 0 .. StageMax - 1,
         \A l \in Lane : Running(Loaded(k)[l]) /\ Emitted(k.mem, Loaded(k)[l]),
         \A l, m \in Lane : l # m => Loaded(k)[l].pos # Loaded(k)[m].pos,
         NEW after, after = MemFrom(k)[Lanes]
  PROVE  /\ \A l \in Lane : Emitted(after, MovedLanes(k)[l])
         /\ \A a : /\ Inside(a) /\ Emitted(k.mem, a)
                   /\ \A l \in Lane : Loaded(k)[l].pos # a.pos
                   => Emitted(after, a)
         /\ DOMAIN after = 0 .. StageMax - 1
<1>0. \A l \in Lane : Loaded(k)[l].out \in Nat
  BY DEF Running, Inside, Job
<1>1. 1 \in Lane
  <2>1. Groups \in Nat \ {0} /\ Width \in Nat \ {0}
    BY KernelAssumption
  <2>2. \A x, y \in Nat \ {0} : x * y >= 1
    <3>1. ASSUME NEW x \in Nat \ {0}, NEW y \in Nat \ {0} PROVE x * y >= 1
      <4>1. \A a, b, c \in Nat : a <= b => a * c <= b * c
        OBVIOUS
      <4>2. 1 <= x /\ 1 \in Nat /\ x \in Nat /\ y \in Nat /\ y >= 1
        OBVIOUS
      <4>3. 1 * y <= x * y /\ 1 * y = y /\ x * y \in Nat
        BY <4>1, <4>2
      <4> QED
        BY <4>2, <4>3
    <3> QED
      BY <3>1
  <2>3. Lanes >= 1 /\ Lanes \in Nat
    BY <2>1, <2>2, LaneType DEF Lanes
  <2> HIDE DEF Lanes
  <2> QED
    BY <2>3 DEF Lane
<1>2. ASSUME NEW l \in Lane PROVE Emitted(after, MovedLanes(k)[l])
  <2> DEFINE job == Loaded(k)[l]
  <2>1. Running(job) /\ Inside(job) /\ Emitted(k.mem, job)
    BY DEF Running
  <2>2. MovedLanes(k)[l] = Advanced(job, FoundFor(job))
    BY DEF MovedLanes, FoundFor
  <2>3. ASSUME NEW x \in 0 .. StageMax - 1,
               x \in Start(job).out .. job.out - 1 \/ x = job.out \/ x = job.out + 1
        PROVE  /\ x \notin Spot(job) => after[x] = k.mem[x]
               /\ x = job.out => after[x] = CodeByte(FoundFor(job).code)
               /\ x = job.out + 1 => after[x] = WordAt(symbolBase, job.cur)[1]
    <3>1. ASSUME NEW m \in Lane, m # l PROVE x \notin Spot(Loaded(k)[m])
      <4>1. Running(Loaded(k)[m]) /\ Loaded(k)[m].pos # job.pos
        BY <3>1
      <4> HIDE DEF job
      <4> DEFINE o == Loaded(k)[m]
      <4> HIDE DEF o
      <4>2. Running(o) /\ o.pos # job.pos
        BY <4>1 DEF o
      <4>3. /\ \A y \in Start(job).out .. job.out - 1 : y \notin Spot(o)
            /\ job.out \notin Spot(o) /\ job.out + 1 \notin Spot(o)
        BY <4>2, <2>1, RoomsDisjoint
      <4> QED
        BY <4>3, <2>3 DEF o
    <3>2. x \in DOMAIN k.mem
      OBVIOUS
    <3> QED
      BY <3>1, <3>2, <1>0, LaneWrites
  <2> HIDE DEF job
  <2>4. /\ \A x \in Start(job).out .. job.out - 1 : x \in 0 .. StageMax - 1 /\ x \notin Spot(job)
        /\ job.out \in 0 .. StageMax - 1 /\ job.out + 1 \in 0 .. StageMax - 1
    BY <2>1, RoomStaged
  <2>5. /\ \A x \in Start(job).out .. job.out - 1 : after[x] = k.mem[x]
        /\ after[job.out] = CodeByte(FoundFor(job).code)
        /\ after[job.out + 1] = WordAt(symbolBase, job.cur)[1]
    BY <2>3, <2>4
  <2>6. Emitted(after, Advanced(job, FoundFor(job)))
    <3> DEFINE found == FinalLookup(table, WordAt(symbolBase, job.cur))
    <3>1. FoundFor(job) = found
      BY DEF FoundFor
    <3> HIDE DEF found
    <3>2. Emitted(after, Advanced(job, found))
      BY <3>1, <2>1, <2>5, EmittedAdvances DEF found
    <3> QED
      BY <3>1, <3>2
  <2> QED
    BY <2>2, <2>6
<1>3. ASSUME NEW a, Inside(a), Emitted(k.mem, a), \A l \in Lane : Loaded(k)[l].pos # a.pos
      PROVE  Emitted(after, a)
  <2>1. ASSUME NEW x \in Start(a).out .. a.out - 1 PROVE after[x] = k.mem[x]
    <3>1. x \in DOMAIN k.mem
      BY <1>3, RoomStaged
    <3>2. ASSUME NEW l \in Lane PROVE x \notin Spot(Loaded(k)[l])
      <4> DEFINE o == Loaded(k)[l]
      <4>1. Running(o) /\ a.pos # o.pos
        BY <1>3
      <4> HIDE DEF o
      <4>2. x \notin Spot(o)
        BY <4>1, <1>3, RoomsDisjoint
      <4> QED
        BY <4>2 DEF o
    <3> QED
      BY <3>1, <3>2, <1>0, <1>1, LaneWrites
  <2> QED
    BY <2>1, <1>3, EmittedStays
<1>4. DOMAIN after = 0 .. StageMax - 1
  <2>1. 0 \in 0 .. StageMax - 1
    <3>1. \A s, c, w \in Nat : c # 0 /\ s >= 2 * c + w => 0 \in 0 .. s - 1
      OBVIOUS
    <3> QED
      BY <3>1, SIMDAssumption
  <2>2. Lanes \in 0 .. Lanes /\ Lanes <= Lanes /\ \A l \in Lanes + 1 .. Lanes : FALSE
    BY LaneType
  <2>3. 0 \in DOMAIN k.mem
    BY <2>1
  <2>4. DOMAIN MemFrom(k)[Lanes] = DOMAIN k.mem
    BY <2>2, <2>3, <1>0, MemStays
  <2> QED
    BY <2>4
<1> QED
  BY <1>2, <1>3, <1>4

(* All lanes move by one code.                                             *)
LEMMA IterateContent == ASSUME Finalized, CInv, Iterate PROVE CInv'
<1>0. /\ IInv /\ Given /\ Batch /\ AtWork /\ BatchContent /\ RoomsApart
      /\ DOMAIN codeBase = 0 .. StageMax - 1
  BY DEF CInv, IInv, BatchContent
<1>1. /\ pc = "kernel" /\ pc' = "kernel" /\ KernelGoesOn(kernel)
      /\ kernel' = KernelStep(kernel, table, symbolBase) /\ codeBase' = codeBase
      /\ UNCHANGED <<table, line, input, symbolBase, curLine, curOff, jobLine, dst, strOut, lenOut>>
  BY DEF Iterate, arguments, batch, result
<1>2. InKernel /\ KernelContent
  BY <1>0, <1>1 DEF AtWork, CInv
<1> DEFINE k == kernel
           c == Cardinality(IdleLanes(k))
           moved == MovedLanes(k)
           ready == FinishedLanes(k)
           n == Len(input)
           after == MemFrom(k)[Lanes]
           p == Packed(moved, ready)
           whole == k.done \o p
           next == k.next + c
           lane == [l \in Lane |-> IF l \in ready THEN Idle ELSE moved[l]]
<1>3. /\ kernel'.next = next /\ kernel'.lane = lane /\ kernel'.done = whole /\ kernel'.mem = after
  BY <1>1, StepFields, StepMem
<1>4. /\ next \in 0 .. NonEmpty /\ k.next \in Nat /\ c \in Nat
      /\ \A l \in Lane : /\ Running(Loaded(k)[l]) /\ Inside(moved[l])
                         /\ moved[l].pos = Loaded(k)[l].pos
  BY <1>0, <1>1, <1>2, LanesMove
<1>5. /\ JobsNumbered /\ n \in Nat /\ NonEmpty \in 0 .. n
      /\ k.jobs = SubSeq(Ordered, 1, NonEmpty) /\ Len(k.jobs) = NonEmpty
      /\ \A m \in 1 .. NonEmpty : k.jobs[m] = Ordered[m]
      /\ k.done \in Seq(Job) /\ \A d \in DOMAIN k.done : Inside(k.done[d])
  BY <1>0, <1>2, JobsGiven, SizesType DEF InKernel
<1>6. /\ DOMAIN k.mem = 0 .. StageMax - 1
      /\ LanesApart(k.lane, k.done, k.next)
      /\ \A l \in Lane : k.lane[l] # Idle => Emitted(k.mem, k.lane[l])
      /\ \A d \in DOMAIN k.done : Emitted(k.mem, k.done[d]) /\ k.done[d].cur = k.done[d].end
  BY <1>2 DEF KernelContent
<1>7. /\ \A l, m \in Lane : l # m => Loaded(k)[l].pos # Loaded(k)[m].pos
      /\ \A l \in Lane : \A d \in DOMAIN k.done : Loaded(k)[l].pos # k.done[d].pos
      /\ \A m \in next + 1 .. n :
           /\ \A l \in Lane : Ordered[m].pos # Loaded(k)[l].pos
           /\ \A d \in DOMAIN k.done : Ordered[m].pos # k.done[d].pos
      /\ \A l \in Lane : \/ k.lane[l] # Idle /\ Loaded(k)[l] = k.lane[l]
                         \/ \E m \in 1 .. Len(k.jobs) : Loaded(k)[l] = Ordered[m]
  <2>1. Len(k.jobs) \in Nat /\ Len(k.jobs) <= Len(input) /\ next <= Len(k.jobs)
    BY <1>4, <1>5
  <2> HIDE DEF moved, ready, after, p, whole, lane
  <2> QED
    BY <2>1, <1>4, <1>5, <1>6, LoadedApart
<1>8. ASSUME NEW l \in Lane PROVE Emitted(k.mem, Loaded(k)[l])
  <2>1. CASE k.lane[l] # Idle /\ Loaded(k)[l] = k.lane[l]
    BY <2>1, <1>6
  <2>2. CASE \E m \in 1 .. Len(k.jobs) : Loaded(k)[l] = Ordered[m]
    <3>1. PICK m \in 1 .. Len(k.jobs) : Loaded(k)[l] = Ordered[m]
      BY <2>2
    <3>2. m \in 1 .. Len(input)
      BY <3>1, <1>5
    <3> DEFINE mem == k.mem
    <3> HIDE DEF mem
    <3>3. Emitted(mem, Ordered[m])
      BY <3>2, <1>0, EmittedOrdered
    <3> QED
      BY <3>1, <3>3 DEF mem
  <2> QED
    BY <2>1, <2>2, <1>7
<1>9. /\ \A l \in Lane : Emitted(after, moved[l])
      /\ \A a : /\ Inside(a) /\ Emitted(k.mem, a) /\ \A l \in Lane : Loaded(k)[l].pos # a.pos
                => Emitted(after, a)
      /\ DOMAIN after = 0 .. StageMax - 1
  <2> DEFINE kk == kernel
  <2>1. DOMAIN kk.mem = 0 .. StageMax - 1
    BY <1>6
  <2>2. \A l \in Lane : Running(Loaded(kk)[l]) /\ Emitted(kk.mem, Loaded(kk)[l])
    BY <1>4, <1>8
  <2>3. \A l, m \in Lane : l # m => Loaded(kk)[l].pos # Loaded(kk)[m].pos
    BY <1>7
  <2> HIDE DEF kk
  <2>4. LET late == MemFrom(kk)[Lanes]
        IN  /\ \A l \in Lane : Emitted(late, MovedLanes(kk)[l])
            /\ \A a : /\ Inside(a) /\ Emitted(kk.mem, a) /\ \A l \in Lane : Loaded(kk)[l].pos # a.pos
                      => Emitted(late, a)
            /\ DOMAIN late = 0 .. StageMax - 1
    BY <2>1, <2>2, <2>3, <1>0, LanesWrite
  <2> QED
    BY <2>4 DEF kk
<1>10. ready \in SUBSET Lane /\ \A l \in Lane : l \in ready <=> moved[l].cur = moved[l].end
  BY DEF FinishedLanes
<1>11. p \in Seq(Job) /\ \A i \in DOMAIN p : \E l \in ready : p[i] = moved[l]
  <2>1. ready \in SUBSET Nat /\ IsFiniteSet(ready)
    BY <1>10, LaneType
  <2> HIDE DEF moved, ready
  <2> DEFINE w == Cardinality(ready)
  <2>2. Stores(p, moved, ready, w)
    BY <2>1, PackedLanes
  <2>3. \A l \in ready : moved[l] \in Job
    BY <1>4, <1>10 DEF Inside
  <2>4. p \in Seq(Job)
    BY <2>1, <2>3, PackedType
  <2> HIDE DEF p, w
  <2> QED
    BY <2>2, <2>4 DEF Stores
<1> HIDE DEF moved, ready, p, after
<1>12. HoldsBoth(whole, k.done, p)
  BY <1>5, <1>11, JoinedJobs
<1> HIDE DEF whole, next, c, n
<1>13. ASSUME NEW d \in DOMAIN whole
       PROVE  \/ \E i \in DOMAIN k.done : whole[d] = k.done[i]
              \/ \E l \in ready : whole[d] = moved[l]
  <2>1. \/ d \in DOMAIN k.done /\ whole[d] = k.done[d]
        \/ \E i \in DOMAIN p : whole[d] = p[i]
    BY <1>12 DEF HoldsBoth
  <2> QED
    BY <2>1, <1>11
<1>14. ASSUME NEW d \in DOMAIN whole PROVE Emitted(after, whole[d]) /\ whole[d].cur = whole[d].end
  <2>1. CASE \E i \in DOMAIN k.done : whole[d] = k.done[i]
    <3>1. PICK i \in DOMAIN k.done : whole[d] = k.done[i]
      BY <2>1
    <3> QED
      BY <3>1, <1>5, <1>6, <1>7, <1>9
  <2>2. CASE \E l \in ready : whole[d] = moved[l]
    BY <2>2, <1>9, <1>10
  <2> QED
    BY <2>1, <2>2, <1>13
<1>15. /\ \A l \in Lane : l \in ready => lane[l] = Idle
       /\ \A l \in Lane : l \notin ready => lane[l] = moved[l]
  OBVIOUS
<1> HIDE DEF lane
<1>16. ASSUME NEW l \in Lane, lane[l] # Idle
       PROVE  lane[l] = moved[l] /\ lane[l].pos = Loaded(k)[l].pos /\ l \notin ready
  BY <1>4, <1>15, <1>16
<1>17. LanesApart(lane, whole, next)
  <2>1. ASSUME NEW l \in Lane, NEW m \in Lane, l # m, lane[l] # Idle, lane[m] # Idle
        PROVE  lane[l].pos # lane[m].pos
    BY <2>1, <1>7, <1>16
  <2>2. ASSUME NEW l \in Lane, lane[l] # Idle, NEW d \in DOMAIN whole
        PROVE  lane[l].pos # whole[d].pos
    <3>1. CASE \E i \in DOMAIN k.done : whole[d] = k.done[i]
      BY <3>1, <2>2, <1>7, <1>16
    <3>2. CASE \E m \in ready : whole[d] = moved[m]
      <4>1. PICK m \in ready : whole[d] = moved[m]
        BY <3>2
      <4>2. m \in Lane /\ m # l
        BY <4>1, <2>2, <1>10, <1>16
      <4>3. moved[m].pos = Loaded(k)[m].pos /\ lane[l].pos = Loaded(k)[l].pos
        BY <4>2, <2>2, <1>4, <1>16
      <4> QED
        BY <4>1, <4>2, <4>3, <1>7
    <3> QED
      BY <3>1, <3>2, <1>13
  <2>3. ASSUME NEW m \in next + 1 .. n
        PROVE  /\ \A l \in Lane : lane[l] # Idle => Ordered[m].pos # lane[l].pos
               /\ \A d \in DOMAIN whole : Ordered[m].pos # whole[d].pos
    <3>1. /\ \A l \in Lane : Ordered[m].pos # Loaded(k)[l].pos
          /\ \A d \in DOMAIN k.done : Ordered[m].pos # k.done[d].pos
      BY <1>7
    <3>2. \A l \in Lane : lane[l] # Idle => Ordered[m].pos # lane[l].pos
      BY <3>1, <1>16
    <3>3. ASSUME NEW d \in DOMAIN whole PROVE Ordered[m].pos # whole[d].pos
      <4>1. CASE \E i \in DOMAIN k.done : whole[d] = k.done[i]
        BY <4>1, <3>1
      <4>2. CASE \E l \in ready : whole[d] = moved[l]
        BY <4>2, <3>1, <1>4, <1>10
      <4> QED
        BY <4>1, <4>2, <1>13
    <3> QED
      BY <3>2, <3>3
  <2> QED
    BY <2>1, <2>2, <2>3 DEF LanesApart, n
<1>18. Ordered' = Ordered /\ input' = input
  BY <1>1 DEF Ordered, Size, Before
<1>19. KernelContent'
  <2>1. LanesApart(kernel.lane, kernel.done, kernel.next)'
    BY <1>3, <1>17, <1>18, Zenon DEF LanesApart
  <2>2. ASSUME NEW l \in Lane, kernel'.lane[l] # Idle PROVE Emitted(kernel.mem, kernel.lane[l])'
    <3>1. Emitted(after, lane[l])
      BY <2>2, <1>3, <1>9, <1>16
    <3> QED
      BY <3>1, <1>1, <1>3 DEF Emitted, ChunkOf, Start, Size
  <2>3. ASSUME NEW d \in DOMAIN kernel'.done
        PROVE  Emitted(kernel.mem, kernel.done[d])' /\ kernel'.done[d].cur = kernel'.done[d].end
    <3>1. Emitted(after, whole[d]) /\ whole[d].cur = whole[d].end
      BY <2>3, <1>3, <1>14
    <3> QED
      BY <3>1, <1>1, <1>3 DEF Emitted, ChunkOf, Start, Size
  <2>4. DOMAIN kernel'.mem = 0 .. StageMax - 1
    BY <1>3, <1>9
  <2> QED
    BY <2>1, <2>2, <2>3, <2>4 DEF KernelContent
<1>20. IInv' /\ DOMAIN codeBase' = 0 .. StageMax - 1
  BY <1>0, <1>1, IteratePreserves
<1> QED
  BY <1>1, <1>19, <1>20, WorkContent

(* The kernel returns.                                                     *)
LEMMA KernelReturnContent == ASSUME Finalized, CInv, KernelReturn PROVE CInv'
<1>0. /\ IInv /\ Given /\ Batch /\ AtWork /\ DOMAIN codeBase = 0 .. StageMax - 1
  BY DEF CInv, IInv
<1> DEFINE k == kernel
           n == Len(input)
           front == KernelOutput(k)
           tail == SubSeq(Ordered, k.next + 1, n)
           whole == front \o tail
           mem == k.mem
<1>1. /\ pc = "kernel" /\ pc' = "finish" /\ output' = whole /\ codeBase' = mem
      /\ UNCHANGED <<table, line, input, symbolBase, curLine, curOff, jobLine, dst, strOut, lenOut>>
  BY DEF KernelReturn, arguments, batch, result
<1>2. InKernel /\ KernelContent
  BY <1>0, <1>1 DEF AtWork, CInv
<1>3. /\ k.next \in 0 .. NonEmpty
      /\ \A l \in Lane : k.lane[l] = Idle \/ Running(k.lane[l])
      /\ k.done \in Seq(Job)
  BY <1>2 DEF InKernel
<1>4. /\ JobsNumbered /\ NonEmpty \in 0 .. n /\ n \in Nat /\ Ordered \in Seq(Job) /\ Len(Ordered) = n
  BY <1>0, JobsGiven, SizesType
<1>5. /\ DOMAIN mem = 0 .. StageMax - 1
      /\ LanesApart(k.lane, k.done, k.next)
      /\ \A l \in Lane : k.lane[l] # Idle => Emitted(mem, k.lane[l])
      /\ \A d \in DOMAIN k.done : Emitted(mem, k.done[d]) /\ k.done[d].cur = k.done[d].end
  BY <1>2 DEF KernelContent
<1>6. \A l \in Lane : k.lane[l] = Idle \/ k.lane[l] \in Job
  BY <1>3 DEF Running, Inside
<1>7. /\ front \in Seq(Job)
      /\ \A d \in DOMAIN front :
              \/ \E i \in DOMAIN k.done : front[d] = k.done[i]
              \/ \E l \in Lane : k.lane[l] # Idle /\ front[d] = k.lane[l]
  BY <1>3, <1>6, HandedBack
<1>8. ApartIn(front)
  BY <1>3, <1>5, <1>6, BackApart
<1> DEFINE x == k.next
           s == Ordered
<1>9. x \in 0 .. n /\ n \in Nat /\ s \in Seq(Job) /\ Len(s) = n
  BY <1>3, <1>4
<1> HIDE DEF x, n, s
<1>10. /\ SubSeq(s, x + 1, n) \in Seq(Job) /\ Len(SubSeq(s, x + 1, n)) = n - x
       /\ \A i \in 1 .. n - x : SubSeq(s, x + 1, n)[i] = s[x + i]
  BY <1>9
<1>11. /\ tail \in Seq(Job) /\ DOMAIN tail = 1 .. n - x
       /\ \A i \in 1 .. n - x : /\ tail[i] = s[x + i]
                                /\ x + i \in x + 1 .. n /\ x + i \in 1 .. n
  <2>1. /\ tail \in Seq(Job) /\ DOMAIN tail = 1 .. n - x
        /\ \A i \in 1 .. n - x : tail[i] = s[x + i]
    BY <1>10 DEF s, n, x
  <2>2. \A i \in 1 .. n - x : x + i \in x + 1 .. n /\ x + i \in 1 .. n
    BY <1>9
  <2> QED
    BY <2>1, <2>2
<1> HIDE DEF front, tail
<1>12. \A a, b \in 1 .. n : a # b => s[a].pos # s[b].pos
  BY <1>4, OrderedApart DEF s, n
<1>13. ApartIn(tail)
  <2>1. ASSUME NEW a \in 1 .. n - x, NEW b \in 1 .. n - x, a # b PROVE tail[a].pos # tail[b].pos
    <3>1. x + a # x + b
      BY <2>1, <1>9
    <3> QED
      BY <3>1, <1>11, <1>12
  <2> QED
    BY <2>1, <1>11 DEF ApartIn
<1>14. ASSUME NEW i \in DOMAIN front, NEW j \in DOMAIN tail PROVE front[i].pos # tail[j].pos
  <2>1. tail[j] = s[x + j] /\ x + j \in x + 1 .. n
    BY <1>11
  <2>2. /\ \A l \in Lane : k.lane[l] # Idle => s[x + j].pos # k.lane[l].pos
        /\ \A d \in DOMAIN k.done : s[x + j].pos # k.done[d].pos
    BY <2>1, <1>5 DEF LanesApart, s, x, n
  <2> QED
    BY <2>1, <2>2, <1>7
<1>15. ApartIn(whole)
  BY <1>7, <1>8, <1>11, <1>13, <1>14, JoinedApart
<1>16. HoldsBoth(whole, front, tail)
  BY <1>7, <1>11, JoinedJobs
<1> HIDE DEF whole, mem
<1>17. ASSUME NEW d \in DOMAIN whole PROVE Emitted(mem, whole[d])
  <2>1. CASE d \in DOMAIN front /\ whole[d] = front[d]
    BY <2>1, <1>5, <1>7
  <2>2. CASE \E i \in DOMAIN tail : whole[d] = tail[i]
    <3>1. PICK i \in 1 .. n - x : whole[d] = tail[i]
      BY <2>2, <1>11
    <3>2. whole[d] = Ordered[x + i] /\ x + i \in 1 .. Len(input)
      BY <3>1, <1>11 DEF s, n
    <3> DEFINE m == x + i
    <3> HIDE DEF m
    <3>3. m \in 1 .. Len(input) /\ whole[d] = Ordered[m]
      BY <3>2 DEF m
    <3>4. Emitted(mem, Ordered[m])
      BY <3>3, <1>0, EmittedOrdered
    <3> QED
      BY <3>3, <3>4
  <2> QED
    BY <2>1, <2>2, <1>16 DEF HoldsBoth
<1>18. FinishContent'
  <2>1. ASSUME NEW d \in DOMAIN output' PROVE Emitted(codeBase, output[d])'
    <3>1. Emitted(mem, whole[d])
      BY <2>1, <1>1, <1>17
    <3> QED
      BY <3>1, <1>1 DEF Emitted, ChunkOf, Start, Size
  <2>2. ApartIn(output)'
    BY <1>1, <1>15 DEF ApartIn
  <2> QED
    BY <2>1, <2>2 DEF FinishContent
<1>19. IInv' /\ DOMAIN codeBase' = 0 .. StageMax - 1
  BY <1>0, <1>1, <1>5, KernelReturnPreserves
<1> QED
  BY <1>1, <1>18, <1>19, WorkContent

--------------------------------------------------------------------------------
(* The chunk in the staging area is the next of its string.                *)
LEMMA StagedChunk ==
  ASSUME Finalized, Given, Position, Begun, Batch, Len(input) < MaxJobs, NEW k \in 1 .. Chunk
  PROVE  /\ Staged(Chunk)[inOff + k - 1] = line[curLine][curOff + k]
         /\ line[curLine][curOff + k] \in Byte
<1> DEFINE n == Chunk
           e == inOff + k - 1
<1>1. /\ n \in Nat /\ curOff \in Nat /\ curOff + n <= Len(line[curLine]) /\ Len(line[curLine]) \in Nat
      /\ curLine \in 1 .. Len(line)
  BY ChunkType
<1>2. /\ inOff \in Nat /\ inOff + n + 1 <= (Len(input) + 1) * (ChunkMax + 1)
      /\ (Len(input) + 1) * (ChunkMax + 1) <= MaxJobs * (ChunkMax + 1)
      /\ (Len(input) + 1) * (ChunkMax + 1) \in Nat /\ MaxJobs * (ChunkMax + 1) \in Nat
  <2>1. inOff \in Nat /\ Len(input) + 1 \in Nat /\ Len(input) + 1 <= MaxJobs /\ MaxJobs \in Nat
        /\ ChunkMax + 1 \in Nat
    BY SIMDAssumption DEF Batch
  <2>2. \A x, y, w \in Nat : x <= y => x * w <= y * w
    OBVIOUS
  <2>3. (Len(input) + 1) * (ChunkMax + 1) <= MaxJobs * (ChunkMax + 1)
    BY <2>1, <2>2
  <2>4. inOff + n + 1 <= (Len(input) + 1) * (ChunkMax + 1)
    BY StagedType
  <2> QED
    BY <2>1, <2>3, <2>4
<1> HIDE DEF n
<1>3. MaxLength \in Nat /\ MaxLength >= 3
  BY TableAssumption
<1>4. k \in Nat /\ 1 <= k /\ k <= n /\ n > 0
  BY <1>1 DEF n
<1>5. e \in SymbolIndex /\ e \in inOff .. inOff + n - 1 /\ curOff + e - inOff + 1 = curOff + k
  <2> DEFINE a == (Len(input) + 1) * (ChunkMax + 1)
             b == MaxJobs * (ChunkMax + 1)
  <2>1. a \in Nat /\ b \in Nat /\ a <= b /\ inOff + n + 1 <= a /\ inOff \in Nat
    BY <1>2
  <2>2. SymbolIndex = 0 .. b + MaxLength - 1
    BY DEF SymbolIndex
  <2> HIDE DEF a, b
  <2> QED
    BY <2>1, <2>2, <1>1, <1>3, <1>4
<1> HIDE DEF e
<1>6. Staged(n)[e] = line[curLine][curOff + e - inOff + 1]
  BY <1>4, <1>5 DEF Staged
<1>7. line[curLine][curOff + k] \in Byte
  <2>1. line[curLine] \in Seq(Byte) /\ curOff + k \in 1 .. Len(line[curLine])
    BY <1>1, <1>4, LineType
  <2> QED
    BY <2>1, ElementType
<1> QED
  BY <1>5, <1>6, <1>7 DEF n, e

(* The text of the new job is that of the chunk, those of the others stay. *)
LEMMA TextsGrow ==
  ASSUME Finalized, Given, Position, Begun, Batch, Len(input) < MaxJobs, UNCHANGED table,
         input' = Append(input, [cur |-> inOff, end |-> inOff + Chunk, pos |-> Len(input), out |-> outOff]),
         symbolBase' = Staged(Chunk)
  PROVE  LET chunk == SubSeq(line[curLine], curOff + 1, curOff + Chunk)
         IN  /\ chunk \in Seq(Byte) /\ Len(chunk) = Chunk
             /\ JobTexts' = Append(JobTexts, TextOf(table, chunk))
<1> DEFINE m == Len(input)
           n == Chunk
           job == [cur |-> inOff, end |-> inOff + n, pos |-> m, out |-> outOff]
           chunk == SubSeq(line[curLine], curOff + 1, curOff + n)
           x == TextOf(table, chunk)
<1>1. /\ n \in Nat /\ curOff \in Nat /\ curOff + n <= Len(line[curLine]) /\ Len(line[curLine]) \in Nat
      /\ curLine \in 1 .. Len(line) /\ line[curLine] \in Seq(Byte)
  BY ChunkType, LineType
<1>2. m \in Nat /\ inOff \in Nat /\ outOff \in Nat /\ DOMAIN input = 1 .. m /\ input \in Seq(Job)
      /\ StageMax \in Nat
  BY SIMDAssumption DEF Batch
<1>3. chunk \in Seq(Byte) /\ Len(chunk) = n /\ \A k \in 1 .. n : chunk[k] = line[curLine][curOff + k]
  <2> DEFINE s == line[curLine]
             S == Byte
  <2>1. s \in Seq(S) /\ Len(s) \in Nat
    BY <1>1
  <2> HIDE DEF s, S, n
  <2>2. SubSeq(s, curOff + 1, curOff + n) \in Seq(S) /\ Len(SubSeq(s, curOff + 1, curOff + n)) = n
        /\ \A k \in 1 .. n : SubSeq(s, curOff + 1, curOff + n)[k] = s[curOff + k]
    BY <2>1, <1>1 DEF s
  <2> QED
    BY <2>2 DEF s, S
<1>4. job \in Job
  <2> HIDE DEF n, m
  <2> QED
    BY <1>1, <1>2 DEF Job
<1> HIDE DEF chunk
<1>5. input' = Append(input, job)
  OBVIOUS
<1> HIDE DEF job
<1>6. /\ input' \in Seq(Job) /\ Len(input') = m + 1 /\ DOMAIN input' = 1 .. m + 1
      /\ \A i \in 1 .. m : input'[i] = input[i]
      /\ input'[m + 1] = job
  <2>1. /\ Append(input, job) \in Seq(Job) /\ Len(Append(input, job)) = m + 1
        /\ \A i \in 1 .. m : Append(input, job)[i] = input[i]
        /\ Append(input, job)[m + 1] = job
    BY <1>2, <1>4, AppendAt
  <2> QED
    BY <2>1, <1>5
<1>7. ASSUME NEW i \in 1 .. m PROVE ChunkOf(i)' = ChunkOf(i)
  <2>1. ChunkOf(i)' = [k \in 1 .. Size(input[i]) |-> Staged(n)[input[i].cur + k - 1]]
    BY <1>6 DEF ChunkOf, Size
  <2>2. ASSUME NEW k \in 1 .. Size(input[i])
        PROVE  Staged(n)[input[i].cur + k - 1] = symbolBase[input[i].cur + k - 1]
    <3>1. /\ input[i].cur + k - 1 \in SymbolIndex /\ input[i].cur + k - 1 < inOff
      BY ChunkIs
    <3>2. input[i].cur + k - 1 \in Nat
      BY <3>1 DEF SymbolIndex
    <3> QED
      BY <3>1, <3>2, StagedType
  <2> HIDE DEF n
  <2> QED
    BY <2>1, <2>2 DEF ChunkOf
<1>8. ASSUME NEW i, i = m + 1 PROVE ChunkOf(i)' = chunk
  <2>1. input'[i] = job /\ Size(job) = n /\ job.cur = inOff
    BY <1>1, <1>2, <1>6, <1>8 DEF Size, job
  <2>2. ChunkOf(i)' = [k \in 1 .. n |-> Staged(n)[inOff + k - 1]]
    BY <2>1 DEF ChunkOf, Size
  <2>3. \A k \in 1 .. n : Staged(n)[inOff + k - 1] = chunk[k]
    BY <1>3, StagedChunk
  <2> HIDE DEF n
  <2>4. ChunkOf(i)' = [k \in 1 .. n |-> chunk[k]]
    BY <2>2, <2>3
  <2>5. chunk = [k \in 1 .. n |-> chunk[k]]
    BY <1>3
  <2> QED
    BY <2>4, <2>5
<1> DEFINE S == Seq(Nat)
<1>9. x \in S
  BY <1>3, TextType DEF Given
<1>10. JobTexts \in Seq(S) /\ Len(JobTexts) = m /\ \A i \in 1 .. m : JobTexts[i] = TextOf(table, ChunkOf(i))
  <2> DEFINE f(i) == TextOf(table, ChunkOf(i))
             q == [i \in 1 .. m |-> f(i)]
  <2>1. ASSUME NEW i \in 1 .. m PROVE f(i) \in S
    <3>1. ChunkOf(i) \in Seq(Byte)
      BY ChunkIs
    <3> QED
      BY <3>1, TextType DEF Given
  <2>2. JobTexts = q
    BY <1>2 DEF JobTexts
  <2> HIDE DEF f, S, m
  <2>3. q \in Seq(S) /\ Len(q) = m /\ \A i \in 1 .. m : q[i] = f(i)
    BY <2>1, <1>2
  <2> QED
    BY <2>2, <2>3 DEF f
<1>11. JobTexts' = [i \in 1 .. m + 1 |-> IF i <= m THEN JobTexts[i] ELSE x]
  <2>1. JobTexts' = [i \in 1 .. m + 1 |-> TextOf(table, ChunkOf(i)')]
    <3> HIDE DEF m
    <3>1. DOMAIN input' = 1 .. m + 1 /\ table' = table
      BY <1>6
    <3> QED
      BY <3>1 DEF JobTexts
  <2>2. ASSUME NEW i \in 1 .. m + 1
        PROVE  TextOf(table, ChunkOf(i)') = IF i <= m THEN JobTexts[i] ELSE x
    <3>1. CASE i <= m
      <4>1. i \in 1 .. m
        BY <1>2, <3>1
      <4> QED
        BY <3>1, <4>1, <1>7, <1>10
    <3>2. CASE ~ (i <= m)
      <4>1. i = m + 1
        BY <1>2, <3>2
      <4>2. ChunkOf(i)' = chunk
        BY <4>1, <1>8
      <4> QED
        BY <3>2, <4>2
    <3> QED
      BY <3>1, <3>2
  <2> HIDE DEF x, m
  <2> QED
    BY <2>1, <2>2
<1>12. JobTexts' = Append(JobTexts, x)
  <2> DEFINE a == JobTexts
             q == [i \in 1 .. m + 1 |-> IF i <= m THEN a[i] ELSE x]
  <2>1. a \in Seq(S) /\ Len(a) = m /\ m \in Nat
    BY <1>2, <1>10
  <2> HIDE DEF a, S, x, m
  <2>2. /\ Append(a, x) \in Seq(S) /\ Len(Append(a, x)) = m + 1
        /\ \A i \in 1 .. m : Append(a, x)[i] = a[i]
        /\ Append(a, x)[m + 1] = x
    BY <2>1, <1>9, AppendAt
  <2>3. \A i \in 1 .. m : a[i] \in S
    BY <2>1, ElementType
  <2>4. q \in Seq(S) /\ Len(q) = m + 1
    BY <2>1, <2>3, <1>9
  <2>5. \A i \in 1 .. m + 1 : q[i] = Append(a, x)[i]
    BY <2>1, <2>2
  <2>6. JobTexts' = q
    BY <1>11 DEF a
  <2> HIDE DEF q
  <2>7. q = Append(a, x)
    BY <2>2, <2>4, <2>5, SameElements
  <2> QED
    BY <2>6, <2>7 DEF a
<1> QED
  BY <1>3, <1>12 DEF chunk, x, m, n

--------------------------------------------------------------------------------
(* The chunk, if any is left, makes the piece of its string longer.        *)
LEMMA PieceOfChunk ==
  ASSUME Finalized, Given, Position, Begun, curOff % ChunkMax = 0 \/ curOff = Len(line[curLine])
  PROVE  LET s == line[curLine]
         IN  /\ Piece(table, s, curOff) \in Seq(Nat)
             /\ TextOf(table, SubSeq(s, curOff + 1, curOff + Chunk)) \in Seq(Nat)
             /\ Piece(table, s, curOff + Chunk)
                  = Piece(table, s, curOff) \o TextOf(table, SubSeq(s, curOff + 1, curOff + Chunk))
             /\ (curOff + Chunk) % ChunkMax = 0 \/ curOff + Chunk = Len(s)
<1> DEFINE s == line[curLine]
           n == Chunk
           part == SubSeq(s, curOff + 1, curOff + n)
<1>1. /\ n \in Nat /\ curOff \in Nat /\ curOff + n <= Len(s) /\ Len(s) \in Nat
      /\ s \in Seq(Byte) /\ table \in Tables
  BY ChunkType, LineType DEF Given
<1>2. Piece(table, s, curOff) \in Seq(Nat)
  <2>1. curOff <= Len(s)
    <3> HIDE DEF s, n
    <3> QED
      BY <1>1
  <2> QED
    BY <1>1, <2>1, PieceType
<1>3. part \in Seq(Byte)
  <2> DEFINE S == Byte
  <2>1. s \in Seq(S)
    BY <1>1
  <2> HIDE DEF s, S, n
  <2> QED
    BY <2>1, <1>1 DEF S
<1>4. TextOf(table, part) \in Seq(Nat)
  <2> HIDE DEF part
  <2> QED
    BY <1>1, <1>3, TextType
<1>5. n = Min({ChunkMax, Len(s) - curOff})
  BY DEF Chunk
<1>6. CASE curOff < Len(s)
  <2>1. curOff % ChunkMax = 0
    <3>1. curOff # Len(s)
      BY <1>1, <1>6
    <3> QED
      BY <3>1
  <2> HIDE DEF n, s
  <2>2. /\ Piece(table, s, curOff + n) = Piece(table, s, curOff) \o TextOf(table, part)
        /\ (curOff + n) % ChunkMax = 0 \/ curOff + n = Len(s)
    <3> DEFINE o == curOff
    <3>1. /\ table \in Tables /\ s \in Seq(Byte) /\ o \in Nat /\ o < Len(s) /\ o % ChunkMax = 0
          /\ n = Min({ChunkMax, Len(s) - o})
      BY <2>1, <1>1, <1>5, <1>6
    <3> HIDE DEF o, part
    <3>2. /\ Piece(table, s, o + n) = Piece(table, s, o) \o TextOf(table, SubSeq(s, o + 1, o + n))
          /\ (o + n) % ChunkMax = 0 \/ o + n = Len(s)
      BY ONLY <3>1, PieceGrows, Finalized, Zenon
    <3> QED
      BY <3>2 DEF o, part
  <2> QED
    BY <2>2, <1>2, <1>4 DEF s, n, part
<1>7. CASE ~ (curOff < Len(s))
  <2>1. n = 0 /\ curOff + n = curOff /\ curOff = Len(s)
    <3> HIDE DEF s, n
    <3> QED
      BY <1>1, <1>7
  <2>2. part = <<>>
    <3> DEFINE S == Byte
    <3>1. s \in Seq(S)
      BY <1>1
    <3> HIDE DEF s, S, n
    <3>2. SubSeq(s, curOff + 1, curOff) = <<>>
      BY <3>1, <1>1
    <3>3. curOff + n = curOff
      BY <2>1
    <3> QED
      BY <3>2, <3>3
  <2>3. TextOf(table, part) = <<>>
    <3> HIDE DEF part
    <3> QED
      BY <2>2, <1>1, <1>3, TextType
  <2>4. Piece(table, s, curOff) \o <<>> = Piece(table, s, curOff)
    <3> DEFINE p == Piece(table, s, curOff)
    <3>1. p \in Seq(Nat)
      BY <1>2
    <3> HIDE DEF p
    <3>2. p \o <<>> = p
      BY <3>1
    <3> QED
      BY <3>2 DEF p
  <2> QED
    BY <2>1, <2>3, <2>4, <1>2, <1>4 DEF s, n, part
<1> QED
  BY <1>6, <1>7

(* A job is added.                                                         *)
LEMMA AddJobContent == ASSUME Finalized, CInv, AddJob PROVE CInv'
<1>0. IInv /\ BatchContent /\ Given /\ Position /\ Batch /\ IInv'
  BY AddJobPreserves DEF CInv, IInv
<1> DEFINE n == Chunk
           m == Len(input)
           full == m + 1 = MaxJobs
           job == [cur |-> inOff, end |-> inOff + n, pos |-> m, out |-> outOff]
           s == line[curLine]
           x == TextOf(table, SubSeq(s, curOff + 1, curOff + n))
           c == curLine - 1
           front == [l \in 1 .. c |-> Piece(table, line[l], Len(line[l]))]
           last == Piece(table, s, curOff)
<1>1. /\ pc = "job" /\ outOff + Room(n) <= StageMax
      /\ input' = Append(input, job) /\ jobLine' = Append(jobLine, curLine)
      /\ outOff' = outOff + Room(n) /\ symbolBase' = Staged(n)
      /\ curOff' = curOff + n
      /\ curLine' = (IF LastChunk /\ ~ full THEN curLine + 1 ELSE curLine)
      /\ pc' = (IF full THEN "fire" ELSE IF ~ LastChunk THEN "job"
                ELSE IF Fits(curLine + 1) THEN "line" ELSE "fire")
      /\ UNCHANGED <<table, line, size, budget, codeBase, kernel, output, dst, strOut, lenOut>>
  BY DEF AddJob, result, arguments
<1>2. Begun /\ m < MaxJobs /\ m \in Nat /\ MaxJobs \in Nat /\ DOMAIN input = 1 .. m
  BY <1>0, <1>1, SIMDAssumption DEF Position, Batch
<1>3. /\ n \in Nat /\ curOff + n <= Len(s) /\ Len(s) \in Nat
      /\ curOff \in Nat /\ curLine \in 1 .. Len(line) /\ Len(line) \in Nat
  BY <1>0, <1>2, ChunkType
<1>4. Len(strOut) = curLine /\ c \in Nat /\ c + 1 = curLine
  BY <1>2, <1>3 DEF Begun
<1>5. /\ last \in Seq(Nat) /\ x \in Seq(Nat)
      /\ Piece(table, s, curOff + n) = last \o x
      /\ (curOff + n) % ChunkMax = 0 \/ curOff + n = Len(s)
  <2>1. curOff % ChunkMax = 0 \/ curOff = Len(line[curLine])
    BY <1>0, <1>2 DEF BatchContent
  <2> QED
    BY <2>1, <1>0, <1>2, PieceOfChunk
<1>6. JobTexts' = Append(JobTexts, x)
  BY <1>0, <1>1, <1>2, TextsGrow
<1>7. LastChunk <=> curOff + n >= Len(s)
  BY DEF LastChunk
<1>8. curLine' = curLine \/ (curLine' = curLine + 1 /\ curOff + n = Len(s))
  <2>1. LastChunk => curOff + n = Len(s)
    BY <1>3, <1>7
  <2> QED
    BY <2>1, <1>1
<1>9. front \in Seq(Seq(Nat)) /\ Len(front) = c
  <2> DEFINE f(l) == Piece(table, line[l], Len(line[l]))
             S == Seq(Nat)
  <2>1. ASSUME NEW l \in 1 .. c PROVE f(l) \in S
    <3>1. l \in 1 .. Len(line) /\ table \in Tables
      BY <1>0, <1>3, <1>4 DEF Given
    <3>2. line[l] \in Seq(Byte) /\ Len(line[l]) \in Nat /\ Len(line[l]) <= Len(line[l])
      BY <3>1, <1>0, LineType
    <3> QED
      BY <3>1, <3>2, PieceType
  <2>2. front = [l \in 1 .. c |-> f(l)]
    OBVIOUS
  <2> HIDE DEF front, f, S, c
  <2>3. front \in Seq(S) /\ Len(front) = c
    BY <2>1, <2>2, <1>4
  <2> QED
    BY <2>3 DEF S
<1> DEFINE split2(p) == [l \in 1 .. c + 1 |-> IF l <= c THEN front[l] ELSE p]
<1>10. ASSUME NEW p \in Seq(Nat) PROVE split2(p) = Append(front, p)
  <2> DEFINE S == Seq(Nat)
             q == split2(p)
  <2>1. front \in Seq(S) /\ Len(front) = c /\ p \in S
    BY <1>9
  <2> HIDE DEF front, S, c
  <2>2. /\ Append(front, p) \in Seq(S) /\ Len(Append(front, p)) = c + 1
        /\ \A l \in 1 .. c : Append(front, p)[l] = front[l]
        /\ Append(front, p)[c + 1] = p
    BY <2>1, AppendAt
  <2>3. \A l \in 1 .. c : front[l] \in S
    BY <2>1, ElementType
  <2>4. q \in Seq(S) /\ Len(q) = c + 1
    BY <2>1, <2>3, <1>4
  <2>5. \A l \in 1 .. c + 1 : q[l] = Append(front, p)[l]
    BY <2>1, <2>2, <1>4
  <2> HIDE DEF q
  <2>6. q = Append(front, p)
    BY <2>2, <2>4, <2>5, SameElements
  <2> QED
    BY <2>6 DEF q
<1>11. Pieces = Append(front, last)
  <2>1. ASSUME NEW l \in 1 .. c + 1
        PROVE  Piece(table, line[l], Reached(l)) = IF l <= c THEN front[l] ELSE last
    <3>1. CASE l <= c
      <4>1. l \in 1 .. c /\ l < curLine
        BY <3>1, <1>4
      <4> QED
        BY <3>1, <4>1 DEF Reached
    <3>2. CASE ~ (l <= c)
      <4>1. l = curLine /\ ~ (l < curLine)
        BY <3>2, <1>3, <1>4
      <4> QED
        BY <3>2, <4>1 DEF Reached
    <3> QED
      BY <3>1, <3>2
  <2>2. Pieces = [l \in 1 .. c + 1 |-> Piece(table, line[l], Reached(l))]
    BY <1>4 DEF Pieces
  <2> HIDE DEF front, last, c
  <2>3. Pieces = split2(last)
    BY <2>1, <2>2
  <2> HIDE DEF split2
  <2> QED
    BY <2>3, <1>5, <1>10
<1>12. Pieces' = Append(front, last \o x)
  <2>1. ASSUME NEW l \in 1 .. c + 1
        PROVE  Piece(table, line[l], IF l < curLine' THEN Len(line[l]) ELSE curOff')
                 = IF l <= c THEN front[l] ELSE last \o x
    <3>1. CASE l <= c
      <4>1. l \in 1 .. c /\ l < curLine'
        BY <3>1, <1>3, <1>4, <1>8
      <4> QED
        BY <3>1, <4>1
    <3>2. CASE ~ (l <= c)
      <4>1. l = curLine
        BY <3>2, <1>3, <1>4
      <4>2. (IF l < curLine' THEN Len(line[l]) ELSE curOff') = curOff + n
        <5>1. CASE curLine' = curLine
          <6>1. ~ (l < curLine')
            BY <4>1, <5>1, <1>3
          <6> QED
            BY <6>1, <1>1
        <5>2. CASE curLine' = curLine + 1 /\ curOff + n = Len(s)
          <6>1. l < curLine'
            BY <4>1, <5>2, <1>3
          <6> QED
            BY <6>1, <4>1, <5>2
        <5> QED
          BY <5>1, <5>2, <1>8
      <4>3. line[l] = s
        BY <4>1
      <4> HIDE DEF s, n, last, x, front
      <4> QED
        BY <3>2, <4>2, <4>3, <1>5
    <3> QED
      BY <3>1, <3>2
  <2>2. Pieces' = [l \in 1 .. c + 1 |-> Piece(table, line[l], IF l < curLine' THEN Len(line[l]) ELSE curOff')]
    <3>1. Len(strOut') = c + 1 /\ table' = table /\ line' = line
      BY <1>1, <1>4
    <3> HIDE DEF c
    <3> QED
      BY <3>1 DEF Pieces, Reached
  <2>3. last \o x \in Seq(Nat)
    <3> HIDE DEF last, x
    <3> QED
      BY <1>5
  <2> HIDE DEF front, last, c, x
  <2>4. Pieces' = split2(last \o x)
    BY <2>1, <2>2
  <2> HIDE DEF split2
  <2> QED
    BY <2>3, <2>4, <1>10
<1>13. Content(JobTexts, jobLine, dst, strOut, lenOut, Pieces)'
  <2>1. Content(JobTexts, jobLine, dst, strOut, lenOut, Append(front, last))
    BY <1>0, <1>11 DEF BatchContent
  <2> HIDE DEF front, last, x, c
  <2>2. Content(Append(JobTexts, x), Append(jobLine, Len(front) + 1), dst, strOut, lenOut,
                Append(front, last \o x))
    BY <2>1, <1>5, <1>9, ContentJob
  <2>3. Len(front) + 1 = curLine
    BY <1>4, <1>9
  <2>4. Content(JobTexts', jobLine', dst', strOut', lenOut', Pieces')
    BY <2>2, <2>3, <1>1, <1>6, <1>12
  <2> QED
    BY <2>4
<1> HIDE DEF front, last, x, split2
<1>14. input' \in Seq(Job) /\ DOMAIN input' = 1 .. m + 1
       /\ (\A i \in 1 .. m : input'[i] = input[i]) /\ input'[m + 1] = job
  <2>1. job \in Job /\ input \in Seq(Job)
    <3>1. inOff \in Nat /\ outOff \in Nat
      BY <1>0, SIMDAssumption DEF Batch
    <3> HIDE DEF n, m
    <3> QED
      BY <3>1, <1>0, <1>2, <1>3 DEF Job, Batch
  <2> HIDE DEF job
  <2>2. Append(input, job) \in Seq(Job) /\ Len(Append(input, job)) = m + 1
        /\ (\A i \in 1 .. m : Append(input, job)[i] = input[i]) /\ Append(input, job)[m + 1] = job
    BY <2>1, AppendAt
  <2> QED
    BY <2>2, <1>1
<1>15. RoomsApart'
  <2>1. ASSUME NEW i \in 1 .. m + 1, NEW j \in 1 .. m + 1, i < j
        PROVE  input'[i].out + Room(Size(input'[i])) <= input'[j].out
    <3>1. i \in 1 .. m /\ input'[i] = input[i]
      BY <2>1, <1>2, <1>14
    <3>2. CASE j \in 1 .. m
      <4>1. input'[j] = input[j]
        BY <3>2, <1>14
      <4> QED
        BY <3>1, <3>2, <4>1, <2>1, <1>0, <1>2 DEF BatchContent, RoomsApart
    <3>3. CASE j = m + 1
      <4>1. input'[j].out = outOff
        BY <3>3, <1>14 DEF job
      <4> QED
        BY <3>1, <4>1, <1>0, <1>2 DEF Batch, Prepared
    <3>4. j \in 1 .. m \/ j = m + 1
      BY <1>2
    <3> QED
      BY <3>2, <3>3, <3>4
  <2>2. \A i, j \in DOMAIN input' : i < j => input'[i].out + Room(Size(input'[i])) <= input'[j].out
    BY <2>1, <1>14
  <2> QED
    BY <2>2 DEF RoomsApart, Room, Size
<1>16. Begun' => curOff' % ChunkMax = 0 \/ curOff' = Len(line'[curLine'])
  <2> SUFFICES ASSUME Begun' PROVE curOff' % ChunkMax = 0 \/ curOff' = Len(line'[curLine'])
    OBVIOUS
  <2>1. curLine' = curLine
    BY <1>1, <1>4 DEF Begun
  <2> QED
    BY <2>1, <1>1, <1>5
<1>17. ASSUME NEW l \in 1 .. Len(strOut'), strOut'[l] = NotYet, l < curLine'
       PROVE  JobsOf(jobLine', l) # {}
  <2>1. jobLine \in Seq(Nat) /\ Len(jobLine) = Len(JobTexts) /\ curLine \in Nat
    BY <1>0, <1>3 DEF BatchContent, Content
  <2> DEFINE k == Len(jobLine)
  <2>2. /\ jobLine' \in Seq(Nat) /\ Len(jobLine') = k + 1 /\ k \in Nat
        /\ (\A i \in 1 .. k : jobLine'[i] = jobLine[i]) /\ jobLine'[k + 1] = curLine
    <3>1. /\ Append(jobLine, curLine) \in Seq(Nat) /\ Len(Append(jobLine, curLine)) = k + 1 /\ k \in Nat
          /\ \A i \in 1 .. k : Append(jobLine, curLine)[i] = jobLine[i]
          /\ Append(jobLine, curLine)[k + 1] = curLine
      BY <2>1, AppendAt
    <3> QED
      BY <3>1, <1>1
  <2>3. DOMAIN jobLine' = 1 .. k + 1 /\ DOMAIN jobLine = 1 .. k
    BY <2>1, <2>2
  <2> HIDE DEF k
  <2>4. CASE l = curLine
    <3>1. k + 1 \in DOMAIN jobLine' /\ jobLine'[k + 1] = l
      BY <2>2, <2>3, <2>4
    <3> QED
      BY <3>1 DEF JobsOf
  <2>5. CASE l < curLine
    <3>1. l \in 1 .. Len(strOut) /\ strOut[l] = NotYet
      BY <1>1, <1>17
    <3>2. JobsOf(jobLine, l) # {}
      BY <3>1, <2>5, <1>0 DEF BatchContent
    <3>3. PICK i \in DOMAIN jobLine : jobLine[i] = l
      BY <3>2 DEF JobsOf
    <3>4. i \in DOMAIN jobLine' /\ jobLine'[i] = l
      BY <3>3, <2>2, <2>3
    <3> QED
      BY <3>4 DEF JobsOf
  <2>6. l \in Nat /\ l <= curLine
    BY <1>1, <1>4
  <2> QED
    BY <2>4, <2>5, <2>6, <1>3
<1>18. BatchContent'
  BY <1>13, <1>15, <1>16, <1>17 DEF BatchContent
<1>19. pc' = "line" => Fits(curLine)'
  <2> SUFFICES ASSUME pc' = "line" PROVE Fits(curLine)'
    OBVIOUS
  <2>1. ~ full /\ LastChunk /\ Fits(curLine + 1)
    BY <1>1
  <2>2. curLine' = curLine + 1 /\ line' = line /\ budget' = budget
    BY <1>1, <2>1
  <2> QED
    BY <2>1, <2>2 DEF Fits
<1>20. pc' \in {"line", "job", "fire"} /\ DOMAIN codeBase' = 0 .. StageMax - 1
  BY <1>1 DEF CInv
<1> QED
  BY <1>0, <1>18, <1>19, <1>20 DEF CInv

--------------------------------------------------------------------------------
(* What is copied out of a finished batch are the texts of its jobs.       *)
LEMMA CodesAreTexts ==
  ASSUME Finalized, Given, Batch, AtWork, FinishContent, pc = "finish", Unfinished = {},
         NEW i \in 1 .. Len(input)
  PROVE  Codes(i) = TextOf(table, ChunkOf(i)) /\ Codes(i) \in Seq(Nat)
<1> DEFINE job == CHOOSE j \in Range(output) : j.pos = i - 1
           text == TextOf(table, ChunkOf(i))
<1>1. /\ output \in Seq(Job) /\ \A k \in DOMAIN output : Inside(output[k])
      /\ \A a \in DOMAIN input : \E k \in DOMAIN output : output[k].pos = a - 1
  BY DEF AtWork
<1>2. i \in DOMAIN input /\ i \in Nat /\ input[i] \in Job
  BY SizesType
<1>3. \E j \in Range(output) : j.pos = i - 1
  BY <1>1, <1>2 DEF Range
<1>4. job \in Range(output) /\ job.pos = i - 1
  BY <1>3
<1>5. Codes(i) = [n \in 1 .. job.out - input[i].out |-> codeBase[input[i].out + n - 1]]
  BY DEF Codes
<1> HIDE DEF job
<1>6. PICK k \in DOMAIN output : output[k] = job
  BY <1>4 DEF Range
<1>7. Inside(job) /\ Emitted(codeBase, job)
  BY <1>1, <1>6 DEF FinishContent
<1>8. job.cur = job.end
  <2>1. ~ (job.cur < job.end)
    BY <1>6 DEF Unfinished
  <2>2. job.cur \in Nat /\ job.end \in Nat /\ job.cur <= job.end
    BY <1>7 DEF Inside, Job
  <2> QED
    BY <2>1, <2>2
<1>9. job.pos + 1 = i
  BY <1>2, <1>4
<1>10. /\ CodesFor(i) \in Seq(Nat) /\ Len(CodesFor(i)) = job.out - input[i].out
       /\ \A n \in 1 .. Len(CodesFor(i)) : codeBase[input[i].out + n - 1] = CodesFor(i)[n]
  <2> DEFINE ii == job.pos + 1
  <2>1. /\ CodesFor(ii) \in Seq(Nat) /\ Len(CodesFor(ii)) = job.out - input[ii].out
        /\ \A n \in 1 .. Len(CodesFor(ii)) : codeBase[input[ii].out + n - 1] = CodesFor(ii)[n]
    BY <1>7, <1>8, EmittedAll
  <2>2. ii = i
    BY <1>9
  <2> HIDE DEF ii
  <2> QED
    BY <2>1, <2>2
<1>11. CodesFor(i) = text
  BY GreedyIsFrom DEF CodesFor, TextOf
<1> HIDE DEF text
<1>12. Codes(i) = text /\ text \in Seq(Nat)
  <2> DEFINE t == text
             f == [n \in 1 .. Len(t) |-> t[n]]
             S == Nat
  <2>1. t \in Seq(S) /\ \A n \in 1 .. Len(t) : codeBase[input[i].out + n - 1] = t[n]
    BY <1>10, <1>11
  <2>2. Codes(i) = [n \in 1 .. Len(t) |-> codeBase[input[i].out + n - 1]]
    BY <1>5, <1>10, <1>11
  <2> HIDE DEF t, S
  <2>3. t = f
    BY <2>1
  <2>4. Codes(i) = f
    BY <2>1, <2>2
  <2> QED
    BY <2>1, <2>3, <2>4 DEF t, S
<1> QED
  BY <1>12 DEF text

(* The codes of some of the jobs are so many bytes.                        *)
LEMMA BytesAre ==
  ASSUME Finalized, Given, Batch, AtWork, FinishContent, pc = "finish", Unfinished = {},
         NEW S \in SUBSET (1 .. Len(input))
  PROVE  BytesOf(S) = BytesIn(JobTexts, S)
<1> DEFINE f == [i \in S |-> Len(Codes(i))]
           g == LensOf(JobTexts)
<1>1. Len(input) \in Nat /\ DOMAIN input = 1 .. Len(input)
  BY SizesType
<1>2. IsFiniteSet(S)
  <2>1. 1 \in Int /\ Len(input) \in Int
    BY <1>1
  <2>2. IsFiniteSet(1 .. Len(input))
    BY <2>1, FS_Interval
  <2> QED
    BY <2>2, FS_Subset
<1>3. ASSUME NEW i \in S PROVE f[i] \in Int /\ g[i] = f[i]
  <2>1. i \in 1 .. Len(input)
    OBVIOUS
  <2>2. Codes(i) = TextOf(table, ChunkOf(i)) /\ Codes(i) \in Seq(Nat)
    BY <2>1, CodesAreTexts
  <2>3. JobTexts[i] = Codes(i) /\ i \in DOMAIN JobTexts
    BY <2>1, <2>2, <1>1 DEF JobTexts
  <2>4. g[i] = Len(Codes(i))
    BY <2>3 DEF LensOf
  <2>5. Len(Codes(i)) \in Int
    BY <2>2
  <2> QED
    BY <2>4, <2>5
<1> HIDE DEF f, g
<1>4. SumFunctionOnSet(f, S) = SumFunctionOnSet(g, S)
  BY <1>2, <1>3, SumEqual
<1> QED
  BY <1>4 DEF BytesOf, BytesIn, f, g

(* The batch is copied out: the texts of the jobs become the output.       *)
LEMMA CopyOutContent == ASSUME Finalized, CInv, CopyOut PROVE CInv'
<1>0. /\ IInv /\ BatchContent /\ Given /\ Position /\ Batch /\ AtWork /\ IInv'
      /\ DOMAIN codeBase = 0 .. StageMax - 1
  BY CopyOutPreserves DEF CInv, IInv
<1> DEFINE m == Len(input)
           of(l) == {i \in DOMAIN input : jobLine[i] = l}
           their(l) == JobsOf(jobLine, l)
<1>1. /\ pc = "finish" /\ Unfinished = {}
      /\ dst' = dst \o FlattenSeq([i \in DOMAIN input |-> Codes(i)])
      /\ strOut' = [l \in DOMAIN strOut |->
                      IF strOut[l] = NotYet /\ of(l) # {}
                        THEN Len(dst) + BytesOf(1 .. Min(of(l)) - 1)
                        ELSE strOut[l]]
      /\ lenOut' = [l \in DOMAIN lenOut |-> lenOut[l] + BytesOf(of(l))]
      /\ input' = <<>> /\ jobLine' = <<>>
      /\ pc' = (IF Len(strOut) < curLine THEN "line" ELSE "job")
      /\ UNCHANGED <<table, line, size, curLine, curOff, codeBase>>
  BY DEF CopyOut, arguments
<1>2. FinishContent
  BY <1>1 DEF CInv
<1>3. m \in Nat /\ DOMAIN input = 1 .. m
  BY <1>0, SizesType
<1>4. Content(JobTexts, jobLine, dst, strOut, lenOut, Pieces)
  BY <1>0 DEF BatchContent
<1>5. /\ JobTexts \in Seq(Seq(Nat)) /\ jobLine \in Seq(Nat) /\ Len(jobLine) = Len(JobTexts)
      /\ Len(JobTexts) = m /\ dst \in Seq(Nat)
      /\ strOut \in Seq(Int) /\ Len(strOut) = Len(Pieces)
  <2>1. Len(JobTexts) = m
    <3>1. JobTexts \in Seq(Seq(Nat)) /\ DOMAIN JobTexts = 1 .. m
      BY <1>3, <1>4 DEF Content, JobTexts
    <3> HIDE DEF m
    <3> QED
      BY <3>1, <1>3
  <2> QED
    BY <2>1, <1>4 DEF Content
<1>6. ASSUME NEW l PROVE /\ of(l) = their(l) /\ their(l) \in SUBSET (1 .. m)
                         /\ BytesIn(JobTexts, their(l)) \in Nat
                         /\ BytesOf(their(l)) = BytesIn(JobTexts, their(l))
  <2>1. DOMAIN jobLine = 1 .. m
    BY <1>5
  <2>2. of(l) = their(l)
    BY <2>1, <1>3 DEF JobsOf
  <2>3. their(l) \in SUBSET (1 .. m) /\ BytesIn(JobTexts, their(l)) \in Nat
    BY <1>5, JobsOfType
  <2>4. BytesOf(their(l)) = BytesIn(JobTexts, their(l))
    BY <2>3, <1>0, <1>1, <1>2, BytesAre
  <2> QED
    BY <2>2, <2>3, <2>4
<1>7. [i \in DOMAIN input |-> Codes(i)] = JobTexts
  <2>1. ASSUME NEW i \in 1 .. m PROVE Codes(i) = TextOf(table, ChunkOf(i))
    BY <1>0, <1>1, <1>2, CodesAreTexts
  <2> QED
    BY <2>1, <1>3 DEF JobTexts
<1> DEFINE first(l) == 1 .. Min(their(l)) - 1
<1>8. ASSUME NEW l, their(l) # {}
      PROVE  /\ BytesOf(first(l)) = BytesIn(JobTexts, first(l))
             /\ BytesIn(JobTexts, first(l)) \in Nat
  <2> DEFINE T == their(l)
  <2>1. T \in SUBSET Nat /\ T # {} /\ T \in SUBSET (1 .. m)
    BY <1>3, <1>6, <1>8
  <2> HIDE DEF T
  <2>2. Min(T) \in T
    BY <2>1, LeastJob
  <2>3. 1 .. Min(T) - 1 \in SUBSET (1 .. m)
    <3> DEFINE a == Min(T)
    <3>1. a \in 1 .. m
      BY <2>1, <2>2
    <3> HIDE DEF a, m
    <3>2. 1 .. a - 1 \in SUBSET (1 .. m)
      BY <3>1, <1>3
    <3> QED
      BY <3>2 DEF a
  <2>4. first(l) \in SUBSET (1 .. m)
    BY <2>3 DEF T
  <2> HIDE DEF first
  <2>5. BytesOf(first(l)) = BytesIn(JobTexts, first(l))
    BY <2>4, <1>0, <1>1, <1>2, BytesAre
  <2>6. first(l) \in SUBSET (1 .. Len(JobTexts)) /\ <<>> \in Seq(Nat)
    BY <2>4, <1>5
  <2>7. BytesIn(JobTexts, first(l)) \in Nat
    BY <2>6, <1>5, BytesStay
  <2> QED
    BY <2>5, <2>7
<1> DEFINE starts == [l \in DOMAIN strOut |->
                        IF strOut[l] = NotYet /\ their(l) # {}
                          THEN Len(dst) + BytesIn(JobTexts, first(l))
                          ELSE strOut[l]]
           lens == [l \in DOMAIN lenOut |-> lenOut[l] + BytesIn(JobTexts, their(l))]
<1>9. lenOut' = lens
  <2>1. \A l \in DOMAIN lenOut : lenOut[l] + BytesOf(of(l)) = lenOut[l] + BytesIn(JobTexts, their(l))
    BY <1>6
  <2> HIDE DEF of, their
  <2> QED
    BY <2>1, <1>1
<1>10. strOut' = starts
  <2> DEFINE v(l) == IF strOut[l] = NotYet /\ of(l) # {}
                       THEN Len(dst) + BytesOf(1 .. Min(of(l)) - 1) ELSE strOut[l]
             w(l) == IF strOut[l] = NotYet /\ their(l) # {}
                       THEN Len(dst) + BytesIn(JobTexts, first(l)) ELSE strOut[l]
  <2>1. ASSUME NEW l \in DOMAIN strOut PROVE v(l) = w(l)
    <3>1. of(l) = their(l)
      BY <1>6
    <3>2. v(l) = IF strOut[l] = NotYet /\ their(l) # {} THEN Len(dst) + BytesOf(first(l)) ELSE strOut[l]
      BY <3>1
    <3> HIDE DEF v, first, their, of
    <3>3. their(l) # {} => BytesOf(first(l)) = BytesIn(JobTexts, first(l))
      BY <1>8
    <3> QED
      BY <3>2, <3>3
  <2>2. strOut' = [l \in DOMAIN strOut |-> v(l)] /\ starts = [l \in DOMAIN strOut |-> w(l)]
    BY <1>1
  <2> HIDE DEF v, w, starts
  <2> QED
    BY <2>1, <2>2
<1> HIDE DEF of
<1>11. Content(<<>>, <<>>, dst \o FlattenSeq(JobTexts), starts, lens, Pieces)
  BY <1>4, ContentCopied
<1>12. JobTexts' = <<>>
  <2>1. DOMAIN input' = {}
    BY <1>1
  <2> QED
    BY <2>1 DEF JobTexts
<1>13. Len(strOut') = Len(strOut) /\ DOMAIN strOut = 1 .. Len(strOut) /\ Len(strOut) \in Nat
  <2>1. starts \in Seq(Int) /\ Len(starts) = Len(Pieces)
    BY <1>11 DEF Content
  <2> HIDE DEF starts
  <2> QED
    BY <2>1, <1>5, <1>10
<1>14. Pieces' = Pieces /\ (Begun' <=> Begun)
  BY <1>1, <1>13 DEF Pieces, Reached, Begun
<1>15. Content(JobTexts, jobLine, dst, strOut, lenOut, Pieces)'
  <2>1. dst' = dst \o FlattenSeq(JobTexts)
    BY <1>1, <1>7
  <2> HIDE DEF starts, lens
  <2>2. Content(JobTexts', jobLine', dst', strOut', lenOut', Pieces')
    BY <2>1, <1>1, <1>9, <1>10, <1>11, <1>12, <1>14
  <2> QED
    BY <2>2
<1>16. RoomsApart'
  <2>1. DOMAIN input' = {}
    BY <1>1
  <2> QED
    BY <2>1 DEF RoomsApart
<1>17. Begun' => curOff' % ChunkMax = 0 \/ curOff' = Len(line'[curLine'])
  BY <1>0, <1>1, <1>14 DEF BatchContent
<1>18. ASSUME NEW l \in 1 .. Len(strOut'), l < curLine' PROVE strOut'[l] # NotYet
  <2>1. l \in 1 .. Len(strOut) /\ l < curLine /\ l \in DOMAIN strOut
    BY <1>1, <1>13, <1>18
  <2>2. CASE strOut[l] = NotYet
    <3>1. their(l) # {}
      BY <2>1, <2>2, <1>0 DEF BatchContent
    <3>2. strOut'[l] = Len(dst) + BytesIn(JobTexts, first(l))
      <4> HIDE DEF their, first
      <4> QED
        BY <3>1, <2>1, <2>2, <1>10
    <3>3. BytesIn(JobTexts, first(l)) \in Nat /\ Len(dst) \in Nat
      BY <3>1, <1>5, <1>8
    <3> HIDE DEF first
    <3> QED
      BY <3>2, <3>3 DEF NotYet
  <2>3. CASE strOut[l] # NotYet
    <3>1. strOut'[l] = strOut[l]
      <4> HIDE DEF their, first
      <4> QED
        BY <2>1, <2>3, <1>10
    <3> QED
      BY <3>1, <2>3
  <2> QED
    BY <2>2, <2>3
<1>19. BatchContent'
  BY <1>15, <1>16, <1>17, <1>18 DEF BatchContent
<1>20. pc' \in {"line", "job"} /\ DOMAIN codeBase' = 0 .. StageMax - 1 /\ input' = <<>>
  BY <1>0, <1>1
<1> QED
  BY <1>0, <1>19, <1>20 DEF CInv

--------------------------------------------------------------------------------
(* Every step keeps the invariant, so it holds of every call.              *)
LEMMA NextContent == ASSUME Finalized PROVE CInv /\ [Next]_vars => CInv'
<1> SUFFICES ASSUME CInv, [Next]_vars PROVE CInv'
  OBVIOUS
<1>1. CASE StartLine
  BY <1>1, StartLineContent
<1>2. CASE Return
  BY <1>2, ReturnContent
<1>3. CASE AddJob
  BY <1>3, AddJobContent
<1>4. CASE StageFull
  BY <1>4, StageFullContent
<1>5. CASE FireKernel
  BY <1>5, FireKernelContent
<1>6. CASE FireScalar
  BY <1>6, FireScalarContent
<1>7. CASE Iterate
  BY <1>7, IterateContent
<1>8. CASE KernelReturn
  BY <1>8, KernelReturnContent
<1>9. CASE FinishCode
  BY <1>9, FinishCodeContent
<1>10. CASE CopyOut
  BY <1>10, CopyOutContent
<1>11. CASE UNCHANGED vars
  <2>1. UNCHANGED <<table, line, size, pc, curLine, curOff, input, jobLine, inOff, outOff, symbolBase,
                    budget, codeBase, kernel, output, dst, strOut, lenOut, split>>
    BY <1>11 DEF vars, arguments, batch, result
  <2>2. IInv'
    BY <1>11, NextInv DEF CInv
  <2>3. BatchContent' /\ (Fits(curLine) => Fits(curLine)')
    BY <2>1, BatchContentStays DEF CInv, Fits
  <2>4. ASSUME KernelContent PROVE KernelContent'
    <3>1. kernel' = kernel /\ table' = table /\ input' = input /\ symbolBase' = symbolBase
      BY <2>1
    <3>2. (\A l \in Lane : kernel.lane[l] # Idle => Emitted(kernel.mem, kernel.lane[l]))'
      <4>1. ASSUME NEW l \in Lane
            PROVE  Emitted(kernel.mem, kernel.lane[l])' <=> Emitted(kernel.mem, kernel.lane[l])
        BY <3>1 DEF Emitted, ChunkOf, Start, Size
      <4>2. \A l \in Lane : kernel.lane[l] # Idle => Emitted(kernel.mem, kernel.lane[l])
        BY <2>4 DEF KernelContent
      <4> QED
        BY <3>1, <4>1, <4>2
    <3>3. (\A d \in DOMAIN kernel.done :
             Emitted(kernel.mem, kernel.done[d]) /\ kernel.done[d].cur = kernel.done[d].end)'
      <4>1. ASSUME NEW d
            PROVE  Emitted(kernel.mem, kernel.done[d])' <=> Emitted(kernel.mem, kernel.done[d])
        BY <3>1 DEF Emitted, ChunkOf, Start, Size
      <4>2. \A d \in DOMAIN kernel.done :
              Emitted(kernel.mem, kernel.done[d]) /\ kernel.done[d].cur = kernel.done[d].end
        BY <2>4 DEF KernelContent
      <4> QED
        BY <3>1, <4>1, <4>2
    <3>4. LanesApart(kernel.lane, kernel.done, kernel.next)' /\ DOMAIN kernel.mem' = 0 .. StageMax - 1
      <4>1. Ordered' = Ordered /\ NonEmpty' = NonEmpty
        BY <3>1 DEF Ordered, NonEmpty, Size, Before
      <4> QED
        BY <2>4, <3>1, <4>1 DEF KernelContent, LanesApart
    <3> QED
      BY <3>2, <3>3, <3>4, Zenon DEF KernelContent
  <2>5. ASSUME FinishContent PROVE FinishContent'
    <3>1. UNCHANGED <<table, input, symbolBase, output, codeBase>>
      BY <2>1
    <3>2. (\A d \in DOMAIN output : Emitted(codeBase, output[d]))'
      BY <2>5, <3>1 DEF FinishContent, Emitted, ChunkOf, Start, Size
    <3> QED
      BY <2>5, <3>1, <3>2 DEF FinishContent
  <2> QED
    BY <2>1, <2>2, <2>3, <2>4, <2>5 DEF CInv
<1> QED
  BY <1>1, <1>2, <1>3, <1>4, <1>5, <1>6, <1>7, <1>8, <1>9, <1>10, <1>11 DEF Next

LEMMA ContentAlways == ASSUME Finalized PROVE Spec => []CInv
<1>1. Init => CInv
  BY InitContent
<1>2. CInv /\ [Next]_vars => CInv'
  BY NextContent
<1> QED
  BY <1>1, <1>2, PTL DEF Spec

(* What has been copied out of a string, in every state.                   *)
LEMMA DeliveredPart ==
  ASSUME Finalized, CInv, NEW l \in 1 .. Len(strOut), strOut[l] # NotYet
  PROVE  /\ Delivered(l) \in Seq(Nat) /\ LineCodes(line[l]) \in Seq(Nat)
         /\ Len(Delivered(l)) <= Len(LineCodes(line[l]))
         /\ \A k \in 1 .. Len(Delivered(l)) : Delivered(l)[k] = LineCodes(line[l])[k]
         /\ strOut[l] = SumFunctionOnSet(lenOut, 1 .. l - 1)
         /\ pc = "returned" => Len(Delivered(l)) = Len(LineCodes(line[l]))
<1> DEFINE s == line[l]
           p == Piece(table, s, Reached(l))
           whole == LineCodes(s)
           part == Delivered(l)
<1>0. Given /\ Position /\ BatchContent
  BY DEF CInv, IInv
<1>1. Content(JobTexts, jobLine, dst, strOut, lenOut, Pieces) /\ table \in Tables
  BY <1>0 DEF BatchContent, Given
<1>2. Len(Pieces) = Len(strOut) /\ Len(strOut) \in Nat
  BY <1>1 DEF Content
<1>3. Pieces[l] = p
  BY DEF Pieces
<1>4. /\ Len(strOut) \in {curLine - 1, curLine} /\ curLine \in 1 .. Len(line) + 1 /\ Len(line) \in Nat
      /\ curOff \in Nat /\ (Begun => curLine <= Len(line) /\ curOff <= Len(line[curLine]))
      /\ (pc = "returned" => ~ Begun)
  BY <1>0, LineType DEF Position
<1>5. l \in 1 .. Len(line) /\ (l < curLine \/ (l = curLine /\ Begun))
  <2>1. CASE Len(strOut) = curLine
    BY <2>1, <1>4 DEF Begun
  <2>2. CASE Len(strOut) = curLine - 1
    BY <2>2, <1>4
  <2> QED
    BY <2>1, <2>2, <1>4
<1>6. s \in Seq(Byte) /\ Len(s) \in Nat
  BY <1>0, <1>5, LineType
<1>7. Reached(l) \in Nat /\ Reached(l) <= Len(s)
  <2>1. CASE l < curLine
    <3>1. Reached(l) = Len(s)
      BY <2>1 DEF Reached
    <3> HIDE DEF s
    <3> QED
      BY <3>1, <1>6
  <2>2. CASE l = curLine /\ Begun
    <3>1. Reached(l) = curOff /\ curOff <= Len(s)
      BY <2>2, <1>4 DEF Reached
    <3> HIDE DEF s
    <3> QED
      BY <3>1, <1>4
  <2> QED
    BY <2>1, <2>2, <1>5
<1>8. whole = FlattenSeq(ChunkCodes(table, s))
  BY LineCodesAre
<1> HIDE DEF s, whole, part
<1>9. /\ p \in Seq(Nat) /\ whole \in Seq(Nat) /\ Len(p) <= Len(whole)
      /\ \A k \in 1 .. Len(p) : p[k] = whole[k]
      /\ Reached(l) = Len(s) => p = whole
  BY <1>1, <1>6, <1>7, <1>8, PieceType
<1> HIDE DEF p
<1>10. /\ part \in Seq(Nat) /\ Len(part) <= Len(p)
       /\ \A k \in 1 .. Len(part) : part[k] = p[k]
       /\ JobTexts = <<>> => Len(part) = Len(p)
       /\ strOut[l] = UpTo(lenOut, l - 1)
  <2> DEFINE d == SubSeq(dst, strOut[l] + 1, strOut[l] + lenOut[l])
  <2>1. l \in 1 .. Len(Pieces)
    BY <1>2
  <2>2. /\ d \in Seq(Nat) /\ Len(d) <= Len(Pieces[l])
        /\ \A k \in 1 .. Len(d) : d[k] = Pieces[l][k]
        /\ JobTexts = <<>> => Len(d) = Len(Pieces[l])
        /\ strOut[l] = UpTo(lenOut, l - 1)
    BY <2>1, <1>1, ContentDelivered
  <2>3. part = d
    BY DEF part, Delivered
  <2> HIDE DEF d
  <2> QED
    BY <2>2, <2>3, <1>3
<1>11. Len(part) <= Len(whole) /\ \A k \in 1 .. Len(part) : part[k] = whole[k]
  <2>1. Len(part) \in Nat /\ Len(p) \in Nat /\ Len(whole) \in Nat
    BY <1>9, <1>10
  <2>2. \A k \in 1 .. Len(part) : k \in 1 .. Len(p)
    BY <2>1, <1>10
  <2> QED
    BY <2>1, <2>2, <1>9, <1>10
<1>12. ASSUME pc = "returned" PROVE Len(part) = Len(whole)
  <2>1. input = <<>>
    BY <1>12 DEF CInv
  <2>2. JobTexts = <<>>
    <3>1. DOMAIN input = {}
      BY <2>1
    <3> QED
      BY <3>1 DEF JobTexts
  <2>3. Reached(l) = Len(s)
    BY <1>4, <1>5, <1>12 DEF Reached, s
  <2> QED
    BY <2>2, <2>3, <1>9, <1>10
<1> QED
  BY <1>9, <1>10, <1>11, <1>12 DEF part, whole, s, UpTo

(* Whatever the batches, the sorting, the lanes and the scalar rest, what  *)
(* is copied out of a string are its greedy codes from the start, string   *)
(* after string, and all of them when the call returns.                    *)
THEOREM ByteCompatibleAlways == ASSUME Finalized PROVE Spec => []ByteCompatible
<1>1. ASSUME CInv PROVE ByteCompatible
  <2>0. Position /\ BatchContent /\ Given
    BY <1>1 DEF CInv, IInv
  <2>1. DOMAIN strOut = 1 .. Len(strOut) /\ Len(strOut) \in Nat
    <3>1. strOut \in Seq(Int)
      BY <2>0 DEF BatchContent, Content
    <3> QED
      BY <3>1
  <2>2. ASSUME NEW l \in DOMAIN strOut, strOut[l] # NotYet
        PROVE  /\ IsPrefix(Delivered(l), LineCodes(line[l]))
               /\ strOut[l] = SumFunctionOnSet(lenOut, 1 .. l - 1)
    <3>1. l \in 1 .. Len(strOut)
      BY <2>1
    <3>2. /\ Delivered(l) \in Seq(Nat) /\ LineCodes(line[l]) \in Seq(Nat)
          /\ Len(Delivered(l)) <= Len(LineCodes(line[l]))
          /\ \A k \in 1 .. Len(Delivered(l)) : Delivered(l)[k] = LineCodes(line[l])[k]
          /\ strOut[l] = SumFunctionOnSet(lenOut, 1 .. l - 1)
      BY <3>1, <1>1, <2>2, DeliveredPart
    <3>3. IsPrefix(Delivered(l), LineCodes(line[l]))
      BY <3>2, PrefixElements
    <3> QED
      BY <3>2, <3>3
  <2>3. ASSUME pc = "returned", NEW l \in 1 .. curLine - 1
        PROVE  Delivered(l) = LineCodes(line[l])
    <3>1. ~ Begun /\ Len(strOut) \in {curLine - 1, curLine} /\ curLine \in Nat
      BY <2>0, <2>3, LineType DEF Position
    <3>2. l \in 1 .. Len(strOut) /\ l < curLine
      BY <3>1 DEF Begun
    <3>3. strOut[l] # NotYet
      <4>1. input = <<>>
        BY <1>1, <2>3 DEF CInv
      <4>2. JobTexts = <<>>
        <5>1. DOMAIN input = {}
          BY <4>1
        <5> QED
          BY <5>1 DEF JobTexts
      <4>3. jobLine \in Seq(Nat) /\ Len(jobLine) = 0
        BY <4>2, <2>0 DEF BatchContent, Content
      <4>4. JobsOf(jobLine, l) = {}
        <5>1. DOMAIN jobLine = {}
          BY <4>3
        <5> QED
          BY <5>1 DEF JobsOf
      <4> QED
        BY <4>4, <3>2, <2>0 DEF BatchContent
    <3>4. /\ Delivered(l) \in Seq(Nat) /\ LineCodes(line[l]) \in Seq(Nat)
          /\ \A k \in 1 .. Len(Delivered(l)) : Delivered(l)[k] = LineCodes(line[l])[k]
          /\ Len(Delivered(l)) = Len(LineCodes(line[l]))
      BY <3>2, <3>3, <1>1, <2>3, DeliveredPart
    <3> QED
      BY <3>4, SameElements
  <2> QED
    BY <2>2, <2>3 DEF ByteCompatible
<1>2. CInv => ByteCompatible
  BY <1>1
<1>3. Spec => []CInv
  BY ContentAlways
<1> QED
  BY <1>2, <1>3, PTL
================================================================================
