---------------------------- MODULE FsstCreateProof ----------------------------
(***************************************************************************)
(* Proofs about fsst_create: the sample stays inside its buffers; whatever *)
(* the sample, every symbol of every table of the search is a piece of it, *)
(* or one that an overflown counter of a pair stands for; the search does  *)
(* to its tables what SymbolTableLife allows; and the table that is        *)
(* returned is one that finalize has finished, made of what the best round *)
(* used most profitably.                                                   *)
(***************************************************************************)
EXTENDS FsstCreate, TableTheorems

--------------------------------------------------------------------------------
(* The sample.                                                             *)

(* What the constants are.                                                 *)
LEMMA Sizes ==
  /\ SampleTarget \in Nat /\ SampleTarget >= 1
  /\ SampleLine \in Nat /\ SampleLine >= 1 /\ SampleLine <= SampleTarget
  /\ SampleMaxSize \in Nat /\ SampleMaxSize = 2 * SampleTarget
  /\ SampleMaxSize \div SampleLine \in Nat
<1>1. /\ SampleTarget \in Nat /\ SampleTarget >= 1
      /\ SampleLine \in Nat /\ SampleLine >= 1 /\ SampleLine <= SampleTarget
  BY SampleAssumption
<1>2. SampleMaxSize \in Nat /\ SampleMaxSize = 2 * SampleTarget
  BY <1>1 DEF SampleMaxSize
<1>3. \A a, b \in Nat : b >= 1 => a \div b \in Nat
  OBVIOUS
<1> QED
  BY <1>1, <1>2, <1>3

(* Strings and their lengths.                                              *)
Lengths(strings) == [i \in DOMAIN strings |-> Len(strings[i])]

LEMMA LengthsType ==
  ASSUME NEW strings \in Seq(Seq(Byte))
  PROVE  /\ DOMAIN strings = 1 .. Len(strings) /\ Len(strings) \in Nat
         /\ IsFiniteSet(DOMAIN strings)
         /\ DOMAIN Lengths(strings) = DOMAIN strings
         /\ \A i \in DOMAIN strings :
              Lengths(strings)[i] = Len(strings[i]) /\ Lengths(strings)[i] \in Nat
         /\ Bytes(strings) = SumFunctionOnSet(Lengths(strings), DOMAIN strings)
         /\ Bytes(strings) \in Nat
<1>1. DOMAIN strings = 1 .. Len(strings) /\ Len(strings) \in Nat
  OBVIOUS
<1>2. IsFiniteSet(DOMAIN strings)
  BY <1>1, FS_Interval
<1>3. \A i \in DOMAIN strings : Lengths(strings)[i] = Len(strings[i]) /\ Lengths(strings)[i] \in Nat
  <2>1. \A i \in DOMAIN strings : strings[i] \in Seq(Byte)
    BY <1>1, ElementType
  <2> QED
    BY <2>1 DEF Lengths
<1>4. Bytes(strings) = SumFunctionOnSet(Lengths(strings), DOMAIN strings)
  BY Zenon DEF Bytes, Lengths
<1>5. DOMAIN Lengths(strings) = DOMAIN strings
  BY DEF Lengths
<1>6. Bytes(strings) \in Nat
  BY <1>2, <1>3, <1>4, SumNat
<1> QED
  BY <1>1, <1>2, <1>3, <1>4, <1>5, <1>6

(* No strings have no bytes.                                               *)
LEMMA BytesNone == Bytes(<<>>) = 0
<1>1. DOMAIN <<>> = {}
  OBVIOUS
<1>2. <<>> \in Seq(Seq(Byte))
  OBVIOUS
<1>3. Bytes(<<>>) = SumFunctionOnSet(Lengths(<<>>), {})
  BY <1>1, <1>2, LengthsType
<1> QED
  BY <1>3, SumOfNone

(* One string more.                                                        *)
LEMMA BytesAppend ==
  ASSUME NEW strings \in Seq(Seq(Byte)), NEW s \in Seq(Byte)
  PROVE  Bytes(Append(strings, s)) = Bytes(strings) + Len(s)
<1> DEFINE all == Append(strings, s)
           n == Len(strings)
           f == Lengths(strings)
           g == Lengths(all)
<1>1. all \in Seq(Seq(Byte)) /\ Len(all) = n + 1 /\ n \in Nat
  OBVIOUS
<1>2. \A i \in 1 .. n : all[i] = strings[i]
  OBVIOUS
<1>3. all[n + 1] = s /\ Len(s) \in Nat
  OBVIOUS
<1> HIDE DEF all
<1>4. /\ DOMAIN strings = 1 .. n /\ DOMAIN all = 1 .. n + 1
      /\ Bytes(strings) = SumFunctionOnSet(f, 1 .. n)
      /\ Bytes(all) = SumFunctionOnSet(g, 1 .. n + 1)
      /\ \A i \in 1 .. n : f[i] = Len(strings[i]) /\ f[i] \in Nat
      /\ \A i \in 1 .. n + 1 : g[i] = Len(all[i]) /\ g[i] \in Nat
      /\ Bytes(strings) \in Nat
  BY <1>1, LengthsType
<1> HIDE DEF f, g, n
<1>5. n + 1 \in 1 .. n + 1 /\ \A i \in 1 .. n : i \in 1 .. n + 1
  BY <1>1
<1>6. \A i \in 1 .. n : f[i] \in Int /\ g[i] = f[i]
  BY <1>2, <1>4, <1>5
<1>7. SumFunctionOnSet(f, 1 .. n) = SumFunctionOnSet(g, 1 .. n)
  <2>1. IsFiniteSet(1 .. n)
    BY <1>1, FS_Interval
  <2> QED
    BY <2>1, <1>6, SumEqual
<1>8. SumFunctionOnSet(g, 1 .. n + 1) = g[n + 1] + SumFunctionOnSet(g, 1 .. n)
  <2>1. \A i \in 1 .. n + 1 : g[i] \in Int
    BY <1>4
  <2> QED
    BY <2>1, <1>1, SumNext
<1>9. g[n + 1] = Len(s)
  BY <1>3, <1>4, <1>5
<1>10. Bytes(all) = Bytes(strings) + Len(s)
  BY <1>3, <1>4, <1>7, <1>8, <1>9
<1> QED
  BY <1>10 DEF all

(* A part of a sequence.                                                   *)
PieceOf(x, s) ==
  \E k \in 0 .. Len(s) - Len(x) : x = SubSeq(s, k + 1, k + Len(x))

Part(s, a, b) == SubSeq(s, a + 1, b)

LEMMA Piece ==
  ASSUME NEW s \in Seq(Byte), NEW a \in Nat, NEW b \in Nat, a < b, b <= Len(s)
  PROVE  LET x == Part(s, a, b)
         IN  /\ x \in Seq(Byte) /\ Len(x) = b - a /\ x # <<>> /\ PieceOf(x, s)
             /\ \A i \in 1 .. b - a : x[i] = s[a + i]
<1> DEFINE x == Part(s, a, b)
<1>1. x \in Seq(Byte) /\ Len(x) = b - a /\ \A i \in 1 .. b - a : x[i] = s[a + i]
  BY DEF Part
<1>2. x # <<>>
  BY <1>1
<1>3. a \in 0 .. Len(s) - Len(x) /\ a + Len(x) = b
  BY <1>1
<1>4. x = SubSeq(s, a + 1, a + Len(x))
  BY <1>3 DEF Part
<1> HIDE DEF x
<1>5. x \in Seq(Byte) /\ Len(x) = b - a /\ x # <<>> /\ PieceOf(x, s)
  BY <1>1, <1>2, <1>3, <1>4 DEF PieceOf
<1> QED
  BY <1>1, <1>5 DEF x

(* A quotient, and how much of a number it accounts for.                   *)
LEMMA QuotientBelow ==
  ASSUME NEW d \in Nat \ {0}, NEW m \in Nat
  PROVE  m \div d \in Nat /\ d * (m \div d) <= m
<1>1. /\ m \div d \in Nat /\ m % d \in 0 .. d - 1
      /\ m = (d * (m \div d)) + (m % d)
  OBVIOUS
<1> QED
  BY <1>1

(* The chunks of a line lie in it.                                         *)
LEMMA ChunkInside ==
  ASSUME strIn \in Seq(Seq(Byte)), NEW l \in DOMAIN strIn, strIn[l] # <<>>,
         NEW c \in 0 .. Chunks(l) - 1
  PROVE  /\ Chunk(l, c) \in Seq(Byte) /\ Chunk(l, c) # <<>>
         /\ Len(Chunk(l, c)) \in Nat /\ Len(Chunk(l, c)) <= SampleLine
         /\ PieceOf(Chunk(l, c), strIn[l])
<1> DEFINE s == strIn[l]
           n == Len(s)
           from == c * SampleLine
           to == IF (c + 1) * SampleLine < n THEN (c + 1) * SampleLine ELSE n
<1>1. s \in Seq(Byte) /\ n \in Nat /\ n >= 1
  <2>1. s \in Seq(Byte)
    BY ElementType
  <2> QED
    BY <2>1
<1>2. Chunks(l) = 1 + (n - 1) \div SampleLine
  BY DEF Chunks
<1>3. Chunk(l, c) = SubSeq(s, from + 1, to)
  BY DEF Chunk
<1> HIDE DEF s, n
<1>4. \A m \in Nat, d \in Nat, k \in Nat :
        d >= 1 /\ k <= m \div d => k * d \in Nat /\ k * d <= m /\ (k + 1) * d = k * d + d
  <2> TAKE m \in Nat, d \in Nat, k \in Nat
  <2> HAVE d >= 1 /\ k <= m \div d
  <2>1. (m \div d) \in Nat /\ d * (m \div d) <= m
    <3>1. d \in Nat \ {0}
      OBVIOUS
    <3> QED
      BY <3>1, QuotientBelow, Zenon
  <2>2. \A q \in Nat : k <= q => k * d <= d * q
    OBVIOUS
  <2>3. k * d \in Nat /\ (k + 1) * d = k * d + d
    OBVIOUS
  <2> QED
    BY <2>1, <2>2, <2>3
<1>5. c \in Nat /\ c <= (n - 1) \div SampleLine /\ n - 1 \in Nat
  <2>1. (n - 1) \div SampleLine \in Int
    BY <1>1, Sizes
  <2> QED
    BY <1>1, <1>2, <2>1
<1>6. from \in Nat /\ from <= n - 1 /\ (c + 1) * SampleLine = from + SampleLine
  BY <1>4, <1>5, Sizes
<1> HIDE DEF from
<1>7. to \in Nat /\ from < to /\ to <= n /\ to - from <= SampleLine
  BY <1>1, <1>6, Sizes
<1> HIDE DEF to
<1>8. /\ Chunk(l, c) \in Seq(Byte) /\ Len(Chunk(l, c)) = to - from /\ Chunk(l, c) # <<>>
      /\ PieceOf(Chunk(l, c), s)
  <2>1. from < to /\ to <= Len(s)
    BY <1>7 DEF n
  <2> DEFINE x == Part(s, from, to)
  <2>2. x = Chunk(l, c)
    BY <1>3 DEF Part
  <2>3. from \in Nat /\ to \in Nat /\ s \in Seq(Byte)
    BY <1>1, <1>6, <1>7
  <2>4. x \in Seq(Byte) /\ Len(x) = to - from /\ x # <<>> /\ PieceOf(x, s)
    BY <2>1, <2>3, Piece
  <2> HIDE DEF x
  <2> QED
    BY <2>2, <2>4
<1> QED
  BY <1>6, <1>7, <1>8 DEF s

(* The most bytes that a sample has.                                       *)
MostBytes == SampleTarget - 1 + SampleLine

(* The places of the program.                                              *)
Places0 == {"sampling", "sampled", "count", "propose", "add", "done"}

(* While it is drawn, and ever after.                                      *)
SampleInv ==
  /\ pc \in Places0
  /\ strIn \in Seq(Seq(Byte)) /\ sample \in Seq(Seq(Byte))
  /\ Bytes(strIn) < SampleTarget => sample = IF pc = "sampling" THEN <<>> ELSE strIn
  /\ Bytes(strIn) >= SampleTarget =>
       /\ Bytes(sample) <= MostBytes
       /\ Len(sample) <= Allocated
       /\ \A i \in DOMAIN sample :
            sample[i] # <<>> /\ \E l \in DOMAIN strIn : PieceOf(sample[i], strIn[l])

LEMMA SampleInvInit == Init => SampleInv
<1> SUFFICES ASSUME Init PROVE SampleInv
  OBVIOUS
<1>1. pc = "sampling" /\ strIn \in Lines /\ sample = <<>>
  BY DEF Init, SampleInit
<1>2. strIn \in Seq(Seq(Byte))
  BY <1>1, SearchAssumption
<1>3. Bytes(sample) <= MostBytes
  BY <1>1, BytesNone, Sizes DEF MostBytes
<1>4. Len(sample) <= Allocated
  BY <1>1, <1>2, Sizes DEF Allocated
<1>5. DOMAIN sample = {} /\ sample \in Seq(Seq(Byte))
  BY <1>1
<1> QED
  BY <1>1, <1>2, <1>3, <1>4, <1>5 DEF SampleInv, Places0

LEMMA SampleInvNext ==
  ASSUME SampleInv, [Next]_vars
  PROVE  SampleInv'
<1>1. CASE TakeAll
  BY <1>1, LengthsType, Sizes DEF TakeAll, SampleInv, Places0
<1>2. CASE TakeChunk
  <2>1. PICK l \in {k \in DOMAIN strIn : strIn[k] # <<>>} :
          \E c \in 0 .. Chunks(l) - 1 : sample' = Append(sample, Chunk(l, c))
    BY <1>2 DEF TakeChunk
  <2>2. PICK c \in 0 .. Chunks(l) - 1 : sample' = Append(sample, Chunk(l, c))
    BY <2>1
  <2> DEFINE x == Chunk(l, c)
  <2>3. /\ pc' = pc /\ strIn' = strIn /\ pc = "sampling" /\ Bytes(strIn) >= SampleTarget
        /\ Bytes(sample) < SampleTarget /\ Len(sample) < Allocated
    BY <1>2 DEF TakeChunk, GoesOn
  <2>4. /\ strIn \in Seq(Seq(Byte)) /\ sample \in Seq(Seq(Byte)) /\ l \in DOMAIN strIn
        /\ \A i \in DOMAIN sample :
             sample[i] # <<>> /\ \E k \in DOMAIN strIn : PieceOf(sample[i], strIn[k])
    BY <2>3 DEF SampleInv
  <2>5. x \in Seq(Byte) /\ x # <<>> /\ Len(x) \in Nat /\ Len(x) <= SampleLine
        /\ PieceOf(x, strIn[l])
    BY <2>1, <2>2, <2>4, ChunkInside
  <2>6. sample' = Append(sample, x)
    BY <2>2
  <2> HIDE DEF x
  <2>7. Bytes(sample') = Bytes(sample) + Len(x) /\ Bytes(sample) \in Nat
    BY <2>4, <2>5, <2>6, BytesAppend, LengthsType
  <2>8. /\ sample' \in Seq(Seq(Byte)) /\ Len(sample') = Len(sample) + 1
        /\ DOMAIN sample' = 1 .. Len(sample) + 1 /\ DOMAIN sample = 1 .. Len(sample)
        /\ \A i \in 1 .. Len(sample) : sample'[i] = sample[i]
        /\ sample'[Len(sample) + 1] = x /\ Len(sample) \in Nat
    BY <2>4, <2>5, <2>6
  <2>9. Bytes(sample') <= MostBytes
    BY <2>3, <2>5, <2>7, Sizes DEF MostBytes
  <2>10. Len(sample') <= Allocated' /\ Allocated' = Allocated
    <3>1. Allocated' = Allocated
      BY <2>3 DEF Allocated
    <3>2. Allocated \in Int
      BY <2>4, Sizes DEF Allocated
    <3> QED
      BY <3>1, <3>2, <2>3, <2>8
  <2>11. ASSUME NEW i \in DOMAIN sample'
         PROVE  sample'[i] # <<>> /\ \E k \in DOMAIN strIn : PieceOf(sample'[i], strIn[k])
    <3>1. CASE i \in 1 .. Len(sample)
      BY <3>1, <2>4, <2>8
    <3>2. CASE i = Len(sample) + 1
      BY <3>2, <2>4, <2>5, <2>8
    <3> QED
      BY <3>1, <3>2, <2>8
  <2>12. Bytes(strIn) \in Nat
    BY <2>4, LengthsType
  <2> QED
    BY <2>3, <2>4, <2>8, <2>9, <2>10, <2>11, <2>12, Sizes DEF SampleInv
<1>3. CASE EnoughDrawn
  <2>1. Bytes(strIn) \in Nat
    BY LengthsType DEF SampleInv
  <2> QED
    BY <1>3, <2>1, Sizes DEF EnoughDrawn, SampleInv, Places0, Allocated, Bytes
<1>4. ASSUME pc # "sampling", pc' \in Places0 \ {"sampling"}, strIn' = strIn, sample' = sample
      PROVE  SampleInv'
  BY <1>4 DEF SampleInv, Allocated, Bytes
<1>5. CASE BuildTable
  BY <1>4, <1>5 DEF BuildTable, Build, Start, CompressCount, Propose, AddBest, NextRound, Finalize,
                    Places0
<1>6. CASE UNCHANGED vars
  BY <1>6 DEF vars, SampleInv, Allocated, Bytes
<1> QED
  BY <1>1, <1>2, <1>3, <1>5, <1>6 DEF Next, MakeSample, Draw, Return

(* For all inputs and sizes of the buffers: the sample that is drawn fits  *)
(* the buffer and the array of its lengths, and consists of pieces of the  *)
(* lines that are not empty.                                               *)
THEOREM SampleInsideAlways == Spec => []SampleInside
<1>1. SampleInv => SampleInside
  <2> SUFFICES ASSUME SampleInv PROVE SampleInside
    OBVIOUS
  <2>1. MostBytes <= SampleMaxSize /\ MostBytes \in Int
    BY Sizes DEF MostBytes
  <2>2. Bytes(sample) \in Nat /\ SampleMaxSize \in Nat
    BY LengthsType, Sizes DEF SampleInv
  <2>3. Bytes(strIn) >= SampleTarget => Bytes(sample) <= SampleMaxSize
    BY <2>1, <2>2 DEF SampleInv
  <2> QED
    BY <2>3 DEF SampleInv, SampleInside, PieceOf
<1> QED
  BY <1>1, SampleInvInit, SampleInvNext, PTL DEF Spec

--------------------------------------------------------------------------------
(* The codes of a line.                                                    *)

(* A code that stands for something in a table under construction.         *)
ValidCode(t, c) == c \in Byte \/ \E i \in DOMAIN t.symbols : c = CodeOf(i)

LEMMA CodeSymbol ==
  ASSUME NEW t, Agrees(t), NEW c, ValidCode(t, c)
  PROVE  /\ c \in Nat
         /\ SymbolOf(t, c) \in Symbol
         /\ SymbolOf(t, c) \in Range(t.symbols) \/ (c \in Byte /\ SymbolOf(t, c) = <<c>>)
         /\ c \in Byte => SymbolOf(t, c) = <<c>>
         /\ \A i \in DOMAIN t.symbols : c = CodeOf(i) => SymbolOf(t, c) = t.symbols[i]
<1>1. /\ t.symbols \in Seq(Symbol) /\ CodeBase \in Nat /\ MaxLength \in Nat /\ MaxLength >= 1
      /\ \A i \in DOMAIN t.symbols : i \in Nat \ {0} /\ t.symbols[i] \in Symbol
  BY TableAssumption DEF Agrees, Shape
<1>2. ASSUME NEW i \in DOMAIN t.symbols, c = CodeOf(i)
      PROVE  /\ c \in Nat /\ c \notin Byte /\ SymbolOf(t, c) = t.symbols[i]
             /\ t.symbols[i] \in Symbol /\ t.symbols[i] \in Range(t.symbols)
  <2>1. c \in Nat /\ ~ (c < CodeBase) /\ c - CodeBase + 1 = i
    BY <1>1, <1>2 DEF CodeOf
  <2>2. SymbolOf(t, c) = t.symbols[i]
    BY <2>1 DEF SymbolOf, isEscapeCode
  <2>3. c \notin Byte
    BY <2>1, <1>1, TableAssumption
  <2> QED
    BY <1>1, <2>1, <2>2, <2>3 DEF Range
<1>3. ASSUME c \in Byte PROVE c \in Nat /\ SymbolOf(t, c) = <<c>> /\ SymbolOf(t, c) \in Symbol
  <2>1. c \in Nat /\ c < CodeBase
    BY <1>1, <1>3, TableAssumption
  <2>2. SymbolOf(t, c) = <<c>>
    BY <2>1 DEF SymbolOf, isEscapeCode
  <2>3. <<c>> \in [1 .. 1 -> Byte] /\ 1 \in 1 .. MaxLength
    BY <1>1, <1>3
  <2> QED
    BY <2>1, <2>2, <2>3 DEF Symbol
<1> QED
  BY <1>2, <1>3 DEF ValidCode

(* findLongestSymbol returns such a code.                                  *)
LEMMA FoundValid ==
  ASSUME NEW t, Agrees(t), NEW s \in Symbol
  PROVE  ValidCode(t, FindLongestSymbol(t, s))
<1>1. BucketOf(s) \in Bucket /\ s[1] \in Byte /\ (Len(s) >= 2 => First2(s) \in Byte \X Byte)
  <2>1. Len(s) \in 1 .. MaxLength /\ MaxLength \in Nat
    BY SymbolIsSeq, TableAssumption
  <2>2. 1 \in 1 .. Len(s)
    BY <2>1
  <2> QED
    BY <2>2, BucketType, SymbolIsSeq, ShortSymbols
<1>2. Owned(t)
  BY DEF Agrees
<1> DEFINE slot == t.hashTab[BucketOf(s)]
           e == t.shortCodes[First2(s)]
<1>3. slot # FreeSlot => ValidCode(t, slot.code)
  <2> SUFFICES ASSUME slot # FreeSlot PROVE ValidCode(t, slot.code)
    OBVIOUS
  <2>1. \E i \in DOMAIN t.symbols : slot = [str |-> t.symbols[i], code |-> CodeOf(i)]
    BY <1>1, <1>2 DEF Owned
  <2> HIDE DEF slot
  <2> QED
    BY <2>1 DEF ValidCode
<1>4. Len(s) >= 2 /\ ~ isEscapeCode(e.code) => ValidCode(t, e.code)
  <2> SUFFICES ASSUME Len(s) >= 2, ~ isEscapeCode(e.code) PROVE ValidCode(t, e.code)
    OBVIOUS
  <2> DEFINE p == First2(s)
  <2>1. p \in Byte \X Byte
    BY <1>1
  <2>2. e # ShortEntry(p)
    <3>0. p[1] \in Byte
      BY <2>1
    <3>1. \A b \in Byte : b < CodeBase
      BY TableAssumption
    <3>2. p[1] < CodeBase
      BY <3>0, <3>1
    <3> QED
      BY <3>2 DEF ShortEntry, isEscapeCode
  <2>3. \E i \in DOMAIN t.symbols : e = [code |-> CodeOf(i), len |-> 2]
    BY <1>2, <2>1, <2>2 DEF Owned
  <2> QED
    BY <2>3 DEF ValidCode
<1>5. ValidCode(t, t.byteCodes[s[1]])
  BY <1>1, <1>2 DEF Owned, ValidCode, ByteEntry
<1> QED
  BY <1>3, <1>4, <1>5 DEF FindLongestSymbol

--------------------------------------------------------------------------------
(* The code at a place of a line.                                          *)
Word(s, p) == SubSeq(s, p, Min({p + MaxLength - 1, Len(s)}))
CodeAt(t, s, p) == FindLongestSymbol(t, Word(s, p))
TextAt(t, s, p) == SymbolOf(t, CodeAt(t, s, p))

LEMMA CodeAtPlace ==
  ASSUME NEW t, Agrees(t), NEW s \in Seq(Byte), NEW p \in 1 .. Len(s)
  PROVE  LET n == Len(TextAt(t, s, p))
         IN  /\ ValidCode(t, CodeAt(t, s, p))
             /\ n \in Nat /\ n >= 1 /\ p + n <= Len(s) + 1
             /\ TextAt(t, s, p) = Part(s, p - 1, p - 1 + n)
<1> DEFINE to == Min({p + MaxLength - 1, Len(s)})
           w == Word(s, p)
           x == TextAt(t, s, p)
<1>0. MaxLength \in Nat /\ MaxLength >= 1 /\ p \in Nat /\ p >= 1 /\ p <= Len(s) /\ Len(s) \in Nat
  BY TableAssumption
<1>1. to \in Nat /\ p <= to /\ to <= Len(s) /\ to <= p + MaxLength - 1
  <2> DEFINE S == {p + MaxLength - 1, Len(s)}
  <2>1. S \in SUBSET Nat /\ S # {}
    BY <1>0
  <2>2. \E m \in S : \A k \in S : m <= k
    BY <2>1, LeastNat
  <2>3. to \in S /\ \A k \in S : to <= k
    <3> HIDE DEF S
    <3>1. Min(S) \in S /\ \A k \in S : Min(S) <= k
      BY <2>2 DEF Min
    <3> QED
      BY <3>1 DEF S
  <2> HIDE DEF to
  <2>4. (to = p + MaxLength - 1 \/ to = Len(s)) /\ to <= p + MaxLength - 1 /\ to <= Len(s)
    BY <2>3
  <2> QED
    BY <2>4, <1>0
<1>2. w = SubSeq(s, p, to)
  BY DEF Word
<1> HIDE DEF to, w
<1>3. w \in Seq(Byte) /\ Len(w) = to - p + 1 /\ \A i \in 1 .. to - p + 1 : w[i] = s[p + i - 1]
  BY <1>0, <1>1, <1>2
<1>4. w \in Symbol
  <2>1. to - p + 1 \in 1 .. MaxLength
    BY <1>0, <1>1
  <2>2. w \in [1 .. Len(w) -> Byte]
    BY <1>3
  <2> QED
    BY <1>3, <2>1, <2>2 DEF Symbol
<1>5. CodeAt(t, s, p) = FindLongestSymbol(t, w) /\ x = SymbolOf(t, FindLongestSymbol(t, w))
  BY Zenon DEF CodeAt, TextAt, w
<1>6. ValidCode(t, CodeAt(t, s, p))
  BY <1>4, <1>5, FoundValid
<1>7. x \in Symbol /\ IsPrefix(x, w)
  BY <1>4, <1>5, <1>6, AgreesLongest, CodeSymbol
<1> HIDE DEF x
<1>8. x \in Seq(Byte) /\ Len(x) \in 1 .. MaxLength
  BY <1>7, SymbolIsSeq
<1>9. Len(x) <= Len(w) /\ \A i \in 1 .. Len(x) : x[i] = w[i]
  BY <1>3, <1>7, <1>8, PrefixElements
<1>10. Len(x) \in Nat /\ Len(x) >= 1 /\ p + Len(x) <= Len(s) + 1
  BY <1>0, <1>1, <1>3, <1>8, <1>9
<1>11. x = Part(s, p - 1, p - 1 + Len(x))
  <2> DEFINE y == Part(s, p - 1, p - 1 + Len(x))
  <2>1. y \in Seq(Byte) /\ Len(y) = Len(x) /\ \A i \in 1 .. Len(x) : y[i] = s[p - 1 + i]
    <3>1. y = SubSeq(s, p, p - 1 + Len(x))
      BY <1>0 DEF Part
    <3> HIDE DEF y
    <3> QED
      BY <3>1, <1>0, <1>10
  <2> HIDE DEF y
  <2>2. \A i \in 1 .. Len(x) : x[i] = y[i]
    BY <2>1, <1>0, <1>1, <1>3, <1>9, <1>10
  <2>3. x = y
    BY <1>8, <2>1, <2>2, SameElements
  <2> QED
    BY <2>3 DEF y
<1> QED
  BY <1>6, <1>10, <1>11 DEF x

(* The codes from a place on, with f for those further on.                 *)
CodesStep(t, s, f, p) ==
  IF p > Len(s) THEN <<>> ELSE <<CodeAt(t, s, p)>> \o f[p + Len(TextAt(t, s, p))]

CodesFrom(t, s) ==
  CHOOSE f : f = [p \in 1 .. Len(s) + 1 |->
                    IF p > Len(s) THEN <<>>
                    ELSE <<CodeAt(t, s, p)>> \o f[p + Len(TextAt(t, s, p))]]

(* The recursive function of Codes.                                        *)
LEMMA CodesIsFrom ==
  ASSUME NEW t, NEW s
  PROVE  Codes(t, s) = CodesFrom(t, s)[1]
BY Zenon DEF Codes, CodesFrom, CodeAt, TextAt, Word

(* It exists.                                                              *)
LEMMA CodesExist ==
  ASSUME NEW t, Agrees(t), NEW s \in Seq(Byte)
  PROVE  \A p \in 1 .. Len(s) + 1 : CodesFrom(t, s)[p] = CodesStep(t, s, CodesFrom(t, s), p)
<1> DEFINE n == Len(s)
           D == 1 .. n + 1
           Step(f, p) == CodesStep(t, s, f, p)
           T == {m \in Nat : \E f : f = [p \in D |-> f[p]] /\
                               \A p \in D : p > n + 1 - m => f[p] = Step(f, p)}
<1>0. n \in Nat
  OBVIOUS
<1>1. 0 \in T
  <2> DEFINE f == [p \in D |-> 0]
  <2>1. f = [p \in D |-> f[p]] /\ \A p \in D : ~ (p > n + 1 - 0)
    BY <1>0
  <2> HIDE DEF f, Step
  <2> QED
    BY <2>1
<1>2. ASSUME NEW m \in Nat, m \in T PROVE m + 1 \in T
  <2>1. PICK f : f = [p \in D |-> f[p]] /\ \A p \in D : p > n + 1 - m => f[p] = Step(f, p)
    BY <1>2
  <2> DEFINE g == [p \in D |-> Step(f, p)]
  <2>2. \A p \in D : g[p] = Step(f, p)
    BY Zenon
  <2>3. \A p \in D : p > n + 1 - m => g[p] = f[p]
    <3> HIDE DEF Step, g
    <3> QED
      BY <2>1, <2>2
  <2>4. g = [p \in D |-> g[p]]
    OBVIOUS
  <2> HIDE DEF g
  <2>5. ASSUME NEW p \in D, p > n + 1 - (m + 1) PROVE g[p] = Step(g, p)
    <3>1. CASE p > n
      <4>1. Step(g, p) = Step(f, p)
        BY <3>1 DEF CodesStep
      <4> QED
        BY <4>1, <2>2
    <3>2. CASE ~ (p > n)
      <4> DEFINE k == Len(TextAt(t, s, p))
      <4>0. p \in 1 .. Len(s)
        BY <3>2, <1>0
      <4>1. k \in Nat /\ k >= 1 /\ p + k <= n + 1
        BY <4>0, CodeAtPlace
      <4> HIDE DEF k
      <4>2. p + k \in D /\ p + k > n + 1 - m
        BY <2>5, <4>1, <1>0
      <4>3. g[p + k] = f[p + k]
        BY <4>2, <2>3
      <4>4. Step(g, p) = Step(f, p)
        BY <4>3, Zenon DEF CodesStep, k
      <4> QED
        BY <4>4, <2>2
    <3> QED
      BY <3>1, <3>2
  <2> HIDE DEF Step, D
  <2>6. \E h : h = [p \in D |-> h[p]] /\ \A p \in D : p > n + 1 - (m + 1) => h[p] = Step(h, p)
    BY <2>4, <2>5, Zenon
  <2>7. m + 1 \in Nat
    OBVIOUS
  <2> QED
    BY <2>6, <2>7, Zenon
<1>3. n + 1 \in T
  <2> HIDE DEF T
  <2>1. n + 1 \in Nat
    BY <1>0
  <2> QED
    BY <1>1, <1>2, <2>1, SetInduction
<1>4. PICK f : f = [p \in D |-> f[p]] /\ \A p \in D : p > n + 1 - (n + 1) => f[p] = Step(f, p)
  BY <1>3
<1>5. f = [p \in D |-> Step(f, p)]
  <2> DEFINE g == [p \in D |-> Step(f, p)]
  <2>1. g = [p \in D |-> g[p]] /\ \A p \in D : g[p] = Step(f, p)
    BY Zenon
  <2> HIDE DEF g, Step
  <2>2. \A p \in D : p > n + 1 - (n + 1)
    BY <1>0
  <2>3. \A p \in D : f[p] = g[p]
    BY <1>4, <2>1, <2>2
  <2>4. f = [p \in D |-> f[p]]
    BY <1>4
  <2>5. f = g
    BY <2>1, <2>3, <2>4
  <2> QED
    BY <2>5 DEF g
<1>6. CodesFrom(t, s) = [p \in D |-> Step(CodesFrom(t, s), p)]
  BY <1>5, Zenon DEF CodesFrom, CodesStep
<1> HIDE DEF Step
<1>7. \A p \in D : CodesFrom(t, s)[p] = Step(CodesFrom(t, s), p)
  BY <1>6, Zenon
<1> QED
  BY <1>7 DEF Step

(* A code stands for the bytes from a to b.                                *)
CodeThere(t, s, c, a, b) ==
  /\ ValidCode(t, c)
  /\ Len(SymbolOf(t, c)) \in Nat /\ Len(SymbolOf(t, c)) >= 1
  /\ a \in Nat /\ a >= 1 /\ b \in Nat /\ b = a + Len(SymbolOf(t, c)) /\ b <= Len(s) + 1
  /\ SymbolOf(t, c) = Part(s, a - 1, b - 1)

(* The codes cs stand for the bytes of s from p on, each for those from    *)
(* its place in pos to the next.                                           *)
Parse(t, s, p, cs, pos) ==
  /\ cs \in Seq(Nat)
  /\ pos[1] = p /\ pos[Len(cs) + 1] = Len(s) + 1
  /\ \A k \in 1 .. Len(cs) : CodeThere(t, s, cs[k], pos[k], pos[k + 1])

(* One code more.                                                          *)
LEMMA ParseMore ==
  ASSUME NEW t, Agrees(t), NEW s \in Seq(Byte), NEW p \in 1 .. Len(s), NEW cs, NEW pos,
         Parse(t, s, p + Len(TextAt(t, s, p)), cs, pos)
  PROVE  \E at : Parse(t, s, p, <<CodeAt(t, s, p)>> \o cs, at)
<1> DEFINE c == CodeAt(t, s, p)
           n == Len(TextAt(t, s, p))
           all == <<c>> \o cs
           at == [k \in 1 .. Len(cs) + 2 |-> IF k = 1 THEN p ELSE pos[k - 1]]
<1>1. /\ ValidCode(t, c) /\ n \in Nat /\ n >= 1 /\ p + n <= Len(s) + 1 /\ p \in Nat /\ p >= 1
      /\ SymbolOf(t, c) = Part(s, p - 1, p - 1 + n) /\ n = Len(SymbolOf(t, c))
  BY CodeAtPlace DEF TextAt
<1>2. c \in Nat
  BY <1>1, CodeSymbol
<1>3. cs \in Seq(Nat) /\ pos[1] = p + n /\ pos[Len(cs) + 1] = Len(s) + 1
  BY DEF Parse
<1>4. \A k \in 1 .. Len(cs) : CodeThere(t, s, cs[k], pos[k], pos[k + 1])
  BY DEF Parse
<1> HIDE DEF c, n
<1>5. /\ all \in Seq(Nat) /\ Len(all) = Len(cs) + 1 /\ all[1] = c /\ Len(cs) \in Nat
      /\ \A k \in 1 .. Len(cs) : all[k + 1] = cs[k]
  BY <1>2, <1>3
<1>6. at[1] = p /\ \A k \in 1 .. Len(cs) + 1 : at[k + 1] = pos[k]
  BY <1>5
<1> HIDE DEF all, at
<1>7. at[2] = p + n /\ at[Len(all) + 1] = Len(s) + 1
  BY <1>3, <1>5, <1>6
<1>8. CodeThere(t, s, all[1], at[1], at[2])
  <2>1. p + n - 1 = p - 1 + n /\ p + n \in Nat
    BY <1>1
  <2>2. n \in Nat /\ n >= 1
    BY <1>1
  <2>3. CodeThere(t, s, c, p, p + n)
    BY <1>1, <2>1, <2>2 DEF CodeThere
  <2> QED
    BY <2>3, <1>5, <1>6, <1>7
<1>9. ASSUME NEW k \in 1 .. Len(all) PROVE CodeThere(t, s, all[k], at[k], at[k + 1])
  <2>1. CASE k = 1
    BY <2>1, <1>8
  <2>2. CASE k # 1
    <3> DEFINE j == k - 1
    <3>1. j \in 1 .. Len(cs) /\ j + 1 = k /\ j \in 1 .. Len(cs) + 1 /\ j + 1 \in 1 .. Len(cs) + 1
      BY <2>2, <1>5
    <3> HIDE DEF j
    <3>2. all[k] = cs[j] /\ at[k] = pos[j] /\ at[k + 1] = pos[j + 1]
      BY <3>1, <1>5, <1>6
    <3> QED
      BY <3>1, <3>2, <1>4
  <2> QED
    BY <2>1, <2>2
<1>10. Parse(t, s, p, all, at)
  BY <1>5, <1>6, <1>7, <1>9 DEF Parse
<1> QED
  BY <1>10 DEF all, c

(* compressCount takes the lines apart.                                    *)
LEMMA CodesParse ==
  ASSUME NEW t, Agrees(t), NEW s \in Seq(Byte)
  PROVE  \E pos : Parse(t, s, 1, Codes(t, s), pos)
<1> DEFINE n == Len(s)
           F == CodesFrom(t, s)
           T == {m \in Nat : \A p \in 1 .. n + 1 : n + 1 - p <= m =>
                   \E pos : Parse(t, s, p, F[p], pos)}
<1>0. n \in Nat
  OBVIOUS
<1>1. \A p \in 1 .. n + 1 : F[p] = CodesStep(t, s, F, p)
  BY CodesExist
<1> HIDE DEF F
<1>2. \E pos : Parse(t, s, n + 1, F[n + 1], pos)
  <2>1. n + 1 \in 1 .. n + 1 /\ n + 1 > n
    BY <1>0
  <2>2. F[n + 1] = <<>>
    BY <2>1, <1>1 DEF CodesStep
  <2> DEFINE pos == [k \in 1 .. 1 |-> n + 1]
  <2>3. <<>> \in Seq(Nat) /\ Len(<<>>) = 0 /\ pos[1] = n + 1
    OBVIOUS
  <2> HIDE DEF pos
  <2>4. Parse(t, s, n + 1, <<>>, pos)
    BY <2>3 DEF Parse
  <2> QED
    BY <2>2, <2>4
<1>3. 0 \in T
  <2>1. \A p \in 1 .. n + 1 : n + 1 - p <= 0 => p = n + 1
    BY <1>0
  <2> QED
    BY <2>1, <1>2
<1>4. ASSUME NEW m \in Nat, m \in T PROVE m + 1 \in T
  <2>1. ASSUME NEW p \in 1 .. n + 1, n + 1 - p <= m + 1 PROVE \E pos : Parse(t, s, p, F[p], pos)
    <3>1. CASE p = n + 1
      BY <3>1, <1>2
    <3>2. CASE p # n + 1
      <4> DEFINE k == Len(TextAt(t, s, p))
      <4>1. p \in 1 .. Len(s) /\ ~ (p > Len(s))
        BY <3>2, <1>0
      <4>2. k \in Nat /\ k >= 1 /\ p + k <= n + 1
        BY <4>1, CodeAtPlace
      <4>3. F[p] = <<CodeAt(t, s, p)>> \o F[p + k]
        BY <4>1, <1>1 DEF CodesStep
      <4> HIDE DEF k
      <4>4. p + k \in 1 .. n + 1 /\ n + 1 - (p + k) <= m
        BY <4>1, <4>2, <2>1, <1>0
      <4>5. PICK pos : Parse(t, s, p + k, F[p + k], pos)
        BY <4>4, <1>4
      <4>6. \E at : Parse(t, s, p, <<CodeAt(t, s, p)>> \o F[p + k], at)
        BY <4>1, <4>5, ParseMore DEF k
      <4> QED
        BY <4>3, <4>6
    <3> QED
      BY <3>1, <3>2
  <2>2. m + 1 \in Nat
    OBVIOUS
  <2> QED
    BY <2>1, <2>2
<1>5. n \in T
  <2> HIDE DEF T
  <2> QED
    BY <1>0, <1>3, <1>4, SetInduction
<1>6. 1 \in 1 .. n + 1 /\ n + 1 - 1 <= n
  BY <1>0
<1>7. \E pos : Parse(t, s, 1, F[1], pos)
  BY <1>5, <1>6
<1> QED
  BY <1>7, CodesIsFrom DEF F

(* The places only go up.                                                  *)
LEMMA ParseOrder ==
  ASSUME NEW t, NEW s, NEW p, NEW cs, NEW pos, Parse(t, s, p, cs, pos)
  PROVE  \A i, k \in 1 .. Len(cs) : i < k => pos[i + 1] <= pos[k]
<1>0. Len(cs) \in Nat
  BY DEF Parse
<1> SUFFICES ASSUME NEW i \in 1 .. Len(cs)
             PROVE  \A k \in 1 .. Len(cs) : i < k => pos[i + 1] <= pos[k]
  OBVIOUS
<1> DEFINE T == {m \in Nat : i + 1 + m <= Len(cs) => pos[i + 1] <= pos[i + 1 + m]}
<1>1. \A k \in 1 .. Len(cs) : pos[k] \in Nat /\ pos[k + 1] \in Nat /\ pos[k] < pos[k + 1]
  <2> TAKE k \in 1 .. Len(cs)
  <2>1. CodeThere(t, s, cs[k], pos[k], pos[k + 1])
    BY DEF Parse
  <2> QED
    BY <2>1 DEF CodeThere
<1>2. 0 \in T
  <2>1. pos[i + 1] <= pos[i + 1 + 0]
    BY <1>1
  <2> QED
    BY <2>1
<1>3. ASSUME NEW m \in Nat, m \in T PROVE m + 1 \in T
  <2>1. ASSUME i + 1 + (m + 1) <= Len(cs) PROVE pos[i + 1] <= pos[i + 1 + (m + 1)]
    <3> DEFINE k == i + 1 + m
    <3>1. k \in 1 .. Len(cs) /\ k <= Len(cs) /\ i + 1 + (m + 1) = k + 1
      BY <2>1, <1>0
    <3>2. pos[i + 1] <= pos[k]
      BY <3>1, <1>3
    <3> HIDE DEF k
    <3>3. pos[k] \in Nat /\ pos[k + 1] \in Nat /\ pos[k] < pos[k + 1] /\ pos[i + 1] \in Nat
      BY <3>1, <1>1
    <3> QED
      BY <3>1, <3>2, <3>3
  <2> QED
    BY <2>1
<1>4. \A m \in Nat : m \in T
  <2> HIDE DEF T
  <2> QED
    BY <1>2, <1>3, SetInduction
<1>5. ASSUME NEW k \in 1 .. Len(cs), i < k PROVE pos[i + 1] <= pos[k]
  <2> DEFINE m == k - i - 1
  <2>1. m \in Nat /\ i + 1 + m = k
    BY <1>5, <1>0
  <2> HIDE DEF m
  <2>2. i + 1 + m <= Len(cs) => pos[i + 1] <= pos[i + 1 + m]
    BY <2>1, <1>4
  <2> QED
    BY <2>1, <2>2, <1>0
<1> QED
  BY <1>5

--------------------------------------------------------------------------------
(* The bytes of a sample, counted one by one.                              *)
Upto(strings, n) == UNION { {i} \X DOMAIN strings[i] : i \in 1 .. n }

LEMMA PlacesCount ==
  ASSUME NEW strings \in Seq(Seq(Byte))
  PROVE  IsFiniteSet(Places(strings)) /\ Cardinality(Places(strings)) = Bytes(strings)
<1> DEFINE f == Lengths(strings)
           S(n) == Upto(strings, n)
           T == {n \in Nat : n <= Len(strings) =>
                   /\ IsFiniteSet(S(n))
                   /\ Cardinality(S(n)) = SumFunctionOnSet(f, 1 .. n)}
<1>1. /\ DOMAIN strings = 1 .. Len(strings) /\ Len(strings) \in Nat
      /\ \A i \in DOMAIN strings : f[i] = Len(strings[i]) /\ f[i] \in Nat
      /\ Bytes(strings) = SumFunctionOnSet(f, DOMAIN strings)
  BY LengthsType
<1> HIDE DEF f
<1>2. Places(strings) = S(Len(strings))
  BY <1>1 DEF Places, Upto
<1>3. 0 \in T
  <2>1. 1 .. 0 = {}
    OBVIOUS
  <2>2. S(0) = {}
    BY <2>1 DEF Upto
  <2>3. SumFunctionOnSet(f, {}) = 0
    BY SumOfNone
  <2> QED
    BY <2>1, <2>2, <2>3, FS_EmptySet
<1>4. ASSUME NEW n \in Nat, n \in T PROVE n + 1 \in T
  <2>1. ASSUME n + 1 <= Len(strings)
        PROVE  /\ IsFiniteSet(S(n + 1))
               /\ Cardinality(S(n + 1)) = SumFunctionOnSet(f, 1 .. n + 1)
    <3> DEFINE A == S(n)
               B == {n + 1} \X DOMAIN strings[n + 1]
               len == Len(strings[n + 1])
    <3>1. /\ n + 1 \in DOMAIN strings /\ strings[n + 1] \in Seq(Byte)
          /\ f[n + 1] = len /\ len \in Nat /\ DOMAIN strings[n + 1] = 1 .. len
      <4>1. n + 1 \in DOMAIN strings
        BY <2>1, <1>1
      <4>2. strings[n + 1] \in Seq(Byte)
        BY <4>1, <1>1, ElementType
      <4>3. f[n + 1] = len
        BY <4>1, <1>1
      <4>4. len \in Nat /\ DOMAIN strings[n + 1] = 1 .. len
        BY <4>2
      <4> QED
        BY <4>1, <4>2, <4>3, <4>4
    <3> HIDE DEF len
    <3>2. S(n + 1) = A \cup B
      <4>1. 1 .. n + 1 = (1 .. n) \cup {n + 1}
        OBVIOUS
      <4> QED
        BY <4>1 DEF Upto
    <3>3. A \cap B = {}
      <4>1. \A x \in A : \E i \in 1 .. n : x \in {i} \X DOMAIN strings[i]
        BY DEF Upto
      <4>2. n + 1 \notin 1 .. n
        OBVIOUS
      <4> QED
        BY <4>1, <4>2
    <3>4. IsFiniteSet(A) /\ Cardinality(A) = SumFunctionOnSet(f, 1 .. n)
      BY <1>4, <2>1, <1>1
    <3>5. IsFiniteSet(B) /\ Cardinality(B) = len
      <4>0. len \in Int /\ 1 \in Int /\ len \in Nat
        BY <3>1
      <4>1. IsFiniteSet(1 .. len) /\ Cardinality(1 .. len) = len
        BY <4>0, FS_Interval
      <4>2. IsFiniteSet({n + 1}) /\ Cardinality({n + 1}) = 1
        BY FS_Singleton
      <4>3. /\ IsFiniteSet({n + 1} \X (1 .. len))
            /\ Cardinality({n + 1} \X (1 .. len)) = Cardinality({n + 1}) * Cardinality(1 .. len)
        BY <4>1, <4>2, FS_Product
      <4>4. Cardinality({n + 1} \X (1 .. len)) = len
        BY <3>1, <4>1, <4>2, <4>3
      <4> QED
        BY <3>1, <4>3, <4>4
    <3> HIDE DEF A, B, len
    <3>6. IsFiniteSet(A \cup B) /\ Cardinality(A \cup B) = Cardinality(A) + len
      <4>1. /\ IsFiniteSet(A \cup B)
            /\ Cardinality(A \cup B) = Cardinality(A) + Cardinality(B) - Cardinality(A \cap B)
        BY <3>4, <3>5, FS_Union
      <4>2. Cardinality(A \cap B) = 0 /\ Cardinality(A) \in Nat
        BY <3>3, <3>4, FS_EmptySet, FS_CardinalityType
      <4> QED
        BY <4>1, <4>2, <3>1, <3>5
    <3>7. SumFunctionOnSet(f, 1 .. n + 1) = f[n + 1] + SumFunctionOnSet(f, 1 .. n)
      <4>0. \A i \in 1 .. n + 1 : i \in 1 .. Len(strings)
        BY <1>1, <2>1
      <4>1. \A i \in 1 .. n + 1 : f[i] \in Int
        BY <4>0, <1>1
      <4> QED
        BY <4>1, SumNext
    <3>8. Cardinality(A) \in Nat
      BY <3>4, FS_CardinalityType
    <3>9. Cardinality(A \cup B) = SumFunctionOnSet(f, 1 .. n + 1)
      <4> DEFINE a == Cardinality(A)
                 k == Cardinality(A \cup B)
                 r == SumFunctionOnSet(f, 1 .. n)
                 q == SumFunctionOnSet(f, 1 .. n + 1)
      <4>1. a \in Nat /\ a = r /\ k = a + len /\ q = f[n + 1] + r /\ f[n + 1] = len /\ len \in Nat
        BY <3>1, <3>4, <3>6, <3>7, <3>8
      <4> HIDE DEF a, k, r, q
      <4>2. k = q
        BY <4>1
      <4> QED
        BY <4>2 DEF k, q
    <3> QED
      BY <3>2, <3>6, <3>9, Zenon
  <2>2. n + 1 \in Nat
    OBVIOUS
  <2> HIDE DEF S
  <2> QED
    BY <2>1, <2>2
<1>5. Len(strings) \in T
  <2> HIDE DEF T
  <2> QED
    BY <1>1, <1>3, <1>4, SetInduction
<1> QED
  BY <1>1, <1>2, <1>5

--------------------------------------------------------------------------------
(* Counts.                                                                 *)

(* How often something is counted.                                         *)
Times(f, y) == Cardinality({x \in DOMAIN f : f[x] = y})

(* Counts of at most so many events as a sample has bytes.                 *)
TalliedBy(c, f) ==
  /\ IsFiniteSet(DOMAIN f) /\ Cardinality(DOMAIN f) <= MostBytes
  /\ c = BagOf(f)

Tallied(c) == \E f : TalliedBy(c, f)

(* Two kinds of events.                                                    *)
Both(f, g) ==
  [e \in ({1} \X DOMAIN f) \cup ({2} \X DOMAIN g) |-> IF e[1] = 1 THEN f[e[2]] ELSE g[e[2]]]

LEMMA TimesType ==
  ASSUME NEW f, IsFiniteSet(DOMAIN f), NEW y
  PROVE  Times(f, y) \in Nat /\ (y \notin Range(f) => Times(f, y) = 0)
<1> DEFINE S == {x \in DOMAIN f : f[x] = y}
<1>1. IsFiniteSet(S)
  BY FS_Subset
<1>2. Cardinality(S) \in Nat
  BY <1>1, FS_CardinalityType
<1>3. y \notin Range(f) => S = {}
  BY DEF Range
<1> QED
  BY <1>2, <1>3, FS_EmptySet DEF Times

(* A copy of a finite set.                                                 *)
LEMMA CopyOf ==
  ASSUME NEW S, IsFiniteSet(S), NEW tag
  PROVE  IsFiniteSet({tag} \X S) /\ Cardinality({tag} \X S) = Cardinality(S)
<1>1. IsFiniteSet({tag}) /\ Cardinality({tag}) = 1
  BY FS_Singleton
<1>2. IsFiniteSet({tag} \X S) /\ Cardinality({tag} \X S) = Cardinality({tag}) * Cardinality(S)
  BY <1>1, FS_Product
<1>3. Cardinality(S) \in Nat
  BY FS_CardinalityType
<1> QED
  BY <1>1, <1>2, <1>3

LEMMA BothTimes ==
  ASSUME NEW f, NEW g, IsFiniteSet(DOMAIN f), IsFiniteSet(DOMAIN g), NEW y
  PROVE  Times(Both(f, g), y) = Times(f, y) + Times(g, y)
<1> DEFINE F == {x \in DOMAIN f : f[x] = y}
           G == {x \in DOMAIN g : g[x] = y}
           A == {1} \X F
           B == {2} \X G
<1>1. {e \in DOMAIN Both(f, g) : Both(f, g)[e] = y} = A \cup B
  BY DEF Both
<1>2. A \cap B = {}
  OBVIOUS
<1>3. IsFiniteSet(F) /\ IsFiniteSet(G)
  BY FS_Subset
<1> HIDE DEF F, G
<1>4. /\ IsFiniteSet(A) /\ Cardinality(A) = Cardinality(F)
      /\ IsFiniteSet(B) /\ Cardinality(B) = Cardinality(G)
  BY <1>3, CopyOf
<1>5. Cardinality(F) \in Nat /\ Cardinality(G) \in Nat
  BY <1>3, FS_CardinalityType
<1> HIDE DEF A, B
<1>6. Cardinality(A \cup B) = Cardinality(A) + Cardinality(B) - Cardinality(A \cap B)
  BY <1>4, FS_Union
<1>7. Cardinality(A \cup B) = Cardinality(F) + Cardinality(G)
  <2>1. Cardinality(A \cap B) = 0
    BY <1>2, FS_EmptySet
  <2> QED
    BY <2>1, <1>4, <1>5, <1>6
<1> QED
  BY <1>1, <1>7, Zenon DEF Times, F, G

LEMMA BothBags ==
  ASSUME NEW f, NEW g, IsFiniteSet(DOMAIN f), IsFiniteSet(DOMAIN g)
  PROVE  BagOf(f) (+) BagOf(g) = BagOf(Both(f, g))
<1> DEFINE h == Both(f, g)
           b == BagOf(f)
           c == BagOf(g)
<1>1. /\ DOMAIN b = Range(f) /\ DOMAIN c = Range(g)
      /\ \A y \in Range(f) : b[y] = Times(f, y)
      /\ \A y \in Range(g) : c[y] = Times(g, y)
  BY DEF BagOf, Times
<1>2. BagOf(h) = [y \in Range(h) |-> Times(h, y)]
  BY DEF BagOf, Times
<1>3. Range(h) = Range(f) \cup Range(g)
  <2>1. DOMAIN h = ({1} \X DOMAIN f) \cup ({2} \X DOMAIN g)
    BY DEF Both
  <2>2. \A x \in DOMAIN f : <<1, x>> \in DOMAIN h /\ h[<<1, x>>] = f[x]
    BY DEF Both
  <2>3. \A x \in DOMAIN g : <<2, x>> \in DOMAIN h /\ h[<<2, x>>] = g[x]
    BY DEF Both
  <2>4. \A e \in DOMAIN h : (\E x \in DOMAIN f : h[e] = f[x]) \/ (\E x \in DOMAIN g : h[e] = g[x])
    BY <2>1, <2>2, <2>3
  <2> HIDE DEF h
  <2>5. \A y : y \in Range(h) <=> \E e \in DOMAIN h : y = h[e]
    BY DEF Range
  <2>6. \A y : y \in Range(f) <=> \E x \in DOMAIN f : y = f[x]
    BY DEF Range
  <2>7. \A y : y \in Range(g) <=> \E x \in DOMAIN g : y = g[x]
    BY DEF Range
  <2>8. ASSUME NEW y PROVE y \in Range(h) <=> y \in Range(f) \/ y \in Range(g)
    <3>1. ASSUME y \in Range(h) PROVE y \in Range(f) \/ y \in Range(g)
      <4>1. PICK e \in DOMAIN h : y = h[e]
        BY <3>1, <2>5, Zenon
      <4>2. (\E x \in DOMAIN f : h[e] = f[x]) \/ (\E x \in DOMAIN g : h[e] = g[x])
        BY <2>4
      <4>3. (\E x \in DOMAIN f : y = f[x]) \/ (\E x \in DOMAIN g : y = g[x])
        BY <4>1, <4>2, Zenon
      <4> QED
        BY <4>3, <2>6, <2>7, Zenon
    <3>2. ASSUME y \in Range(f) PROVE y \in Range(h)
      <4>1. PICK x \in DOMAIN f : y = f[x]
        BY <3>2, <2>6, Zenon
      <4>2. <<1, x>> \in DOMAIN h /\ y = h[<<1, x>>]
        BY <4>1, <2>2, Zenon
      <4> QED
        BY <4>2, <2>5, Zenon
    <3>3. ASSUME y \in Range(g) PROVE y \in Range(h)
      <4>1. PICK x \in DOMAIN g : y = g[x]
        BY <3>3, <2>7, Zenon
      <4>2. <<2, x>> \in DOMAIN h /\ y = h[<<2, x>>]
        BY <4>1, <2>3, Zenon
      <4> QED
        BY <4>2, <2>5, Zenon
    <3> QED
      BY <3>1, <3>2, <3>3
  <2> QED
    BY <2>8
<1>4. \A y : Times(h, y) = Times(f, y) + Times(g, y)
  BY BothTimes
<1>5. \A y : /\ Times(f, y) \in Nat /\ (y \notin Range(f) => Times(f, y) = 0)
             /\ Times(g, y) \in Nat /\ (y \notin Range(g) => Times(g, y) = 0)
  BY TimesType
<1> HIDE DEF h, b, c
<1>6. \A y \in Range(f) \cup Range(g) :
        (IF y \in DOMAIN b THEN b[y] ELSE 0) + (IF y \in DOMAIN c THEN c[y] ELSE 0) = Times(h, y)
  BY <1>1, <1>4, <1>5
<1>7. b (+) c = [y \in Range(f) \cup Range(g) |-> Times(h, y)]
  BY <1>1, <1>6 DEF (+)
<1> QED
  BY <1>2, <1>3, <1>7 DEF b, c, h

(* Two kinds of events that can be told apart by a place each.             *)
LEMMA TallyBoth ==
  ASSUME NEW f, NEW g, NEW P, IsFiniteSet(P), Cardinality(P) <= MostBytes,
         NEW u \in [DOMAIN f -> P], NEW v \in [DOMAIN g -> P],
         \A x, y \in DOMAIN f : u[x] = u[y] => x = y,
         \A x, y \in DOMAIN g : v[x] = v[y] => x = y,
         \A x \in DOMAIN f, y \in DOMAIN g : u[x] # v[y]
  PROVE  Tallied(BagOf(f) (+) BagOf(g))
<1> DEFINE h == Both(f, g)
           w == [e \in DOMAIN h |-> IF e[1] = 1 THEN u[e[2]] ELSE v[e[2]]]
<1>1. DOMAIN h = ({1} \X DOMAIN f) \cup ({2} \X DOMAIN g)
  BY DEF Both
<1>2. w \in Injection(DOMAIN h, P)
  <2>1. w \in [DOMAIN h -> P]
    BY <1>1
  <2>2. \A d, e \in DOMAIN h : w[d] = w[e] => d = e
    BY <1>1
  <2> HIDE DEF w, h
  <2>3. IsInjective(w)
    BY <2>1, <2>2 DEF IsInjective
  <2> QED
    BY <2>1, <2>3 DEF Injection
<1>3. u \in Injection(DOMAIN f, P) /\ v \in Injection(DOMAIN g, P)
  BY DEF Injection, IsInjective
<1> HIDE DEF w, h
<1>4. IsFiniteSet(DOMAIN h) /\ Cardinality(DOMAIN h) <= Cardinality(P)
  BY <1>2, FS_Injection
<1>5. IsFiniteSet(DOMAIN f) /\ IsFiniteSet(DOMAIN g)
  BY <1>3, FS_Injection
<1>6. BagOf(f) (+) BagOf(g) = BagOf(h)
  BY <1>5, BothBags DEF h
<1>7. Cardinality(DOMAIN h) <= MostBytes
  <2>1. Cardinality(DOMAIN h) \in Nat /\ Cardinality(P) \in Nat /\ MostBytes \in Int
    BY <1>4, FS_CardinalityType, Sizes DEF MostBytes
  <2> QED
    BY <2>1, <1>4
<1> QED
  BY <1>4, <1>6, <1>7 DEF Tallied, TalliedBy

--------------------------------------------------------------------------------
(* Where the codes of the lines of a sample stand.                         *)
CodeIn(codes, x) == codes[x[1]][x[2]]
SizeIn(t, codes, x) == Len(SymbolOf(t, CodeIn(codes, x)))
NextPlace(x) == <<x[1], x[2] + 1>>

CodedLines(t, lines, codes) ==
  /\ lines \in Seq(Seq(Byte))
  /\ \A i \in DOMAIN codes : i \in DOMAIN lines /\ codes[i] = Codes(t, lines[i])

(* Every code of the lines has its place in a line, one after the other.   *)
StandsAt(t, lines, codes, at, x) ==
  /\ x[1] \in DOMAIN lines /\ x[2] \in Nat /\ x = <<x[1], x[2]>>
  /\ CodeThere(t, lines[x[1]], CodeIn(codes, x), at[x], at[x] + SizeIn(t, codes, x))

FollowedAt(t, codes, at, x) ==
  /\ NextPlace(x) \in Places(codes)
  /\ at[NextPlace(x)] = at[x] + SizeIn(t, codes, x)

LaidOut(t, lines, codes, at) ==
  /\ \A x \in Places(codes) : StandsAt(t, lines, codes, at, x)
  /\ \A x, y \in Places(codes) :
       x[1] = y[1] /\ x[2] < y[2] => at[x] + SizeIn(t, codes, x) <= at[y]
  /\ \A x \in Places(codes) : x[2] < Len(codes[x[1]]) => FollowedAt(t, codes, at, x)

LEMMA Layout ==
  ASSUME NEW t, Agrees(t), NEW lines, NEW codes, CodedLines(t, lines, codes)
  PROVE  \E at : LaidOut(t, lines, codes, at)
<1> DEFINE pos(i) == CHOOSE f : Parse(t, lines[i], 1, codes[i], f)
           at == [x \in Places(codes) |-> pos(x[1])[x[2]]]
<1>1. ASSUME NEW i \in DOMAIN codes
      PROVE  Parse(t, lines[i], 1, codes[i], pos(i)) /\ i \in DOMAIN lines
  <2>1. i \in DOMAIN lines /\ codes[i] = Codes(t, lines[i]) /\ lines \in Seq(Seq(Byte))
    BY DEF CodedLines
  <2>2. lines[i] \in Seq(Byte)
    BY <2>1, ElementType
  <2>3. \E f : Parse(t, lines[i], 1, codes[i], f)
    BY <2>1, <2>2, CodesParse
  <2> QED
    BY <2>1, <2>3
<1> HIDE DEF pos
<1>2. \A x \in Places(codes) : at[x] = pos(x[1])[x[2]]
  OBVIOUS
<1> HIDE DEF at
<1>3. \A x : x \in Places(codes) <=>
         /\ x = <<x[1], x[2]>> /\ x[1] \in DOMAIN codes /\ x[2] \in DOMAIN codes[x[1]]
  BY DEF Places
<1>4. \A i \in DOMAIN codes : codes[i] \in Seq(Nat) /\ DOMAIN codes[i] = 1 .. Len(codes[i])
                              /\ Len(codes[i]) \in Nat
  BY <1>1 DEF Parse
<1>5. ASSUME NEW x \in Places(codes)
      PROVE  /\ StandsAt(t, lines, codes, at, x)
             /\ pos(x[1])[x[2] + 1] = at[x] + SizeIn(t, codes, x)
  <2>1. x = <<x[1], x[2]>> /\ x[1] \in DOMAIN codes /\ x[2] \in 1 .. Len(codes[x[1]])
    BY <1>3, <1>4
  <2>2. CodeThere(t, lines[x[1]], CodeIn(codes, x), pos(x[1])[x[2]], pos(x[1])[x[2] + 1])
    BY <1>1, <2>1 DEF Parse, CodeIn
  <2>3. pos(x[1])[x[2] + 1] = at[x] + SizeIn(t, codes, x)
    BY <2>2, <1>2 DEF CodeThere, SizeIn
  <2>4. CodeThere(t, lines[x[1]], CodeIn(codes, x), at[x], at[x] + SizeIn(t, codes, x))
    BY <2>2, <2>3, <1>2, Zenon
  <2>5. x[2] \in Nat /\ x[1] \in DOMAIN lines
    BY <2>1, <1>1
  <2> QED
    BY <2>1, <2>3, <2>4, <2>5 DEF StandsAt
<1>6. ASSUME NEW x \in Places(codes), NEW y \in Places(codes), x[1] = y[1], x[2] < y[2]
      PROVE  at[x] + SizeIn(t, codes, x) <= at[y]
  <2>1. /\ x[1] \in DOMAIN codes /\ x[2] \in 1 .. Len(codes[x[1]])
        /\ y[2] \in 1 .. Len(codes[x[1]])
    BY <1>3, <1>4, <1>6
  <2>2. Parse(t, lines[x[1]], 1, codes[x[1]], pos(x[1]))
    BY <2>1, <1>1
  <2>3. pos(x[1])[x[2] + 1] <= pos(x[1])[y[2]]
    BY <2>1, <2>2, <1>6, ParseOrder
  <2>4. at[y] = pos(x[1])[y[2]]
    BY <1>2, <1>6
  <2> QED
    BY <2>3, <2>4, <1>5
<1>7. ASSUME NEW x \in Places(codes), x[2] < Len(codes[x[1]])
      PROVE  FollowedAt(t, codes, at, x)
  <2>1. x = <<x[1], x[2]>> /\ x[1] \in DOMAIN codes /\ x[2] \in 1 .. Len(codes[x[1]])
    BY <1>3, <1>4
  <2>2. x[2] + 1 \in 1 .. Len(codes[x[1]])
    BY <2>1, <1>7, <1>4
  <2>3. NextPlace(x) \in Places(codes)
    BY <2>1, <2>2, <1>3, <1>4 DEF NextPlace
  <2>4. at[NextPlace(x)] = pos(x[1])[x[2] + 1]
    BY <2>3, <1>2 DEF NextPlace
  <2> QED
    BY <2>3, <2>4, <1>5 DEF FollowedAt
<1>8. LaidOut(t, lines, codes, at)
  BY <1>5, <1>6, <1>7 DEF LaidOut
<1> QED
  BY <1>8

(* The places of the first and the second byte of what a code stands for.  *)
FirstPlace(at, x)  == <<x[1], at[x]>>
SecondPlace(at, x) == <<x[1], at[x] + 1>>

Apart(t, lines, codes, at, x, y) ==
  /\ FirstPlace(at, x) \in Places(lines)
  /\ SizeIn(t, codes, x) > 1 => SecondPlace(at, x) \in Places(lines)
  /\ FirstPlace(at, x) = FirstPlace(at, y) => x = y
  /\ SecondPlace(at, x) = SecondPlace(at, y) => x = y
  /\ SizeIn(t, codes, y) > 1 => FirstPlace(at, x) # SecondPlace(at, y)

LEMMA PlacesApart ==
  ASSUME NEW t, NEW lines \in Seq(Seq(Byte)), NEW codes, NEW at, LaidOut(t, lines, codes, at)
  PROVE  \A x, y \in Places(codes) : Apart(t, lines, codes, at, x, y)
<1> TAKE x \in Places(codes), y \in Places(codes)
<1> DEFINE m == SizeIn(t, codes, x)
           n == SizeIn(t, codes, y)
           a == at[x]
           b == at[y]
<1>1. /\ x[1] \in DOMAIN lines /\ x[2] \in Nat /\ x = <<x[1], x[2]>>
      /\ m \in Nat /\ m >= 1 /\ a \in Nat /\ a >= 1 /\ a + m <= Len(lines[x[1]]) + 1
  BY DEF LaidOut, StandsAt, CodeThere, SizeIn
<1>2. /\ y[2] \in Nat /\ y = <<y[1], y[2]>> /\ n \in Nat /\ n >= 1 /\ b \in Nat
  BY DEF LaidOut, StandsAt, CodeThere, SizeIn
<1>3. x[1] = y[1] /\ x[2] < y[2] => a + m <= b
  BY DEF LaidOut
<1>4. y[1] = x[1] /\ y[2] < x[2] => b + n <= a
  BY DEF LaidOut
<1>5. FirstPlace(at, x) = <<x[1], a>> /\ FirstPlace(at, y) = <<y[1], b>>
      /\ SecondPlace(at, x) = <<x[1], a + 1>> /\ SecondPlace(at, y) = <<y[1], b + 1>>
  BY DEF FirstPlace, SecondPlace
<1> HIDE DEF m, n, a, b
<1>6. x[1] = y[1] => x = y \/ x[2] < y[2] \/ y[2] < x[2]
  BY <1>1, <1>2
<1>7. (FirstPlace(at, x) = FirstPlace(at, y) => x = y)
      /\ (SecondPlace(at, x) = SecondPlace(at, y) => x = y)
  <2>1. x[1] = y[1] /\ a = b => x = y
    BY <1>1, <1>2, <1>3, <1>4, <1>6
  <2>2. a + 1 = b + 1 => a = b
    BY <1>1, <1>2
  <2> QED
    BY <2>1, <2>2, <1>5
<1>8. n > 1 => FirstPlace(at, x) # SecondPlace(at, y)
  <2>1. ASSUME n > 1, x[1] = y[1], a = b + 1 PROVE FALSE
    <3>1. x # y
      BY <2>1, <1>2 DEF a, b
    <3> QED
      BY <3>1, <2>1, <1>1, <1>2, <1>3, <1>4, <1>6
  <2> QED
    BY <2>1, <1>5
<1>9. /\ FirstPlace(at, x) \in Places(lines)
      /\ m > 1 => SecondPlace(at, x) \in Places(lines)
  <2>1. ASSUME NEW k \in Nat, k >= 1, k <= Len(lines[x[1]]) PROVE <<x[1], k>> \in Places(lines)
    <3>1. lines[x[1]] \in Seq(Byte)
      BY <1>1, ElementType
    <3>2. k \in DOMAIN lines[x[1]]
      BY <2>1, <3>1
    <3> QED
      BY <3>2, <1>1 DEF Places
  <2> QED
    BY <2>1, <1>1, <1>5
<1> QED
  BY <1>7, <1>8, <1>9 DEF m, n, Apart

--------------------------------------------------------------------------------
(* The counts of a round.                                                  *)

(* As many places as a sample has at most.                                 *)
SmallSample(lines) == lines \in Seq(Seq(Byte)) /\ Bytes(lines) <= MostBytes

LongerPlaces(t, codes) == {x \in Places(codes) : Longer(t, CodeIn(codes, x))}
PairPlaces(codes)      == {x \in Places(codes) : x[2] < Len(codes[x[1]])}
LongerPairs(t, codes)  == {x \in PairPlaces(codes) : Longer(t, CodeIn(codes, NextPlace(x)))}

SingleEvents(codes)    == [x \in Places(codes) |-> CodeIn(codes, x)]
FirstEvents(t, codes)  == [x \in LongerPlaces(t, codes) |-> FirstByte(t, CodeIn(codes, x))]
PairEvents(codes)      == [x \in PairPlaces(codes) |-> <<CodeIn(codes, x), CodeIn(codes, NextPlace(x))>>]
PairFirstEvents(t, codes) ==
  [x \in LongerPairs(t, codes) |-> <<CodeIn(codes, x), FirstByte(t, CodeIn(codes, NextPlace(x)))>>]

LEMMA CountsAre ==
  ASSUME NEW t, NEW codes
  PROVE  /\ Count1(t, codes) = BagOf(SingleEvents(codes)) (+) BagOf(FirstEvents(t, codes))
         /\ Count2(t, codes) = BagOf(PairEvents(codes)) (+) BagOf(PairFirstEvents(t, codes))
<1>1. Count1(t, codes) = BagOf(SingleEvents(codes)) (+) BagOf(FirstEvents(t, codes))
  BY Zenon DEF Count1, SingleEvents, FirstEvents, LongerPlaces, CodeIn
<1>2. \A x : CodeIn(codes, NextPlace(x)) = codes[x[1]][x[2] + 1]
  BY DEF CodeIn, NextPlace
<1>3. LongerPairs(t, codes) = {x \in PairPlaces(codes) : Longer(t, codes[x[1]][x[2] + 1])}
  BY <1>2 DEF LongerPairs
<1>4. PairEvents(codes) = [x \in PairPlaces(codes) |-> <<codes[x[1]][x[2]], codes[x[1]][x[2] + 1]>>]
  BY <1>2 DEF PairEvents, CodeIn
<1>5. PairFirstEvents(t, codes) =
        [x \in LongerPairs(t, codes) |-> <<codes[x[1]][x[2]], FirstByte(t, codes[x[1]][x[2] + 1])>>]
  BY <1>2 DEF PairFirstEvents, CodeIn
<1>6. Count2(t, codes) = BagOf(PairEvents(codes)) (+) BagOf(PairFirstEvents(t, codes))
  BY <1>3, <1>4, <1>5, Zenon DEF Count2, PairPlaces
<1> QED
  BY <1>1, <1>6

(* The codes that are counted number at most as many as the bytes.         *)
LEMMA SinglesTallied ==
  ASSUME NEW t, Agrees(t), NEW lines, SmallSample(lines), NEW codes, CodedLines(t, lines, codes)
  PROVE  /\ Tallied(Count1(t, codes))
         /\ IsFiniteSet(Places(codes)) /\ Cardinality(Places(codes)) <= MostBytes
<1>1. PICK at : LaidOut(t, lines, codes, at)
  BY Layout
<1> DEFINE P == Places(lines)
           f == SingleEvents(codes)
           g == FirstEvents(t, codes)
           u == [x \in DOMAIN f |-> FirstPlace(at, x)]
           v == [x \in DOMAIN g |-> SecondPlace(at, x)]
<1>2. IsFiniteSet(P) /\ Cardinality(P) <= MostBytes
  BY PlacesCount DEF SmallSample
<1>3. DOMAIN f = Places(codes)
  BY DEF SingleEvents
<1>4. /\ DOMAIN g = LongerPlaces(t, codes)
      /\ \A x \in DOMAIN g : x \in Places(codes) /\ SizeIn(t, codes, x) > 1
  BY DEF FirstEvents, LongerPlaces, Longer, SizeIn
<1>5. lines \in Seq(Seq(Byte))
  BY DEF SmallSample
<1>0. \A x, y \in Places(codes) : Apart(t, lines, codes, at, x, y)
  BY <1>1, <1>5, PlacesApart
<1> HIDE DEF f, g
<1>6. u \in [DOMAIN f -> P] /\ v \in [DOMAIN g -> P]
  <2>1. \A x \in DOMAIN f : FirstPlace(at, x) \in P
    BY <1>0, <1>3 DEF Apart
  <2>2. \A x \in DOMAIN g : SecondPlace(at, x) \in P
    BY <1>0, <1>4 DEF Apart
  <2> QED
    BY <2>1, <2>2
<1>7. /\ \A x \in DOMAIN f : u[x] = FirstPlace(at, x)
      /\ \A x \in DOMAIN g : v[x] = SecondPlace(at, x)
  OBVIOUS
<1> HIDE DEF u, v, P
<1>8. \A x, y \in DOMAIN f : u[x] = u[y] => x = y
  BY <1>0, <1>3, <1>7 DEF Apart
<1>9. \A x, y \in DOMAIN g : v[x] = v[y] => x = y
  BY <1>0, <1>4, <1>7 DEF Apart
<1>10. \A x \in DOMAIN f, y \in DOMAIN g : u[x] # v[y]
  BY <1>0, <1>3, <1>4, <1>7 DEF Apart
<1>11. Tallied(BagOf(f) (+) BagOf(g))
  BY <1>2, <1>6, <1>8, <1>9, <1>10, TallyBoth
<1>12. Tallied(Count1(t, codes))
  BY <1>11, CountsAre DEF f, g
<1>13. IsFiniteSet(Places(codes)) /\ Cardinality(Places(codes)) <= MostBytes
  <2>1. u \in Injection(DOMAIN f, P)
    BY <1>6, <1>8 DEF Injection, IsInjective
  <2>2. IsFiniteSet(DOMAIN f) /\ Cardinality(DOMAIN f) <= Cardinality(P)
    BY <2>1, <1>2, FS_Injection
  <2>3. Cardinality(DOMAIN f) \in Nat /\ Cardinality(P) \in Nat /\ MostBytes \in Int
    BY <2>2, <1>2, FS_CardinalityType, Sizes DEF MostBytes
  <2>4. Cardinality(DOMAIN f) <= MostBytes
    BY <2>2, <2>3, <1>2
  <2> QED
    BY <2>2, <2>4, <1>3
<1> QED
  BY <1>12, <1>13

(* And so do the pairs.                                                    *)
LEMMA PairsTallied ==
  ASSUME NEW t, Agrees(t), NEW lines, SmallSample(lines), NEW codes, CodedLines(t, lines, codes)
  PROVE  Tallied(Count2(t, codes))
<1>1. PICK at : LaidOut(t, lines, codes, at)
  BY Layout
<1> DEFINE P == Places(lines)
           f == PairEvents(codes)
           g == PairFirstEvents(t, codes)
           u == [x \in DOMAIN f |-> FirstPlace(at, NextPlace(x))]
           v == [x \in DOMAIN g |-> SecondPlace(at, NextPlace(x))]
<1>2. IsFiniteSet(P) /\ Cardinality(P) <= MostBytes
  BY PlacesCount DEF SmallSample
<1>3. \A x \in PairPlaces(codes) :
        x \in Places(codes) /\ x = <<x[1], x[2]>> /\ x[2] \in Nat /\ NextPlace(x) \in Places(codes)
  BY <1>1 DEF PairPlaces, LaidOut, FollowedAt, StandsAt
<1>4. \A x, y \in PairPlaces(codes) : NextPlace(x) = NextPlace(y) => x = y
  <2>1. \A a, b \in Nat : a + 1 = b + 1 => a = b
    OBVIOUS
  <2> QED
    BY <2>1, <1>3 DEF NextPlace
<1>5. /\ DOMAIN f = PairPlaces(codes)
      /\ \A x \in DOMAIN g : x \in PairPlaces(codes) /\ SizeIn(t, codes, NextPlace(x)) > 1
  BY DEF PairEvents, PairFirstEvents, LongerPairs, Longer, SizeIn
<1>6. lines \in Seq(Seq(Byte))
  BY DEF SmallSample
<1>0. \A x, y \in Places(codes) : Apart(t, lines, codes, at, x, y)
  BY <1>1, <1>6, PlacesApart
<1> HIDE DEF f, g
<1>7. u \in [DOMAIN f -> P] /\ v \in [DOMAIN g -> P]
  <2>1. \A x \in DOMAIN f : FirstPlace(at, NextPlace(x)) \in P
    BY <1>0, <1>3, <1>5 DEF Apart
  <2>2. \A x \in DOMAIN g : SecondPlace(at, NextPlace(x)) \in P
    BY <1>0, <1>3, <1>5 DEF Apart
  <2> QED
    BY <2>1, <2>2
<1>8. /\ \A x \in DOMAIN f : u[x] = FirstPlace(at, NextPlace(x))
      /\ \A x \in DOMAIN g : v[x] = SecondPlace(at, NextPlace(x))
  OBVIOUS
<1> HIDE DEF u, v, P
<1>9. \A x, y \in DOMAIN f : u[x] = u[y] => x = y
  <2> TAKE x \in DOMAIN f, y \in DOMAIN f
  <2> HAVE u[x] = u[y]
  <2>1. FirstPlace(at, NextPlace(x)) = FirstPlace(at, NextPlace(y))
    BY <1>8
  <2>2. NextPlace(x) = NextPlace(y)
    BY <2>1, <1>0, <1>3, <1>5 DEF Apart
  <2> QED
    BY <2>2, <1>4, <1>5
<1>10. \A x, y \in DOMAIN g : v[x] = v[y] => x = y
  <2> TAKE x \in DOMAIN g, y \in DOMAIN g
  <2> HAVE v[x] = v[y]
  <2>1. SecondPlace(at, NextPlace(x)) = SecondPlace(at, NextPlace(y))
    BY <1>8
  <2>2. NextPlace(x) = NextPlace(y)
    BY <2>1, <1>0, <1>3, <1>5 DEF Apart
  <2> QED
    BY <2>2, <1>4, <1>5
<1>11. \A x \in DOMAIN f, y \in DOMAIN g : u[x] # v[y]
  <2> TAKE x \in DOMAIN f, y \in DOMAIN g
  <2>1. NextPlace(x) \in Places(codes) /\ NextPlace(y) \in Places(codes)
        /\ SizeIn(t, codes, NextPlace(y)) > 1
    BY <1>3, <1>5
  <2>2. FirstPlace(at, NextPlace(x)) # SecondPlace(at, NextPlace(y))
    BY <2>1, <1>0 DEF Apart
  <2> QED
    BY <2>2, <1>8
<1>12. Tallied(BagOf(f) (+) BagOf(g))
  BY <1>2, <1>7, <1>9, <1>10, <1>11, TallyBoth
<1> QED
  BY <1>12, CountsAre DEF f, g

--------------------------------------------------------------------------------
(* What is read of the counters of pairs.                                  *)

(* The increments of a high part: as many as the low part began anew.      *)
LEMMA IncsOf ==
  ASSUME NEW n \in Nat
  PROVE  /\ HighIncs(n) \in Nat /\ n % LowBase \in Nat
         /\ IF n % LowBase = 0 THEN n = LowBase * HighIncs(n)
            ELSE HighIncs(n) >= 1 /\ n = LowBase * (HighIncs(n) - 1) + (n % LowBase)
<1> DEFINE b == LowBase
           q == n \div b
           r == n % b
<1>1. b \in Nat /\ b >= 2
  BY SplitAssumption
<1> HIDE DEF b
<1>2. q \in Nat /\ r \in 0 .. b - 1 /\ n = b * q + r
  BY <1>1
<1> HIDE DEF q, r
<1>3. \A k \in Nat, i \in 0 .. b - 1 : (b * k + i) \div b = k
  BY <1>1
<1>4. HighIncs(n) = (n + b - 1) \div b
  BY DEF HighIncs, b
<1>5. CASE r = 0
  <2>1. n + b - 1 = b * q + (b - 1) /\ b - 1 \in 0 .. b - 1
    BY <1>1, <1>2, <1>5
  <2>2. HighIncs(n) = q
    BY <2>1, <1>2, <1>3, <1>4
  <2>3. HighIncs(n) \in Nat /\ r \in Nat /\ n = b * HighIncs(n)
    <3>1. n = b * q
      <4>1. b * q \in Nat
        BY <1>1, <1>2
      <4> QED
        BY <4>1, <1>2, <1>5
    <3> QED
      BY <3>1, <2>2, <1>2
  <2> QED
    BY <2>3, <1>5, Zenon DEF r, b
<1>6. CASE r # 0
  <2>1. n + b - 1 = b * (q + 1) + (r - 1) /\ r - 1 \in 0 .. b - 1 /\ q + 1 \in Nat
    BY <1>1, <1>2, <1>6
  <2>2. HighIncs(n) = q + 1
    BY <2>1, <1>3, <1>4
  <2>3. n = b * (HighIncs(n) - 1) + r /\ HighIncs(n) >= 1 /\ HighIncs(n) \in Nat /\ r \in Nat
    BY <2>2, <1>2
  <2> QED
    BY <2>3, <1>6, Zenon DEF r, b
<1> QED
  BY <1>5, <1>6

(* What overflows a high part is worth no more than it took.               *)
LEMMA MateBound ==
  ASSUME NEW m \in Nat
  PROVE  LET j == HighIncs(m) \div High2Base
         IN  j \in Nat /\ j * LowBase <= m /\ (j >= 1 => m > PairLimit)
<1> DEFINE i == HighIncs(m)
           j == i \div High2Base
           b == LowBase
           h == High2Base
<1>1. b \in Nat /\ b >= 2 /\ h \in Nat /\ h >= 2
  BY SplitAssumption
<1>2. i \in Nat /\ (i >= 1 => m > b * (i - 1)) /\ PairLimit = b * (h - 1)
  <2> DEFINE r == m % b
  <2>1. i \in Nat /\ r \in Nat /\ IF r = 0 THEN m = b * i ELSE i >= 1 /\ m = b * (i - 1) + r
    BY IncsOf, Zenon
  <2> HIDE DEF i, b, r
  <2>2. i >= 1 => m > b * (i - 1)
    <3>1. CASE r = 0
      <4>1. m = b * i /\ b * i = b * (i - 1) + b
        BY <3>1, <2>1, <1>1
      <4>2. b * (i - 1) \in Int
        BY <2>1, <1>1
      <4> QED
        BY <4>1, <4>2, <1>1
    <3>2. CASE r # 0
      <4>1. m = b * (i - 1) + r /\ r \in Nat
        BY <3>2, <2>1
      <4>2. b * (i - 1) \in Int
        BY <2>1, <1>1
      <4> QED
        BY <4>1, <4>2, <3>2
    <3> QED
      BY <3>1, <3>2
  <2> QED
    BY <2>1, <2>2 DEF PairLimit, b
<1> HIDE DEF i, b, h
<1>3. j \in Nat /\ h * j <= i
  BY <1>1, <1>2 DEF h
<1> HIDE DEF j
<1>4. CASE j = 0
  BY <1>4, <1>1 DEF b, i, j
<1>5. CASE j # 0
  <2>1. h * j >= 2 * j /\ h * j >= h /\ h * j \in Nat
    <3>1. \A x, y, z \in Nat : x >= y => x * z >= y * z
      OBVIOUS
    <3>2. h * j >= 2 * j /\ j * h >= 1 * h
      BY <3>1, <1>1, <1>3, <1>5
    <3> QED
      BY <3>2, <1>1, <1>3
  <2>2. i >= 1 /\ i - 1 >= j /\ i - 1 >= h - 1 /\ i - 1 \in Nat /\ h - 1 \in Nat
    BY <2>1, <1>1, <1>2, <1>3, <1>5
  <2>3. \A x, y \in Nat : x >= y => b * x >= b * y /\ b * x \in Nat /\ b * y \in Nat
    BY <1>1
  <2>4. b * (i - 1) >= b * j /\ b * (i - 1) >= b * (h - 1) /\ b * (i - 1) \in Nat
        /\ b * j \in Nat /\ b * (h - 1) \in Nat
    BY <2>2, <2>3, <1>3
  <2>5. m > b * (i - 1) /\ b * j = j * b
    BY <2>2, <1>1, <1>2, <1>3
  <2>6. j * b <= m /\ m > PairLimit
    BY <2>4, <2>5, <1>2
  <2> QED
    BY <2>6, <1>3 DEF j, i, b
<1> QED
  BY <1>4, <1>5

(* A counter of n that was overflown j times reads at most so much.        *)
LEMMA ReadBound ==
  ASSUME NEW n \in Nat, NEW j \in Nat, NEW h \in Nat, h >= 1, h <= HighIncs(n) + j
  PROVE  Combine(h, n % LowBase) \in Nat /\ Combine(h, n % LowBase) <= n + j * LowBase
<1> DEFINE b == LowBase
           k == HighIncs(n)
           l == n % b
<1>1. b \in Nat /\ b >= 2
  BY SplitAssumption
<1>2. k \in Nat /\ l \in Nat /\ IF l = 0 THEN n = b * k ELSE k >= 1 /\ n = b * (k - 1) + l
  BY IncsOf, Zenon
<1>3. Combine(h, l) = IF l = 0 THEN h * b ELSE (h - 1) * b + l
  BY DEF Combine
<1> HIDE DEF b, k, l
<1>4. \A x, y \in Nat : x <= y => x * b <= y * b /\ x * b \in Nat /\ y * b \in Nat
  BY <1>1
<1>5. CASE l = 0
  <2>1. h * b <= (k + j) * b /\ h * b \in Nat
    BY <1>2, <1>4 DEF k
  <2>2. (k + j) * b = b * k + j * b /\ j * b \in Nat
    BY <1>1, <1>2
  <2>3. Combine(h, l) = h * b /\ n = b * k
    BY <1>2, <1>3, <1>5
  <2> QED
    BY <2>1, <2>2, <2>3 DEF b, l
<1>6. CASE l # 0
  <2>0. h - 1 \in Nat /\ k - 1 + j \in Nat /\ h - 1 <= k - 1 + j
    BY <1>2, <1>6 DEF k
  <2>1. (h - 1) * b <= (k - 1 + j) * b /\ (h - 1) * b \in Nat
    BY <2>0, <1>4
  <2>2. (k - 1 + j) * b = b * (k - 1) + j * b /\ j * b \in Nat /\ b * (k - 1) \in Int
    BY <1>1, <1>2
  <2>3. Combine(h, l) = (h - 1) * b + l /\ n = b * (k - 1) + l
    BY <1>2, <1>3, <1>6
  <2> DEFINE x == (h - 1) * b
             y == b * (k - 1)
             z == j * b
  <2>4. x \in Nat /\ y \in Int /\ z \in Nat /\ x <= y + z /\ Combine(h, l) = x + l /\ n = y + l
    BY <2>1, <2>2, <2>3
  <2> HIDE DEF x, y, z
  <2>5. Combine(h, l) \in Nat /\ Combine(h, l) <= n + z
    BY <2>4, <1>2
  <2> QED
    BY <2>5 DEF z, b, l
<1> QED
  BY <1>5, <1>6

(* Counts of pairs of codes.                                               *)
PairCounts(d) == \A p \in DOMAIN d : d[p] \in Nat /\ p = <<p[1], p[2]>> /\ p[2] \in Nat

(* A pair is read that occurred, or that one overflows into; and it reads  *)
(* no more than the two occurred.                                          *)
LEMMA ReadOf ==
  ASSUME NEW d, PairCounts(d), NEW p \in DOMAIN Count2Read(d)
  PROVE  /\ p = <<p[1], p[2]>> /\ p[2] \in Nat /\ Count2Read(d)[p] \in Nat
         /\ Count2Read(d)[p] <=
              CountOf(p, d) + (IF p[2] % 2 = 0 THEN 0 ELSE CountOf(EvenBefore(p), d))
         /\ \/ p \in DOMAIN d
            \/ \E m \in DOMAIN d : p = OddAfter(m) /\ m[2] % 2 = 0 /\ d[m] > PairLimit
<1> DEFINE n == CountOf(p, d)
           m == CountOf(EvenBefore(p), d)
           j == IF p[2] % 2 = 0 THEN 0 ELSE HighIncs(m) \div High2Base
           h == High2(d, p)
           v == Count2Read(d)[p]
<1>1. /\ p \in DOMAIN d \/ \E q \in DOMAIN d : p = OddAfter(q) /\ q[2] % 2 = 0
      /\ h # 0 /\ v = Combine(h, n % LowBase)
  BY DEF Count2Read
<1>2. p = <<p[1], p[2]>> /\ p[2] \in Nat
  <2>1. CASE p \in DOMAIN d
    BY <2>1 DEF PairCounts
  <2>2. ASSUME NEW q \in DOMAIN d, p = OddAfter(q) PROVE p = <<p[1], p[2]>> /\ p[2] \in Nat
    <3>1. p = <<q[1], q[2] + 1>> /\ q[2] \in Nat
      BY <2>2 DEF OddAfter, PairCounts
    <3> QED
      BY <3>1
  <2> QED
    BY <1>1, <2>1, <2>2
<1>3. n \in Nat /\ m \in Nat
  BY DEF CountOf, PairCounts
<1>4. /\ j \in Nat /\ j * LowBase <= m /\ (j >= 1 => m > PairLimit)
      /\ p[2] % 2 = 0 => j * LowBase <= 0
  <2>1. LET i == HighIncs(m) \div High2Base
        IN  i \in Nat /\ i * LowBase <= m /\ (i >= 1 => m > PairLimit)
    BY <1>3, MateBound
  <2>2. 0 * LowBase = 0
    BY SplitAssumption
  <2> HIDE DEF m
  <2> QED
    BY <2>1, <2>2, <1>3
<1>5. h \in Nat /\ h <= HighIncs(n) + j
  <2>1. HighIncs(n) \in Nat
    BY <1>3, IncsOf
  <2>2. h = (HighIncs(n) + j) % High2Base
    <3>1. CASE p[2] % 2 = 0
      <4>1. h = HighIncs(n) % High2Base /\ j = 0
        BY <3>1 DEF High2
      <4> QED
        BY <4>1, <2>1
    <3>2. CASE p[2] % 2 # 0
      BY <3>2, Zenon DEF High2
    <3> QED
      BY <3>1, <3>2
  <2>3. \A x \in Nat : x % High2Base \in Nat /\ x % High2Base <= x
    BY SplitAssumption
  <2> HIDE DEF h, j, n
  <2>4. HighIncs(n) + j \in Nat
    BY <2>1, <1>4
  <2> QED
    BY <2>2, <2>3, <2>4
<1> HIDE DEF n, m, j, h, v
<1>6. v \in Nat /\ v <= n + j * LowBase
  <2>1. h >= 1
    BY <1>1, <1>5
  <2> QED
    BY <2>1, <1>1, <1>3, <1>4, <1>5, ReadBound
<1>7. v <= n + (IF p[2] % 2 = 0 THEN 0 ELSE m)
  <2>1. j * LowBase \in Int
    BY <1>4, SplitAssumption
  <2> DEFINE w == j * LowBase
  <2> HIDE DEF w
  <2>2. w \in Int /\ w <= m /\ (p[2] % 2 = 0 => w <= 0) /\ v <= n + w
    BY <2>1, <1>4, <1>6 DEF w
  <2> QED
    BY <2>2, <1>3, <1>6
<1>8. ASSUME p \notin DOMAIN d
      PROVE  \E q \in DOMAIN d : p = OddAfter(q) /\ q[2] % 2 = 0 /\ d[q] > PairLimit
  <2>1. PICK q \in DOMAIN d : p = OddAfter(q) /\ q[2] % 2 = 0
    BY <1>1, <1>8
  <2>2. q = <<q[1], q[2]>> /\ q[2] \in Nat /\ p = <<q[1], q[2] + 1>>
    BY <2>1 DEF PairCounts, OddAfter
  <2>3. EvenBefore(p) = q
    BY <2>2 DEF EvenBefore
  <2>4. m = d[q] /\ n = 0
    BY <2>3, <1>8 DEF m, n, CountOf
  <2>5. HighIncs(0) = 0
    <3>1. \A b \in Nat : b >= 2 => (0 + b - 1) \div b = 0
      OBVIOUS
    <3> QED
      BY <3>1, SplitAssumption DEF HighIncs
  <2>6. j >= 1
    BY <2>4, <2>5, <1>1, <1>4, <1>5
  <2> QED
    BY <2>1, <2>4, <2>6, <1>4
<1> QED
  BY <1>2, <1>6, <1>7, <1>8 DEF v, n, m

(* What is read of a pair is charged to the events of the pair and to      *)
(* those of the one it shares its high parts with.                         *)
Shifted(g) == [x \in DOMAIN g |-> OddAfter(g[x])]

LEMMA ReadEvents ==
  ASSUME NEW d, PairCounts(d), NEW g, TalliedBy(d, g), NEW p \in DOMAIN Count2Read(d)
  PROVE  /\ Count2Read(d)[p] \in Nat /\ Count2Read(d)[p] <= Times(Both(g, Shifted(g)), p)
         /\ p \in Range(Both(g, Shifted(g)))
<1> DEFINE f == Shifted(g)
           h == Both(g, f)
<1>1. /\ IsFiniteSet(DOMAIN g) /\ DOMAIN d = Range(g) /\ \A q \in DOMAIN d : d[q] = Times(g, q)
      /\ DOMAIN f = DOMAIN g /\ \A x \in DOMAIN g : f[x] = OddAfter(g[x])
  BY DEF TalliedBy, BagOf, Times, Shifted
<1>2. /\ p = <<p[1], p[2]>> /\ p[2] \in Nat /\ Count2Read(d)[p] \in Nat
      /\ Count2Read(d)[p] <= CountOf(p, d) + (IF p[2] % 2 = 0 THEN 0 ELSE CountOf(EvenBefore(p), d))
      /\ p \in DOMAIN d \/ \E m \in DOMAIN d : p = OddAfter(m)
  BY ReadOf
<1>3. \A q : CountOf(q, d) = Times(g, q) /\ Times(g, q) \in Nat
  <2> TAKE q
  <2>1. Times(g, q) \in Nat /\ (q \notin Range(g) => Times(g, q) = 0)
    BY <1>1, TimesType
  <2> QED
    BY <2>1, <1>1 DEF CountOf
<1> HIDE DEF f
<1>4. Times(h, p) = Times(g, p) + Times(f, p) /\ Times(f, p) \in Nat
  BY <1>1, BothTimes, TimesType
<1>5. Times(g, EvenBefore(p)) <= Times(f, p)
  <2> DEFINE S == {x \in DOMAIN g : g[x] = EvenBefore(p)}
             T == {x \in DOMAIN f : f[x] = p}
  <2>1. OddAfter(EvenBefore(p)) = p
    <3>1. EvenBefore(p) = <<p[1], p[2] - 1>>
      BY DEF EvenBefore
    <3>2. OddAfter(EvenBefore(p)) = <<p[1], p[2] - 1 + 1>>
      BY <3>1 DEF OddAfter
    <3>3. p[2] - 1 + 1 = p[2]
      BY <1>2
    <3> QED
      BY <3>2, <3>3, <1>2
  <2>2. S \subseteq T
    BY <2>1, <1>1
  <2>3. IsFiniteSet(T)
    BY <1>1, FS_Subset
  <2>4. Cardinality(S) <= Cardinality(T)
    <3> HIDE DEF S, T
    <3> QED
      BY <2>2, <2>3, FS_Subset
  <2> QED
    BY <2>4 DEF Times
<1>6. p \in Range(h)
  <2>1. DOMAIN h = ({1} \X DOMAIN g) \cup ({2} \X DOMAIN f)
    BY DEF Both
  <2>2. /\ \A x \in DOMAIN g : <<1, x>> \in DOMAIN h /\ h[<<1, x>>] = g[x]
        /\ \A x \in DOMAIN f : <<2, x>> \in DOMAIN h /\ h[<<2, x>>] = f[x]
    BY DEF Both
  <2> HIDE DEF h
  <2>3. CASE p \in DOMAIN d
    <3>1. PICK x \in DOMAIN g : p = g[x]
      BY <2>3, <1>1 DEF Range
    <3> QED
      BY <3>1, <2>2 DEF Range
  <2>4. ASSUME NEW m \in DOMAIN d, p = OddAfter(m) PROVE p \in Range(h)
    <3>1. PICK x \in DOMAIN g : m = g[x]
      BY <1>1 DEF Range
    <3>2. x \in DOMAIN f /\ f[x] = p
      BY <3>1, <2>4, <1>1
    <3> QED
      BY <3>2, <2>2 DEF Range
  <2> QED
    BY <2>3, <2>4, <1>2
<1> HIDE DEF h
<1>7. Count2Read(d)[p] <= Times(h, p)
  <2> DEFINE v == Count2Read(d)[p]
             a == Times(g, p)
             b == Times(g, EvenBefore(p))
             c == Times(f, p)
  <2>1. v \in Nat /\ a \in Nat /\ b \in Nat /\ c \in Nat /\ b <= c /\ Times(h, p) = a + c
        /\ v <= a + (IF p[2] % 2 = 0 THEN 0 ELSE b)
    BY <1>2, <1>3, <1>4, <1>5
  <2> HIDE DEF v, a, b, c
  <2>2. v <= a + c
    BY <2>1
  <2> QED
    BY <2>1, <2>2 DEF v
<1> QED
  BY <1>2, <1>6, <1>7 DEF h, f

LEMMA SharedEvents ==
  ASSUME NEW g, IsFiniteSet(DOMAIN g)
  PROVE  LET b == Both(g, Shifted(g))
         IN  IsFiniteSet(DOMAIN b) /\ Cardinality(DOMAIN b) = 2 * Cardinality(DOMAIN g)
<1> DEFINE S == DOMAIN g
           T == {1} \X S
           U == {2} \X S
<1>1. IsFiniteSet(S)
  OBVIOUS
<1>2. DOMAIN Both(g, Shifted(g)) = T \cup U
  BY DEF Both, Shifted
<1> HIDE DEF S
<1>3. /\ IsFiniteSet(T) /\ Cardinality(T) = Cardinality(S)
      /\ IsFiniteSet(U) /\ Cardinality(U) = Cardinality(S)
  BY <1>1, CopyOf
<1>4. T \cap U = {}
  OBVIOUS
<1> HIDE DEF T, U
<1>5. IsFiniteSet(T \cup U) /\ Cardinality(T \cup U) = Cardinality(T) + Cardinality(U) - Cardinality(T \cap U)
  BY <1>3, FS_Union
<1>6. Cardinality(T \cap U) = 0 /\ Cardinality(S) \in Nat
  BY <1>1, <1>4, FS_EmptySet, FS_CardinalityType
<1> QED
  BY <1>2, <1>3, <1>5, <1>6 DEF S

--------------------------------------------------------------------------------
(* What is counted occurs in the sample.                                   *)
OccursIn(lines, s) == \E i \in DOMAIN lines : PieceOf(s, lines[i])

(* Parts of parts.                                                         *)
LEMMA PartsOf ==
  ASSUME NEW s \in Seq(Byte), NEW a \in Nat, NEW b \in Nat, a < b, b <= Len(s)
  PROVE  /\ Part(s, a, a + 1) = <<Head(Part(s, a, b))>>
         /\ \A c \in Nat : b < c /\ c <= Len(s) => Part(s, a, b) \o Part(s, b, c) = Part(s, a, c)
<1>1. a + 1 \in Nat /\ a < a + 1 /\ a + 1 <= Len(s)
  OBVIOUS
<1> DEFINE x == Part(s, a, b)
<1>2. x \in Seq(Byte) /\ Len(x) = b - a /\ x # <<>> /\ \A i \in 1 .. b - a : x[i] = s[a + i]
  BY Piece
<1>3. Part(s, a, a + 1) = <<Head(x)>>
  <2> DEFINE y == Part(s, a, a + 1)
  <2>1. y \in Seq(Byte) /\ Len(y) = a + 1 - a /\ \A i \in 1 .. a + 1 - a : y[i] = s[a + i]
    <3> DEFINE e == a + 1
    <3>1. e \in Nat /\ a < e /\ e <= Len(s) /\ y = Part(s, a, e)
      BY <1>1
    <3> HIDE DEF e
    <3>2. Part(s, a, e) \in Seq(Byte) /\ Len(Part(s, a, e)) = e - a
          /\ \A i \in 1 .. e - a : Part(s, a, e)[i] = s[a + i]
      BY <3>1, Piece
    <3> QED
      BY <3>1, <3>2 DEF e
  <2> HIDE DEF x, y
  <2>2. Len(y) = 1 /\ 1 \in 1 .. b - a /\ 1 \in 1 .. a + 1 - a
    BY <2>1
  <2>3. Head(x) = x[1] /\ x[1] = s[a + 1] /\ y[1] = s[a + 1]
    BY <1>2, <2>1, <2>2
  <2>4. y = <<y[1]>>
    BY <2>1, <2>2
  <2> QED
    BY <2>3, <2>4 DEF y
<1>4. ASSUME NEW c \in Nat, b < c, c <= Len(s) PROVE x \o Part(s, b, c) = Part(s, a, c)
  <2> DEFINE y == Part(s, b, c)
             z == Part(s, a, c)
             w == x \o y
  <2>1. y \in Seq(Byte) /\ Len(y) = c - b /\ \A i \in 1 .. c - b : y[i] = s[b + i]
    BY <1>4, Piece
  <2>2. z \in Seq(Byte) /\ Len(z) = c - a /\ \A i \in 1 .. c - a : z[i] = s[a + i]
    <3>1. a < c /\ a \in Nat /\ c \in Nat /\ c <= Len(s) /\ s \in Seq(Byte)
      BY <1>4
    <3> QED
      BY <3>1, Piece
  <2> HIDE DEF x, y, z
  <2>3. Concatenates(Byte, x, y, w)
    BY <1>2, <2>1, ConcatParts
  <2> HIDE DEF w
  <2>4. /\ w \in Seq(Byte) /\ Len(w) = c - a
        /\ \A j \in 1 .. b - a : w[j] = x[j]
        /\ \A k \in 1 .. c - b : w[b - a + k] = y[k]
    BY <1>2, <2>1, <2>3 DEF Concatenates
  <2>5. ASSUME NEW i \in 1 .. c - a PROVE w[i] = z[i]
    <3>1. CASE i <= b - a
      <4>1. i \in 1 .. b - a
        BY <3>1
      <4> QED
        BY <4>1, <1>2, <2>2, <2>4
    <3>2. CASE ~ (i <= b - a)
      <4> DEFINE k == i - (b - a)
      <4>1. k \in 1 .. c - b /\ b - a + k = i /\ b + k = a + i
        BY <3>2, <1>4
      <4> HIDE DEF k
      <4>2. w[i] = y[k] /\ y[k] = s[a + i]
        BY <4>1, <2>1, <2>4
      <4> QED
        BY <4>2, <2>2
    <3> QED
      BY <3>1, <3>2
  <2>6. w = z
    BY <2>2, <2>4, <2>5, SameElements
  <2> QED
    BY <2>6 DEF w, y, z
<1> QED
  BY <1>3, <1>4

(* A piece cut short.                                                      *)
LEMMA PieceCut ==
  ASSUME NEW s \in Seq(Byte), NEW x \in Seq(Byte), PieceOf(x, s),
         NEW n \in Nat, n >= 1, n <= Len(x)
  PROVE  PieceOf(SubSeq(x, 1, n), s)
<1>1. PICK k \in 0 .. Len(s) - Len(x) : x = SubSeq(s, k + 1, k + Len(x))
  BY DEF PieceOf
<1>2. k \in Nat /\ Len(x) \in Nat /\ k + Len(x) <= Len(s) /\ Len(s) \in Nat
  BY <1>1
<1> DEFINE y == SubSeq(x, 1, n)
           z == Part(s, k, k + n)
           m == Len(x)
<1>3. \A i \in 1 .. m : x[i] = s[k + i]
  <2> HIDE DEF m
  <2>1. x = SubSeq(s, k + 1, k + m)
    BY <1>1 DEF m
  <2> QED
    BY <2>1, <1>2 DEF m
<1>4. y \in Seq(Byte) /\ Len(y) = n /\ \A i \in 1 .. n : y[i] = x[i]
  OBVIOUS
<1>5. z \in Seq(Byte) /\ Len(z) = k + n - k /\ PieceOf(z, s) /\ \A i \in 1 .. k + n - k : z[i] = s[k + i]
  <2>1. k + n \in Nat /\ k < k + n /\ k + n <= Len(s)
    BY <1>2
  <2> QED
    BY <1>2, <2>1, Piece
<1> HIDE DEF y, z
<1>6. Len(z) = Len(y) /\ \A i \in 1 .. n : y[i] = z[i]
  BY <1>2, <1>3, <1>4, <1>5
<1>7. y = z
  BY <1>4, <1>5, <1>6, SameElements
<1> QED
  BY <1>5, <1>7 DEF y

--------------------------------------------------------------------------------
(* The counters name what occurs.                                          *)
CountsOk(lines, t, c) ==
  /\ Tallied(c)
  /\ \A p \in DOMAIN c : ValidCode(t, p) /\ OccursIn(lines, SymbolOf(t, p))

PairOk(lines, t, p) ==
  /\ p = <<p[1], p[2]>> /\ ValidCode(t, p[1]) /\ ValidCode(t, p[2])
  /\ OccursIn(lines, SymbolOf(t, p[1]) \o SymbolOf(t, p[2]))

PairsOk(lines, t, c) == Tallied(c) /\ \A p \in DOMAIN c : PairOk(lines, t, p)

LEMMA NothingCounted ==
  ASSUME NEW lines, NEW t
  PROVE  PairsOk(lines, t, EmptyBag)
<1> DEFINE f == [x \in {} |-> 0]
<1>1. DOMAIN EmptyBag = {} /\ EmptyBag = [e \in {} |-> 1]
  BY DEF EmptyBag, SetToBag
<1>2. DOMAIN f = {} /\ Range(f) = {}
  BY DEF Range
<1>3. BagOf(f) = EmptyBag
  BY <1>1, <1>2 DEF BagOf
<1>4. IsFiniteSet({}) /\ Cardinality({}) = 0 /\ 0 <= MostBytes
  BY FS_EmptySet, Sizes DEF MostBytes
<1> HIDE DEF f
<1>5. TalliedBy(EmptyBag, f)
  BY <1>2, <1>3, <1>4 DEF TalliedBy
<1> QED
  BY <1>1, <1>5 DEF PairsOk, Tallied

(* What a code stands for at its place.                                    *)
LEMMA CodeOccurs ==
  ASSUME NEW t, Agrees(t), NEW s \in Seq(Byte), NEW c, NEW a, NEW b, CodeThere(t, s, c, a, b)
  PROVE  /\ ValidCode(t, c) /\ PieceOf(SymbolOf(t, c), s)
         /\ ValidCode(t, FirstByte(t, c)) /\ SymbolOf(t, FirstByte(t, c)) = Part(s, a - 1, a)
         /\ PieceOf(Part(s, a - 1, a), s)
<1> DEFINE x == SymbolOf(t, c)
           k == a - 1
           m == b - 1
<1>1. /\ ValidCode(t, c) /\ Len(x) \in Nat /\ Len(x) >= 1 /\ x = Part(s, k, m)
      /\ a \in Nat /\ a >= 1 /\ b \in Nat /\ b = a + Len(x) /\ b <= Len(s) + 1
  BY DEF CodeThere
<1> HIDE DEF x
<1>2. /\ k \in Nat /\ m \in Nat /\ k < m /\ m <= Len(s) /\ k + 1 = a /\ a <= Len(s) /\ k < a
  BY <1>1
<1> HIDE DEF k, m
<1>3. PieceOf(Part(s, k, m), s) /\ PieceOf(Part(s, k, a), s)
  BY <1>1, <1>2, Piece
<1>4. Part(s, k, a) = <<Head(x)>>
  BY <1>1, <1>2, PartsOf
<1>5. FirstByte(t, c) = Head(x) /\ Head(x) \in Byte
  <2>1. x \in Seq(Byte) /\ x # <<>>
    BY <1>1, <1>2, Piece
  <2> QED
    BY <2>1 DEF FirstByte, x
<1>6. ValidCode(t, Head(x))
  BY <1>5 DEF ValidCode
<1>7. SymbolOf(t, Head(x)) = <<Head(x)>>
  BY <1>5, <1>6, CodeSymbol
<1> QED
  BY <1>1, <1>3, <1>4, <1>5, <1>6, <1>7 DEF x, k

LEMMA SinglesOccur ==
  ASSUME NEW t, Agrees(t), NEW lines, SmallSample(lines), NEW codes, CodedLines(t, lines, codes)
  PROVE  CountsOk(lines, t, Count1(t, codes))
<1> DEFINE f == SingleEvents(codes)
           g == FirstEvents(t, codes)
<1>1. PICK at : LaidOut(t, lines, codes, at)
  BY Layout
<1>2. DOMAIN Count1(t, codes) = Range(f) \cup Range(g)
  <2>1. DOMAIN BagOf(f) = Range(f) /\ DOMAIN BagOf(g) = Range(g)
    BY DEF BagOf
  <2> HIDE DEF f, g
  <2>2. DOMAIN (BagOf(f) (+) BagOf(g)) = Range(f) \cup Range(g)
    BY <2>1 DEF (+)
  <2> QED
    BY <2>2, CountsAre DEF f, g
<1>3. ASSUME NEW x \in Places(codes)
      PROVE  LET c == CodeIn(codes, x)
             IN  /\ ValidCode(t, c) /\ OccursIn(lines, SymbolOf(t, c))
                 /\ ValidCode(t, FirstByte(t, c)) /\ OccursIn(lines, SymbolOf(t, FirstByte(t, c)))
  <2> DEFINE c == CodeIn(codes, x)
  <2>1. StandsAt(t, lines, codes, at, x)
    BY <1>1 DEF LaidOut
  <2>2. x[1] \in DOMAIN lines /\ CodeThere(t, lines[x[1]], c, at[x], at[x] + SizeIn(t, codes, x))
    BY <2>1 DEF StandsAt
  <2>3. lines[x[1]] \in Seq(Byte)
    BY <2>2, ElementType DEF SmallSample
  <2> HIDE DEF c
  <2>4. /\ ValidCode(t, c) /\ PieceOf(SymbolOf(t, c), lines[x[1]])
        /\ ValidCode(t, FirstByte(t, c)) /\ PieceOf(SymbolOf(t, FirstByte(t, c)), lines[x[1]])
    BY <2>2, <2>3, CodeOccurs
  <2> QED
    BY <2>2, <2>4 DEF c, OccursIn
<1>4. ASSUME NEW p \in DOMAIN Count1(t, codes)
      PROVE  ValidCode(t, p) /\ OccursIn(lines, SymbolOf(t, p))
  <2>1. \/ \E x \in Places(codes) : p = CodeIn(codes, x)
        \/ \E x \in Places(codes) : p = FirstByte(t, CodeIn(codes, x))
    BY <1>2 DEF Range, SingleEvents, FirstEvents, LongerPlaces
  <2> QED
    BY <2>1, <1>3
<1>5. Tallied(Count1(t, codes))
  BY SinglesTallied
<1> QED
  BY <1>4, <1>5 DEF CountsOk

(* Two codes in a row.                                                     *)
LEMMA PairOccurs ==
  ASSUME NEW t, Agrees(t), NEW s \in Seq(Byte), NEW c, NEW d, NEW a, NEW b, NEW e,
         CodeThere(t, s, c, a, b), CodeThere(t, s, d, b, e)
  PROVE  /\ PieceOf(SymbolOf(t, c) \o SymbolOf(t, d), s)
         /\ PieceOf(SymbolOf(t, c) \o SymbolOf(t, FirstByte(t, d)), s)
<1> DEFINE k == a - 1
           m == b - 1
           n == e - 1
<1>1. /\ a \in Nat /\ a >= 1 /\ b \in Nat /\ a < b /\ e \in Nat /\ b < e /\ e <= Len(s) + 1
      /\ SymbolOf(t, c) = Part(s, k, m) /\ SymbolOf(t, d) = Part(s, m, n)
      /\ SymbolOf(t, FirstByte(t, d)) = Part(s, m, b)
  <2>1. CodeThere(t, s, c, a, b) /\ CodeThere(t, s, d, b, e)
    OBVIOUS
  <2>2. SymbolOf(t, FirstByte(t, d)) = Part(s, m, b)
    BY <2>1, CodeOccurs
  <2>3. /\ SymbolOf(t, c) = Part(s, k, m) /\ SymbolOf(t, d) = Part(s, m, n)
        /\ a \in Nat /\ a >= 1 /\ b \in Nat /\ e \in Nat /\ e <= Len(s) + 1
    BY <2>1 DEF CodeThere
  <2>4. \A x, y \in Nat : \A z \in Nat : z >= 1 /\ y = x + z => x < y
    OBVIOUS
  <2>5. a < b /\ b < e
    BY <2>1, <2>4 DEF CodeThere
  <2> QED
    BY <2>2, <2>3, <2>5
<1>2. /\ k \in Nat /\ m \in Nat /\ n \in Nat /\ k < m /\ m < n /\ n <= Len(s)
      /\ m < b /\ b <= Len(s) /\ m <= Len(s) /\ k < n /\ k < b
  BY <1>1
<1> HIDE DEF k, m, n
<1>3. Part(s, k, m) \o Part(s, m, n) = Part(s, k, n) /\ Part(s, k, m) \o Part(s, m, b) = Part(s, k, b)
  <2>1. \A i \in Nat : m < i /\ i <= Len(s) => Part(s, k, m) \o Part(s, m, i) = Part(s, k, i)
    <3>1. k < m /\ m <= Len(s)
      BY <1>2
    <3> QED
      BY <1>2, <3>1, PartsOf
  <2> QED
    BY <1>1, <1>2, <2>1
<1>4. PieceOf(Part(s, k, n), s) /\ PieceOf(Part(s, k, b), s)
  BY <1>1, <1>2, Piece
<1> QED
  BY <1>1, <1>3, <1>4

LEMMA PairsOccur ==
  ASSUME NEW t, Agrees(t), NEW lines, SmallSample(lines), NEW codes, CodedLines(t, lines, codes)
  PROVE  PairsOk(lines, t, Count2(t, codes))
<1> DEFINE f == PairEvents(codes)
           g == PairFirstEvents(t, codes)
<1>1. PICK at : LaidOut(t, lines, codes, at)
  BY Layout
<1>2. DOMAIN Count2(t, codes) = Range(f) \cup Range(g)
  <2>1. DOMAIN BagOf(f) = Range(f) /\ DOMAIN BagOf(g) = Range(g)
    BY DEF BagOf
  <2> HIDE DEF f, g
  <2>2. DOMAIN (BagOf(f) (+) BagOf(g)) = Range(f) \cup Range(g)
    BY <2>1 DEF (+)
  <2> QED
    BY <2>2, CountsAre DEF f, g
<1>3. ASSUME NEW x \in PairPlaces(codes)
      PROVE  LET c == CodeIn(codes, x)
                 d == CodeIn(codes, NextPlace(x))
             IN  PairOk(lines, t, <<c, d>>) /\ PairOk(lines, t, <<c, FirstByte(t, d)>>)
  <2> DEFINE c == CodeIn(codes, x)
             d == CodeIn(codes, NextPlace(x))
             i == x[1]
             b == at[x] + SizeIn(t, codes, x)
             y == NextPlace(x)
  <2>1. /\ x \in Places(codes) /\ StandsAt(t, lines, codes, at, x)
        /\ y \in Places(codes) /\ at[y] = b /\ StandsAt(t, lines, codes, at, y)
    BY <1>1 DEF LaidOut, PairPlaces, FollowedAt
  <2>2. i \in DOMAIN lines /\ CodeThere(t, lines[i], c, at[x], b) /\ y[1] = i
    BY <2>1 DEF StandsAt, NextPlace
  <2>3. CodeThere(t, lines[y[1]], CodeIn(codes, y), at[y], at[y] + SizeIn(t, codes, y))
    BY <2>1 DEF StandsAt
  <2>4. CodeThere(t, lines[i], d, b, b + SizeIn(t, codes, y))
    BY <2>1, <2>2, <2>3, Zenon
  <2>5. lines[i] \in Seq(Byte)
    BY <2>2, ElementType DEF SmallSample
  <2> HIDE DEF c, d, i, b
  <2>6. /\ ValidCode(t, c) /\ ValidCode(t, d) /\ ValidCode(t, FirstByte(t, d))
        /\ PieceOf(SymbolOf(t, c) \o SymbolOf(t, d), lines[i])
        /\ PieceOf(SymbolOf(t, c) \o SymbolOf(t, FirstByte(t, d)), lines[i])
    BY <2>2, <2>4, <2>5, CodeOccurs, PairOccurs
  <2> QED
    BY <2>2, <2>6 DEF c, d, OccursIn, PairOk
<1>4. ASSUME NEW p \in DOMAIN Count2(t, codes) PROVE PairOk(lines, t, p)
  <2>1. \/ \E x \in PairPlaces(codes) : p = <<CodeIn(codes, x), CodeIn(codes, NextPlace(x))>>
        \/ \E x \in PairPlaces(codes) :
             p = <<CodeIn(codes, x), FirstByte(t, CodeIn(codes, NextPlace(x)))>>
    BY <1>2 DEF Range, PairEvents, PairFirstEvents, LongerPairs
  <2> QED
    BY <2>1, <1>3
<1>5. Tallied(Count2(t, codes))
  BY PairsTallied
<1> QED
  BY <1>4, <1>5 DEF PairsOk

--------------------------------------------------------------------------------
(* Bounds of sums.                                                         *)

(* A sum whose terms are bounded by the growth of lo and hi.               *)
LEMMA SumBetween ==
  ASSUME NEW fun, NEW S, IsFiniteSet(S), \A x \in S : fun[x] \in Int,
         NEW lo \in [SUBSET S -> Int], NEW hi \in [SUBSET S -> Int], lo[{}] <= 0, 0 <= hi[{}],
         \A s \in SUBSET S : \A x \in s :
           lo[s] <= fun[x] + lo[s \ {x}] /\ fun[x] + hi[s \ {x}] <= hi[s]
  PROVE  LET sum == SumFunctionOnSet(fun, S)
         IN  sum \in Int /\ lo[S] <= sum /\ sum <= hi[S]
<1> DEFINE g == Sums(fun, S)
           T == {n \in Nat : \A s \in SUBSET S : Cardinality(s) = n =>
                   g[s] \in Int /\ lo[s] <= g[s] /\ g[s] <= hi[s]}
<1>0. \A s \in SUBSET S : IsFiniteSet(s) /\ Cardinality(s) \in Nat
  BY FS_Subset, FS_CardinalityType
<1>1. IsSums(fun, g, S)
  BY SumsExist
<1> HIDE DEF g
<1>2. 0 \in T
  <2>1. ASSUME NEW s \in SUBSET S, Cardinality(s) = 0
        PROVE  g[s] \in Int /\ lo[s] <= g[s] /\ g[s] <= hi[s]
    <3>1. s = {}
      BY <2>1, <1>0, FS_EmptySet
    <3>2. g[s] = 0
      BY <3>1, <1>1 DEF SumStep, IsSums
    <3> QED
      BY <3>1, <3>2
  <2> QED
    BY <2>1
<1>3. ASSUME NEW n \in Nat, n \in T PROVE n + 1 \in T
  <2>1. ASSUME NEW s \in SUBSET S, Cardinality(s) = n + 1
        PROVE  g[s] \in Int /\ lo[s] <= g[s] /\ g[s] <= hi[s]
    <3> DEFINE c == CHOOSE z \in s : TRUE
               r == s \ {c}
    <3>1. s # {}
      <4>1. Cardinality({}) = 0 /\ n + 1 # 0
        BY FS_EmptySet
      <4> QED
        BY <4>1, <2>1
    <3>2. c \in s /\ g[s] = fun[c] + g[r]
      BY <3>1, <1>1 DEF SumStep, IsSums
    <3>3. r \in SUBSET S /\ Cardinality(r) = n
      <4>1. IsFiniteSet(s)
        BY <1>0
      <4>2. Cardinality(r) = Cardinality(s) - 1
        BY <3>2, <4>1, FS_RemoveElement
      <4> QED
        BY <4>2, <2>1
    <3>4. lo[s] <= fun[c] + lo[r] /\ fun[c] + hi[r] <= hi[s]
      BY <3>2
    <3> HIDE DEF c, r
    <3>5. g[r] \in Int /\ lo[r] <= g[r] /\ g[r] <= hi[r]
      BY <3>3, <1>3
    <3>6. fun[c] \in Int /\ lo[s] \in Int /\ hi[s] \in Int /\ lo[r] \in Int /\ hi[r] \in Int
      BY <3>2, <3>3
    <3> QED
      BY <3>2, <3>4, <3>5, <3>6
  <2> QED
    BY <2>1
<1>4. Cardinality(S) \in T
  <2> HIDE DEF T
  <2> QED
    BY <1>2, <1>3, <1>0, SetInduction
<1> QED
  BY <1>4, SumIsSums DEF g

(* Terms of at least -1.                                                   *)
LEMMA SumAtLeast ==
  ASSUME NEW fun, NEW S, IsFiniteSet(S), \A x \in S : fun[x] \in Int /\ fun[x] >= -1
  PROVE  SumFunctionOnSet(fun, S) \in Int /\ SumFunctionOnSet(fun, S) >= - Cardinality(S)
<1> DEFINE lo == [s \in SUBSET S |-> - Cardinality(s)]
           hi == [s \in SUBSET S |-> SumFunctionOnSet(fun, s)]
<1>1. \A s \in SUBSET S : IsFiniteSet(s) /\ Cardinality(s) \in Nat
  BY FS_Subset, FS_CardinalityType
<1>2. \A s \in SUBSET S : SumFunctionOnSet(fun, s) \in Int
  BY <1>1, SumType
<1>3. lo \in [SUBSET S -> Int] /\ hi \in [SUBSET S -> Int]
  BY <1>1, <1>2
<1>4. lo[{}] <= 0 /\ 0 <= hi[{}]
  BY SumOfNone, FS_EmptySet
<1>5. ASSUME NEW s \in SUBSET S, NEW x \in s
      PROVE  lo[s] <= fun[x] + lo[s \ {x}] /\ fun[x] + hi[s \ {x}] <= hi[s]
  <2>1. IsFiniteSet(s) /\ s \ {x} \in SUBSET S /\ \A y \in s : fun[y] \in Int
    BY <1>1
  <2>2. Cardinality(s \ {x}) = Cardinality(s) - 1
    BY <2>1, FS_RemoveElement
  <2>3. SumFunctionOnSet(fun, s) = fun[x] + SumFunctionOnSet(fun, s \ {x})
    BY <2>1, SumWithout
  <2>4. lo[s] = - Cardinality(s) /\ lo[s \ {x}] = - Cardinality(s \ {x})
    BY <2>1
  <2>5. hi[s] = fun[x] + hi[s \ {x}] /\ hi[s] \in Int
    BY <2>1, <2>3, <1>3
  <2>6. fun[x] \in Int /\ fun[x] >= -1 /\ Cardinality(s) \in Nat
    BY <1>1
  <2> HIDE DEF lo, hi
  <2> QED
    BY <2>2, <2>4, <2>5, <2>6
<1>6. lo[S] = - Cardinality(S) /\ S \in SUBSET S
  OBVIOUS
<1> HIDE DEF lo, hi
<1>7. SumFunctionOnSet(fun, S) \in Int /\ lo[S] <= SumFunctionOnSet(fun, S)
  BY <1>3, <1>4, <1>5, SumBetween
<1> QED
  BY <1>1, <1>6, <1>7

(* Terms that are charged to events, none to the same as another.          *)
LEMMA SumCharged ==
  ASSUME NEW fun, NEW S, IsFiniteSet(S), NEW D, IsFiniteSet(D), NEW ev \in [S -> SUBSET D],
         \A x, y \in S : x # y => ev[x] \cap ev[y] = {},
         NEW K \in Nat, \A x \in S : fun[x] \in Nat /\ fun[x] <= K * Cardinality(ev[x])
  PROVE  SumFunctionOnSet(fun, S) \in Nat /\ SumFunctionOnSet(fun, S) <= K * Cardinality(D)
<1> DEFINE U(s) == UNION {ev[x] : x \in s}
           lo == [s \in SUBSET S |-> 0]
           hi == [s \in SUBSET S |-> K * Cardinality(U(s))]
<1>1. \A s \in SUBSET S : U(s) \in SUBSET D /\ IsFiniteSet(U(s)) /\ Cardinality(U(s)) \in Nat
  <2>1. \A s \in SUBSET S : U(s) \in SUBSET D
    OBVIOUS
  <2> HIDE DEF U
  <2> QED
    BY <2>1, FS_Subset, FS_CardinalityType
<1>2. \A x \in S : IsFiniteSet(ev[x]) /\ Cardinality(ev[x]) \in Nat
  BY FS_Subset, FS_CardinalityType
<1>3. lo \in [SUBSET S -> Int] /\ hi \in [SUBSET S -> Int]
  <2> HIDE DEF U
  <2>1. \A n \in Nat : K * n \in Int
    OBVIOUS
  <2> QED
    BY <1>1, <2>1
<1>4. lo[{}] <= 0 /\ 0 <= hi[{}]
  <2>1. U({}) = {}
    OBVIOUS
  <2> HIDE DEF U
  <2>2. lo[{}] = 0 /\ hi[{}] = K * Cardinality(U({}))
    OBVIOUS
  <2>3. Cardinality(U({})) = 0
    BY <2>1, FS_EmptySet
  <2> HIDE DEF lo, hi
  <2> QED
    BY <2>2, <2>3
<1>5. ASSUME NEW s \in SUBSET S, NEW x \in s
      PROVE  lo[s] <= fun[x] + lo[s \ {x}] /\ fun[x] + hi[s \ {x}] <= hi[s]
  <2> DEFINE r == s \ {x}
             A == U(r)
             m == Cardinality(A)
             n == Cardinality(ev[x])
  <2>1. U(s) = ev[x] \cup A
    OBVIOUS
  <2>2. ev[x] \cap A = {}
    OBVIOUS
  <2>3. r \in SUBSET S /\ x \in S
    OBVIOUS
  <2> HIDE DEF U
  <2>4. m \in Nat /\ n \in Nat /\ fun[x] \in Nat /\ fun[x] <= K * n
    BY <2>3, <1>1, <1>2
  <2>5. Cardinality(U(s)) = n + m
    <3>1. IsFiniteSet(ev[x]) /\ IsFiniteSet(A)
      BY <2>3, <1>1, <1>2
    <3>2. Cardinality(ev[x] \cup A) = Cardinality(ev[x]) + Cardinality(A) - Cardinality(ev[x] \cap A)
      BY <3>1, FS_Union
    <3>3. Cardinality(ev[x] \cap A) = 0
      BY <2>2, FS_EmptySet
    <3> QED
      BY <3>2, <3>3, <2>1, <2>4
  <2>6. lo[s] = 0 /\ lo[s \ {x}] = 0 /\ hi[s] = K * Cardinality(U(s)) /\ hi[s \ {x}] = K * m
    BY <2>3
  <2> HIDE DEF lo, hi, m, n, r
  <2>7. K * (n + m) = K * n + K * m /\ K * n \in Nat /\ K * m \in Nat
    BY <2>4
  <2> QED
    BY <2>4, <2>5, <2>6, <2>7
<1>6. lo[S] = 0 /\ hi[S] = K * Cardinality(U(S))
  OBVIOUS
<1>7. Cardinality(U(S)) \in Nat /\ Cardinality(U(S)) <= Cardinality(D) /\ Cardinality(D) \in Nat
  <2> HIDE DEF U
  <2>1. U(S) \subseteq D
    BY <1>1
  <2> QED
    BY <2>1, <1>1, FS_Subset, FS_CardinalityType
<1> HIDE DEF lo, hi, U
<1>8. /\ SumFunctionOnSet(fun, S) \in Int
      /\ lo[S] <= SumFunctionOnSet(fun, S) /\ SumFunctionOnSet(fun, S) <= hi[S]
  <2>1. \A x \in S : fun[x] \in Int
    OBVIOUS
  <2> QED
    BY <2>1, <1>3, <1>4, <1>5, SumBetween
<1>9. \A a, b \in Nat : a <= b => K * a <= K * b /\ K * a \in Nat /\ K * b \in Nat
  OBVIOUS
<1> QED
  BY <1>6, <1>7, <1>8, <1>9

--------------------------------------------------------------------------------
(* At worst every byte is an escape.                                       *)
LEMMA GainAtLeast ==
  ASSUME NEW t, Agrees(t), NEW lines, SmallSample(lines), NEW codes, CodedLines(t, lines, codes)
  PROVE  GainOf(t, codes) \in Int /\ GainOf(t, codes) >= - SampleMaxSize
<1> DEFINE saved(c) == Len(SymbolOf(t, c)) - (IF isEscapeCode(c) THEN 2 ELSE 1)
           f == [x \in Places(codes) |-> saved(codes[x[1]][x[2]])]
<1>1. PICK at : LaidOut(t, lines, codes, at)
  BY Layout
<1>2. GainOf(t, codes) = SumFunctionOnSet(f, Places(codes))
  BY Zenon DEF GainOf
<1>3. ASSUME NEW x \in Places(codes) PROVE f[x] \in Int /\ f[x] >= -1
  <2>1. f[x] = saved(CodeIn(codes, x))
    BY DEF CodeIn
  <2>2. SizeIn(t, codes, x) \in Nat /\ SizeIn(t, codes, x) >= 1
    BY <1>1 DEF LaidOut, StandsAt, CodeThere, SizeIn
  <2> HIDE DEF f
  <2> QED
    BY <2>1, <2>2 DEF SizeIn
<1> HIDE DEF f
<1>4. IsFiniteSet(Places(codes)) /\ Cardinality(Places(codes)) <= MostBytes
  BY SinglesTallied
<1>5. Cardinality(Places(codes)) \in Nat
  BY <1>4, FS_CardinalityType
<1>6. GainOf(t, codes) \in Int /\ GainOf(t, codes) >= - Cardinality(Places(codes))
  BY <1>2, <1>3, <1>4, SumAtLeast
<1> QED
  BY <1>4, <1>5, <1>6, Sizes DEF MostBytes

--------------------------------------------------------------------------------
(* Good symbols and tables.                                                *)
NoneIn(t, s) == Len(s) >= 2 => \A i \in 1 .. Len(s) : ~ Life!IsTerminator(t, s[i])

(* A: the symbols that a table may have.                                   *)
GoodSymbol(A, t, s) == NoneIn(t, s) /\ (s # <<t.terminator>> => s \in A)

TableOk(A, t) == Ready(t) /\ \A s \in Range(t.symbols) : GoodSymbol(A, t, s)

SameTerminator(t, u) == t.terminator = u.terminator /\ t.zeroTerminated = u.zeroTerminated

(* One set of symbols, or a larger one.                                    *)
LEMMA MoreAllowed ==
  ASSUME NEW t, NEW A, NEW B, TableOk(A, t), \A s \in Symbol : s \in A => s \in B
  PROVE  TableOk(B, t)
<1>1. \A s \in Range(t.symbols) : s \in Symbol
  BY DEF TableOk, Ready, Agrees, Shape, Range
<1> QED
  BY <1>1 DEF TableOk, GoodSymbol

(* What a slot holds after q of the tables tr (InSlot), a symbol that an   *)
(* overflown pair leads to (Overflown), and what a table may have in it    *)
(* in a round (SymbolsOccur).                                              *)
Slot(tr, q, code) ==
  LET filled == {r \in 1 .. q : code < CodeBase + NSymbols(tr[r].table)}
  IN  IF isEscapeCode(code) THEN <<code>>
      ELSE IF filled = {} THEN <<0>>
      ELSE SymbolOf(tr[Max(filled)].table, code)

Over(tr, s) ==
  \E q \in DOMAIN tr : \E p \in DOMAIN tr[q].pairs :
    /\ p[2] % 2 = 0 /\ tr[q].pairs[p] > PairLimit
    /\ s = Concat(SymbolOf(tr[q].table, p[1]), Slot(tr, q, p[2] + 1))

Allowed(r, lines, tr) == {s \in Symbol : OccursIn(lines, s) \/ (r < 6 /\ Over(tr, s))}

(* The tables so far, all with the terminator of t.                        *)
Recorded(tr, t) ==
  /\ Len(tr) \in Nat /\ tr = [k \in 1 .. Len(tr) |-> tr[k]]
  /\ \A k \in 1 .. Len(tr) : TableOk(Symbol, tr[k].table) /\ SameTerminator(tr[k].table, t)

(* The latest of them is t, with the counts d.                             *)
Latest(tr, t, d) ==
  Recorded(tr, t) /\ Len(tr) >= 1 /\ tr[Len(tr)].table = t /\ tr[Len(tr)].pairs = d

(* The code whose counter is set by makeTable.                             *)
TermCode(t) == IF NSymbols(t) > 0 THEN CodeBase ELSE t.terminator

LEMMA TerminatorIs ==
  ASSUME NEW t, Ready(t), NEW c
  PROVE  /\ ValidCode(t, TermCode(t)) /\ SymbolOf(t, TermCode(t)) = <<t.terminator>>
         /\ DOMAIN WithTerminator(t, c) = DOMAIN c \cup {TermCode(t)}
         /\ WithTerminator(t, c)[TermCode(t)] = TerminatorCount
         /\ \A p \in DOMAIN c : p # TermCode(t) => WithTerminator(t, c)[p] = c[p]
<1>1. Agrees(t) /\ t.terminator \in Byte /\ (t.symbols # <<>> => t.symbols[1] = <<t.terminator>>)
  BY DEF Ready, Terminated
<1>2. /\ DOMAIN WithTerminator(t, c) = DOMAIN c \cup {TermCode(t)}
      /\ WithTerminator(t, c)[TermCode(t)] = TerminatorCount
      /\ \A p \in DOMAIN c : p # TermCode(t) => WithTerminator(t, c)[p] = c[p]
  <2> DEFINE f(z) == [p \in DOMAIN c \cup {z} |-> IF p = z THEN TerminatorCount ELSE c[p]]
  <2>1. WithTerminator(t, c) = f(TermCode(t))
    BY Zenon DEF WithTerminator, TermCode
  <2>2. ASSUME NEW z PROVE /\ DOMAIN f(z) = DOMAIN c \cup {z} /\ f(z)[z] = TerminatorCount
                           /\ \A p \in DOMAIN c : p # z => f(z)[p] = c[p]
    OBVIOUS
  <2> HIDE DEF f
  <2> QED
    BY <2>1, <2>2
<1>3. CASE NSymbols(t) > 0
  <2>1. 1 \in DOMAIN t.symbols /\ t.symbols # <<>>
    BY <1>1, <1>3 DEF Agrees, Shape, NSymbols
  <2>2. TermCode(t) = CodeOf(1)
    BY <1>3, TableAssumption DEF TermCode, CodeOf
  <2>3. ValidCode(t, TermCode(t))
    BY <2>1, <2>2 DEF ValidCode
  <2>4. SymbolOf(t, TermCode(t)) = t.symbols[1]
    BY <1>1, <2>1, <2>2, <2>3, CodeSymbol
  <2> QED
    BY <1>1, <1>2, <2>1, <2>3, <2>4
<1>4. CASE ~ (NSymbols(t) > 0)
  <2>1. TermCode(t) = t.terminator /\ TermCode(t) \in Byte
    BY <1>1, <1>4 DEF TermCode
  <2>2. ValidCode(t, TermCode(t))
    BY <2>1 DEF ValidCode
  <2>3. SymbolOf(t, TermCode(t)) = <<TermCode(t)>>
    BY <1>1, <2>1, <2>2, CodeSymbol
  <2> QED
    BY <1>2, <2>1, <2>2, <2>3
<1> QED
  BY <1>3, <1>4

(* What a code stands for has no terminator in it.                         *)
LEMMA CodeGood ==
  ASSUME NEW A, NEW t, TableOk(A, t), NEW c, ValidCode(t, c)
  PROVE  SymbolOf(t, c) \in Symbol /\ NoneIn(t, SymbolOf(t, c))
<1> DEFINE s == SymbolOf(t, c)
<1>1. Agrees(t) /\ \A x \in Range(t.symbols) : NoneIn(t, x)
  BY DEF TableOk, Ready, GoodSymbol
<1>2. s \in Symbol /\ (s \in Range(t.symbols) \/ s = <<c>>)
  BY <1>1, CodeSymbol
<1>3. s = <<c>> => Len(s) = 1
  OBVIOUS
<1> HIDE DEF s
<1>4. s = <<c>> => NoneIn(t, s)
  BY <1>3 DEF NoneIn
<1> QED
  BY <1>1, <1>2, <1>4 DEF s

(* The largest of some numbers.                                            *)
LEMMA LatestFilled ==
  ASSUME NEW n \in Nat, NEW S \in SUBSET (1 .. n), S # {}
  PROVE  Max(S) \in S /\ \A x \in S : Max(S) >= x
<1> DEFINE T == {n - x : x \in S}
<1>0. \A x \in S : x \in Int /\ n - x \in Nat
  OBVIOUS
<1>1. T \in SUBSET Nat /\ T # {}
  BY <1>0
<1>2. PICK m \in T : \A k \in T : m <= k
  BY <1>1, LeastNat
<1>3. n - m \in S /\ \A x \in S : n - m >= x
  BY <1>0, <1>2
<1>4. \E y \in S : \A x \in S : y >= x
  BY <1>3
<1> QED
  BY <1>4 DEF Max

(* A code of a symbol by its number.                                       *)
LEMMA SlotCode ==
  ASSUME NEW u, TableOk(Symbol, u), NEW code \in Nat, ~ isEscapeCode(code), code < CodeBase + NSymbols(u)
  PROVE  ValidCode(u, code)
<1> DEFINE i == code - CodeBase + 1
<1>1. NSymbols(u) \in Nat /\ DOMAIN u.symbols = 1 .. NSymbols(u) /\ CodeBase \in Nat
  BY TableAssumption DEF TableOk, Ready, Agrees, Shape, NSymbols
<1>2. i \in DOMAIN u.symbols /\ code = CodeOf(i)
  BY <1>1 DEF CodeOf, isEscapeCode
<1> QED
  BY <1>2 DEF ValidCode

(* The code after an even one, if it is below the symbols, is a byte's.    *)
LEMMA EvenEscape ==
  ASSUME NEW t, Agrees(t), NEW c \in Nat, ValidCode(t, c), c % 2 = 0, isEscapeCode(c + 1)
  PROVE  c + 1 \in Byte
<1>1. CodeBase \in Nat /\ c + 1 < CodeBase
  BY TableAssumption DEF isEscapeCode
<1>2. ASSUME NEW i \in DOMAIN t.symbols, c = CodeOf(i) PROVE FALSE
  <2>1. i \in Nat /\ i >= 1
    BY DEF Agrees, Shape
  <2> QED
    BY <2>1, <1>1, <1>2 DEF CodeOf
<1>3. c \in Byte
  BY <1>2 DEF ValidCode
<1> QED
  BY <1>3, SearchAssumption

(* A slot that once had no symbol, or has one of an earlier table.         *)
LEMMA SlotGood ==
  ASSUME NEW t, NEW tr, Recorded(tr, t), NEW code \in Nat, isEscapeCode(code) => code \in Byte
  PROVE  /\ Slot(tr, Len(tr), code) \in Symbol /\ NoneIn(t, Slot(tr, Len(tr), code))
<1> DEFINE filled == {r \in 1 .. Len(tr) : code < CodeBase + NSymbols(tr[r].table)}
           s == Slot(tr, Len(tr), code)
<1>1. s = IF isEscapeCode(code) THEN <<code>>
          ELSE IF filled = {} THEN <<0>>
          ELSE SymbolOf(tr[Max(filled)].table, code)
  BY DEF Slot
<1>2. \A b \in Byte : <<b>> \in Symbol /\ NoneIn(t, <<b>>)
  <2> TAKE b \in Byte
  <2>1. <<b>> \in [1 .. 1 -> Byte] /\ 1 \in 1 .. MaxLength
    BY TableAssumption
  <2>2. ~ (Len(<<b>>) >= 2)
    OBVIOUS
  <2> QED
    BY <2>1, <2>2 DEF Symbol, NoneIn
<1> HIDE DEF s
<1>3. CASE isEscapeCode(code)
  BY <1>1, <1>2, <1>3 DEF s
<1>4. CASE ~ isEscapeCode(code) /\ filled = {}
  <2>1. s = <<0>>
    BY <1>1, <1>4
  <2> QED
    BY <2>1, <1>2, TableAssumption DEF s
<1>5. CASE ~ isEscapeCode(code) /\ filled # {}
  <2> DEFINE r == Max(filled)
             u == tr[r].table
  <2>0. s = SymbolOf(u, code)
    BY <1>1, <1>5
  <2>1. r \in filled
    <3>1. filled \in SUBSET (1 .. Len(tr)) /\ filled # {} /\ Len(tr) \in Nat
      BY <1>5 DEF Recorded
    <3> HIDE DEF filled
    <3> QED
      BY <3>1, LatestFilled
  <2>2. r \in 1 .. Len(tr) /\ code < CodeBase + NSymbols(u)
    BY <2>1
  <2> HIDE DEF r, u
  <2>3. TableOk(Symbol, u) /\ SameTerminator(u, t)
    BY <2>2 DEF Recorded, u
  <2>4. ValidCode(u, code)
    BY <2>2, <2>3, <1>5, SlotCode
  <2>5. s \in Symbol /\ NoneIn(u, s)
    BY <2>0, <2>3, <2>4, CodeGood
  <2>6. \A b : Life!IsTerminator(u, b) <=> Life!IsTerminator(t, b)
    BY <2>3 DEF Life!IsTerminator, SameTerminator
  <2> QED
    BY <2>5, <2>6 DEF NoneIn, s
<1> QED
  BY <1>3, <1>4, <1>5

(* The slots of the latest table are its symbols.                          *)
LEMMA SlotLatest ==
  ASSUME NEW t, NEW tr, NEW d, Latest(tr, t, d), Agrees(t), NEW code, ValidCode(t, code)
  PROVE  Slot(tr, Len(tr), code) = SymbolOf(t, code)
<1> DEFINE filled == {r \in 1 .. Len(tr) : code < CodeBase + NSymbols(tr[r].table)}
<1>1. Len(tr) \in Nat /\ Len(tr) >= 1 /\ tr[Len(tr)].table = t
  BY DEF Latest, Recorded
<1>2. CASE code \in Byte
  <2>1. isEscapeCode(code)
    BY <1>2, TableAssumption DEF isEscapeCode
  <2> QED
    BY <2>1, <1>2, CodeSymbol DEF Slot
<1>3. CASE \E i \in DOMAIN t.symbols : code = CodeOf(i)
  <2>1. PICK i \in DOMAIN t.symbols : code = CodeOf(i)
    BY <1>3
  <2>2. i \in 1 .. NSymbols(t) /\ NSymbols(t) \in Nat /\ CodeBase \in Nat
    BY TableAssumption DEF Agrees, Shape, NSymbols
  <2>3. ~ isEscapeCode(code) /\ code < CodeBase + NSymbols(t)
    BY <2>1, <2>2 DEF CodeOf, isEscapeCode
  <2>4. Len(tr) \in filled
    BY <1>1, <2>3
  <2>5. Max(filled) = Len(tr)
    <3>1. Max(filled) \in filled
      BY <2>4, <1>1, LatestFilled
    <3>2. Max(filled) >= Len(tr)
      BY <2>4, <1>1, LatestFilled
    <3>3. Max(filled) \in 1 .. Len(tr)
      BY <3>1
    <3> HIDE DEF filled
    <3> QED
      BY <3>2, <3>3, <1>1
  <2>6. filled # {}
    BY <2>4
  <2>7. Slot(tr, Len(tr), code) = SymbolOf(tr[Max(filled)].table, code)
    BY <2>3, <2>6 DEF Slot
  <2> HIDE DEF filled
  <2> QED
    BY <2>5, <2>7, <1>1
<1> QED
  BY <1>2, <1>3 DEF ValidCode

(* Two symbols joined.                                                     *)
LEMMA JoinedShape ==
  ASSUME NEW t, NEW a \in Symbol, NEW b \in Symbol, NoneIn(t, a), NoneIn(t, b),
         ~ Life!IsTerminator(t, Head(a)), ~ Life!IsTerminator(t, Head(b))
  PROVE  LET s == Concat(a, b)
         IN  /\ s \in Symbol /\ Len(s) >= 2 /\ NoneIn(t, s)
             /\ \A x \in Seq(Byte) : PieceOf(a \o b, x) => PieceOf(s, x)
<1> DEFINE n == Min({MaxLength, Len(a) + Len(b)})
           ab == a \o b
           s == SubSeq(ab, 1, n)
<1>2. /\ a \in Seq(Byte) /\ Len(a) \in Nat /\ Len(a) >= 1
      /\ b \in Seq(Byte) /\ Len(b) \in Nat /\ Len(b) >= 1
      /\ MaxLength \in Nat /\ MaxLength >= 2
  BY SymbolIsSeq, TableAssumption
<1>3. Concat(a, b) = s
  BY DEF Concat
<1>4. Head(a) = a[1] /\ Head(b) = b[1]
  <2>1. \A x \in Seq(Byte) : Len(x) >= 1 => Head(x) = x[1]
    OBVIOUS
  <2> HIDE DEF s, ab, n
  <2> QED
    BY <1>2, <2>1
<1>6. /\ n \in Nat /\ n >= 2 /\ n <= MaxLength /\ n <= Len(a) + Len(b)
  <2> DEFINE S == {MaxLength, Len(a) + Len(b)}
  <2>1. S \in SUBSET Nat /\ S # {} /\ \A k \in S : k >= 2
    BY <1>2
  <2>2. \E m \in S : \A k \in S : m <= k
    BY <2>1, LeastNat
  <2>3. Min(S) \in S /\ \A k \in S : Min(S) <= k
    <3> HIDE DEF S
    <3> QED
      BY <2>2 DEF Min
  <2>4. n = Min(S) /\ MaxLength \in S /\ Len(a) + Len(b) \in S
    OBVIOUS
  <2> HIDE DEF n, S
  <2> QED
    BY <2>1, <2>3, <2>4
<1> HIDE DEF n
<1>7. Concatenates(Byte, a, b, ab)
  BY <1>2, ConcatParts
<1> HIDE DEF ab
<1>8. /\ ab \in Seq(Byte) /\ Len(ab) = Len(a) + Len(b)
      /\ \A j \in 1 .. Len(a) : ab[j] = a[j]
      /\ \A k \in 1 .. Len(b) : ab[Len(a) + k] = b[k]
  BY <1>7 DEF Concatenates
<1>9. s \in Seq(Byte) /\ Len(s) = n /\ \A i \in 1 .. n : s[i] = ab[i]
  BY <1>2, <1>6, <1>8
<1>10. ASSUME NEW x \in Seq(Byte), PieceOf(ab, x) PROVE PieceOf(s, x)
  <2>1. n >= 1 /\ n <= Len(ab)
    BY <1>6, <1>8
  <2> QED
    BY <2>1, <1>6, <1>8, <1>10, PieceCut
<1> HIDE DEF s
<1>11. s \in Symbol
  <2>1. s \in [1 .. n -> Byte] /\ n \in 1 .. MaxLength
    BY <1>2, <1>6, <1>9
  <2> QED
    BY <2>1 DEF Symbol
<1>12. \A i \in 1 .. Len(a) : ~ Life!IsTerminator(t, a[i])
  <2>1. CASE Len(a) >= 2
    BY <2>1 DEF NoneIn
  <2>2. CASE ~ (Len(a) >= 2)
    <3>1. \A i \in 1 .. Len(a) : i = 1
      BY <2>2, <1>2
    <3> QED
      BY <3>1, <1>4
  <2> QED
    BY <2>1, <2>2
<1>13. \A i \in 1 .. Len(b) : ~ Life!IsTerminator(t, b[i])
  <2>1. CASE Len(b) >= 2
    BY <2>1 DEF NoneIn
  <2>2. CASE ~ (Len(b) >= 2)
    <3>1. \A i \in 1 .. Len(b) : i = 1
      BY <2>2, <1>2
    <3> QED
      BY <3>1, <1>4
  <2> QED
    BY <2>1, <2>2
<1>14. ASSUME NEW i \in 1 .. Len(s) PROVE ~ Life!IsTerminator(t, s[i])
  <2>1. s[i] = ab[i] /\ i \in Nat /\ i >= 1 /\ i <= Len(a) + Len(b)
    BY <1>2, <1>6, <1>9
  <2>2. CASE i <= Len(a)
    <3>1. i \in 1 .. Len(a)
      BY <2>1, <2>2, <1>2
    <3> QED
      BY <3>1, <2>1, <1>8, <1>12
  <2>3. CASE ~ (i <= Len(a))
    <3> DEFINE k == i - Len(a)
    <3>1. k \in 1 .. Len(b) /\ Len(a) + k = i
      BY <2>1, <2>3, <1>2
    <3> HIDE DEF k
    <3>2. ab[i] = b[k]
      BY <3>1, <1>8
    <3> QED
      BY <3>1, <3>2, <2>1, <1>13
  <2> QED
    BY <2>2, <2>3
<1>15. NoneIn(t, s) /\ Len(s) >= 2
  BY <1>6, <1>9, <1>14 DEF NoneIn
<1> QED
  BY <1>3, <1>10, <1>11, <1>15 DEF ab

(* What a pair that is read is joined to: a piece, or what an overflown    *)
(* pair leads to.                                                          *)
LEMMA PairsCounted ==
  ASSUME NEW lines, NEW t, Agrees(t), NEW d, PairsOk(lines, t, d)
  PROVE  PairCounts(d)
<1>1. PICK g : TalliedBy(d, g)
  BY DEF PairsOk, Tallied
<1>2. IsFiniteSet(DOMAIN g) /\ \A q \in DOMAIN d : d[q] = Times(g, q)
  BY <1>1 DEF TalliedBy, BagOf, Times
<1>3. \A q \in DOMAIN d : d[q] \in Nat
  BY <1>2, TimesType
<1>4. \A q \in DOMAIN d : q = <<q[1], q[2]>> /\ ValidCode(t, q[2])
  BY DEF PairsOk, PairOk
<1>5. \A q \in DOMAIN d : q[2] \in Nat
  BY <1>4, CodeSymbol
<1> QED
  BY <1>3, <1>4, <1>5 DEF PairCounts

LEMMA JoinedGood ==
  ASSUME NEW lines \in Seq(Seq(Byte)), NEW A, NEW t, TableOk(A, t), NEW d, PairsOk(lines, t, d),
         NEW tr, Latest(tr, t, d), NEW r, r < 6, NEW p \in DOMAIN Count2Read(d),
         ~ Life!IsTerminator(t, Head(SymbolOf(t, p[1]))),
         ~ Life!IsTerminator(t, Head(Slot(tr, Len(tr), p[2])))
  PROVE  LET s == Concat(SymbolOf(t, p[1]), Slot(tr, Len(tr), p[2]))
         IN  s \in Symbol /\ Len(s) >= 2 /\ GoodSymbol(Allowed(r, lines, tr), t, s)
<1> DEFINE a == SymbolOf(t, p[1])
           b == Slot(tr, Len(tr), p[2])
           s == Concat(a, b)
<1>0. Agrees(t) /\ Recorded(tr, t)
  BY DEF TableOk, Ready, Latest
<1>1. ASSUME p \in DOMAIN d
      PROVE  s \in Symbol /\ Len(s) >= 2 /\ GoodSymbol(Allowed(r, lines, tr), t, s)
  <2>1. PairOk(lines, t, p)
    BY <1>1 DEF PairsOk
  <2>2. b = SymbolOf(t, p[2])
    BY <2>1, <1>0, SlotLatest DEF PairOk
  <2>3. a \in Symbol /\ NoneIn(t, a) /\ b \in Symbol /\ NoneIn(t, b)
    BY <2>1, <2>2, CodeGood DEF PairOk
  <2>4. \E i \in DOMAIN lines : PieceOf(a \o b, lines[i])
    BY <2>1, <2>2 DEF PairOk, OccursIn
  <2> HIDE DEF a, b
  <2>5. /\ s \in Symbol /\ Len(s) >= 2 /\ NoneIn(t, s)
        /\ \A x \in Seq(Byte) : PieceOf(a \o b, x) => PieceOf(s, x)
    BY <2>3, JoinedShape DEF a, b
  <2> HIDE DEF s
  <2>6. OccursIn(lines, s)
    BY <2>4, <2>5, ElementType DEF OccursIn
  <2> QED
    BY <2>5, <2>6 DEF GoodSymbol, Allowed
<1>2. ASSUME NEW m \in DOMAIN d, p = OddAfter(m), m[2] % 2 = 0, d[m] > PairLimit
      PROVE  s \in Symbol /\ Len(s) >= 2 /\ GoodSymbol(Allowed(r, lines, tr), t, s)
  <2>1. p[1] = m[1] /\ p[2] = m[2] + 1
    BY <1>2 DEF OddAfter
  <2>2. ValidCode(t, m[1]) /\ ValidCode(t, m[2]) /\ m[2] \in Nat
    BY <1>0, CodeSymbol DEF PairsOk, PairOk
  <2>3. isEscapeCode(p[2]) => p[2] \in Byte
    BY <1>0, <1>2, <2>1, <2>2, EvenEscape
  <2>4. b \in Symbol /\ NoneIn(t, b)
    BY <1>0, <2>1, <2>2, <2>3, SlotGood
  <2>5. a \in Symbol /\ NoneIn(t, a)
    BY <2>1, <2>2, CodeGood
  <2>6. s \in Symbol /\ Len(s) >= 2 /\ NoneIn(t, s)
    BY <2>4, <2>5, JoinedShape
  <2>7. Over(tr, s)
    <3>1. /\ Len(tr) \in DOMAIN tr /\ tr[Len(tr)].table = t /\ tr[Len(tr)].pairs = d
      BY DEF Latest, Recorded
    <3>2. s = Concat(SymbolOf(tr[Len(tr)].table, m[1]), Slot(tr, Len(tr), m[2] + 1))
      BY <2>1, <3>1
    <3> HIDE DEF s
    <3> QED
      BY <3>1, <3>2, <1>2 DEF Over
  <2> HIDE DEF s
  <2> QED
    BY <2>6, <2>7 DEF GoodSymbol, Allowed
<1>3. PairCounts(d)
  BY <1>0, PairsCounted
<1>4. p \in DOMAIN d \/ \E m \in DOMAIN d : p = OddAfter(m) /\ m[2] % 2 = 0 /\ d[m] > PairLimit
  BY <1>3, ReadOf
<1> HIDE DEF a, b, s
<1>5. s \in Symbol /\ Len(s) >= 2 /\ GoodSymbol(Allowed(r, lines, tr), t, s)
  BY <1>1, <1>2, <1>4
<1> QED
  BY <1>5 DEF s, a, b

--------------------------------------------------------------------------------
(* What the scan of the counters proposes.                                 *)
Proposed(t, c1, c2, frac) ==
  Singles(t, c1) \cup (IF frac < 128 THEN Pairs(t, c1, c2) ELSE {})

(* The events that the counters of single codes and of pairs count.        *)
Events(f, g) ==
  [e \in ({1} \X DOMAIN f) \cup ({2} \X DOMAIN g) |-> IF e[1] = 1 THEN <<f[e[2]]>> ELSE g[e[2]]]

EventsOf(h, code) == {e \in DOMAIN h : h[e] = code}

(* A counted code is worth no more than Weight for each of its events.     *)
Weight(s) == IF Len(s) = 1 THEN 8 ELSE MaxLength

LEMMA WeightTimes ==
  ASSUME NEW s, Len(s) \in Nat, Len(s) >= 1, Len(s) <= MaxLength,
         NEW k \in Nat, NEW n \in Nat, k <= n
  PROVE  /\ Len(s) > 1 => k * Len(s) <= Weight(s) * n
         /\ Len(s) >= 2 => k * Len(s) <= Weight(s) * n
         /\ ~ (Len(s) > 1) => (8 * k) * Len(s) <= Weight(s) * n
<1>0. MaxLength \in Nat
  BY TableAssumption
<1>1. CASE Len(s) = 1
  <2>1. Weight(s) = 8
    BY <1>1 DEF Weight
  <2> QED
    BY <1>1, <2>1
<1>2. CASE Len(s) # 1
  <2>1. Weight(s) = MaxLength /\ Len(s) > 1
    BY <1>2 DEF Weight
  <2>2. \A i, m, j, l \in Nat : i <= m /\ j <= l => i * j <= l * m
    <3> TAKE i, m, j, l \in Nat
    <3> HAVE i <= m /\ j <= l
    <3>1. i * j <= m * j
      OBVIOUS
    <3>2. m * j <= m * l
      OBVIOUS
    <3> QED
      BY <3>1, <3>2
  <2>3. k * Len(s) <= MaxLength * n
    BY <2>2, <1>0
  <2> QED
    BY <2>1, <2>3
<1> QED
  BY <1>1, <1>2

ProposalOk(A, t, h, x) ==
  /\ x.symbol \in Symbol /\ GoodSymbol(A, t, x.symbol) /\ x.count \in Nat
  /\ x.code \in Range(h) \cup {<<TermCode(t)>>}
  /\ x.symbol # <<t.terminator>> =>
       x.count * Len(x.symbol) <= Weight(x.symbol) * Cardinality(EventsOf(h, x.code))

(* The events of a code are as many as its count.                          *)
LEMMA EventsCount ==
  ASSUME NEW f, IsFiniteSet(DOMAIN f), NEW g, IsFiniteSet(DOMAIN g)
  PROVE  LET h == Events(f, g)
         IN  /\ IsFiniteSet(DOMAIN h)
             /\ Cardinality(DOMAIN h) = Cardinality(DOMAIN f) + Cardinality(DOMAIN g)
             /\ \A code : EventsOf(h, code) \in SUBSET DOMAIN h
                          /\ Cardinality(EventsOf(h, code)) \in Nat
             /\ \A p \in Range(f) : <<p>> \in Range(h) /\ Times(f, p) <= Cardinality(EventsOf(h, <<p>>))
             /\ \A p \in Range(g) : p \in Range(h) /\ Times(g, p) <= Cardinality(EventsOf(h, p))
<1> DEFINE h == Events(f, g)
           A == {1} \X DOMAIN f
           B == {2} \X DOMAIN g
<1>1. /\ IsFiniteSet(A) /\ Cardinality(A) = Cardinality(DOMAIN f)
      /\ IsFiniteSet(B) /\ Cardinality(B) = Cardinality(DOMAIN g)
  BY CopyOf
<1>2. DOMAIN h = A \cup B /\ A \cap B = {}
  BY DEF Events
<1>3. /\ \A x \in DOMAIN f : <<1, x>> \in DOMAIN h /\ h[<<1, x>>] = <<f[x]>>
      /\ \A x \in DOMAIN g : <<2, x>> \in DOMAIN h /\ h[<<2, x>>] = g[x]
  BY DEF Events
<1> HIDE DEF h
<1>4. IsFiniteSet(DOMAIN h) /\ Cardinality(DOMAIN h) = Cardinality(DOMAIN f) + Cardinality(DOMAIN g)
  <2> HIDE DEF A, B
  <2>1. /\ IsFiniteSet(A \cup B)
        /\ Cardinality(A \cup B) = Cardinality(A) + Cardinality(B) - Cardinality(A \cap B)
    BY <1>1, FS_Union
  <2>2. Cardinality(A \cap B) = 0 /\ Cardinality(A) \in Nat /\ Cardinality(B) \in Nat
    BY <1>1, <1>2, FS_EmptySet, FS_CardinalityType
  <2> QED
    BY <2>1, <2>2, <1>1, <1>2
<1>5. \A code : EventsOf(h, code) \in SUBSET DOMAIN h /\ IsFiniteSet(EventsOf(h, code))
                /\ Cardinality(EventsOf(h, code)) \in Nat
  <2> TAKE code
  <2>1. EventsOf(h, code) \in SUBSET DOMAIN h
    BY DEF EventsOf
  <2> QED
    BY <2>1, <1>4, FS_Subset, FS_CardinalityType
<1>6. ASSUME NEW S, IsFiniteSet(S), NEW tag, NEW code, {tag} \X S \subseteq EventsOf(h, code)
      PROVE  Cardinality(S) <= Cardinality(EventsOf(h, code))
  <2>1. Cardinality({tag} \X S) = Cardinality(S)
    BY <1>6, CopyOf
  <2>2. Cardinality({tag} \X S) <= Cardinality(EventsOf(h, code))
    BY <1>5, <1>6, FS_Subset
  <2> QED
    BY <2>1, <2>2
<1>7. ASSUME NEW p \in Range(f)
      PROVE  <<p>> \in Range(h) /\ Times(f, p) <= Cardinality(EventsOf(h, <<p>>))
  <2> DEFINE S == {x \in DOMAIN f : f[x] = p}
  <2>1. IsFiniteSet(S)
    BY FS_Subset
  <2>2. {1} \X S \subseteq EventsOf(h, <<p>>)
    BY <1>3 DEF EventsOf
  <2>3. PICK x \in DOMAIN f : p = f[x]
    BY DEF Range
  <2>4. <<1, x>> \in DOMAIN h /\ h[<<1, x>>] = <<p>>
    BY <2>3, <1>3
  <2>5. <<p>> \in Range(h)
    BY <2>4, Zenon DEF Range
  <2> HIDE DEF S
  <2>6. Cardinality(S) <= Cardinality(EventsOf(h, <<p>>))
    BY <2>1, <2>2, <1>6
  <2> QED
    BY <2>5, <2>6 DEF Times, S
<1>8. ASSUME NEW p \in Range(g)
      PROVE  p \in Range(h) /\ Times(g, p) <= Cardinality(EventsOf(h, p))
  <2> DEFINE S == {x \in DOMAIN g : g[x] = p}
  <2>1. IsFiniteSet(S)
    BY FS_Subset
  <2>2. {2} \X S \subseteq EventsOf(h, p)
    BY <1>3 DEF EventsOf
  <2>3. PICK x \in DOMAIN g : p = g[x]
    BY DEF Range
  <2>4. <<2, x>> \in DOMAIN h /\ h[<<2, x>>] = p
    BY <2>3, <1>3
  <2>5. p \in Range(h)
    BY <2>4, Zenon DEF Range
  <2> HIDE DEF S
  <2>6. Cardinality(S) <= Cardinality(EventsOf(h, p))
    BY <2>1, <2>2, <1>6
  <2> QED
    BY <2>5, <2>6 DEF Times, S
<1> QED
  BY <1>4, <1>5, <1>7, <1>8 DEF h

(* Every proposal is good.                                                 *)
LEMMA SingleProposed ==
  ASSUME NEW lines, NEW A, NEW t, TableOk(Symbol, t), NEW c, CountsOk(lines, t, c),
         \A s \in Symbol : OccursIn(lines, s) => s \in A,
         NEW f, TalliedBy(c, f), NEW g, IsFiniteSet(DOMAIN g),
         NEW x \in Singles(t, WithTerminator(t, c))
  PROVE  ProposalOk(A, t, Events(f, g), x)
<1> DEFINE h == Events(f, g)
           w == WithTerminator(t, c)
<1>1. PICK p \in DOMAIN w : x = [code |-> <<p>>, symbol |-> SymbolOf(t, p),
                                 count |-> IF Longer(t, p) THEN w[p] ELSE 8 * w[p]]
  BY DEF Singles
<1>2. Ready(t) /\ TerminatorCount \in Nat
  BY SearchAssumption DEF TableOk
<1>3. DOMAIN w = DOMAIN c \cup {TermCode(t)}
  BY <1>2, TerminatorIs
<1>4. w[TermCode(t)] = TerminatorCount /\ \A q \in DOMAIN c : q # TermCode(t) => w[q] = c[q]
  BY <1>2, TerminatorIs
<1>5. IsFiniteSet(DOMAIN f) /\ DOMAIN c = Range(f) /\ \A q \in DOMAIN c : c[q] = Times(f, q)
  BY DEF TalliedBy, BagOf, Times
<1>6. \A q \in DOMAIN c : c[q] \in Nat
  BY <1>5, TimesType
<1>7. w[p] \in Nat
  BY <1>2, <1>3, <1>4, <1>6
<1>8. ValidCode(t, p)
  BY <1>2, <1>3, TerminatorIs DEF CountsOk
<1> DEFINE s == SymbolOf(t, p)
<1>9. s \in Symbol /\ NoneIn(t, s)
  BY <1>8, CodeGood
<1>10. s # <<t.terminator>> => p \in DOMAIN c /\ p # TermCode(t)
  BY <1>2, <1>3, TerminatorIs
<1>11. GoodSymbol(A, t, s)
  BY <1>9, <1>10 DEF GoodSymbol, CountsOk
<1>12. Len(s) \in Nat /\ Len(s) >= 1 /\ Len(s) <= MaxLength /\ MaxLength \in Nat
  BY <1>9, SymbolIsSeq, TableAssumption
<1>13. Longer(t, p) <=> Len(s) > 1
  BY DEF Longer
<1> HIDE DEF s, w
<1>14. /\ x.code = <<p>> /\ x.symbol = s
       /\ x.count = IF Len(s) > 1 THEN w[p] ELSE 8 * w[p]
  BY <1>1, <1>13 DEF s
<1>15. x.count \in Nat
  BY <1>7, <1>12, <1>14
<1>16. x.code \in Range(h) \cup {<<TermCode(t)>>}
  BY <1>3, <1>5, <1>14, EventsCount
<1>17. ASSUME s # <<t.terminator>>
       PROVE  x.count * Len(s) <= Weight(s) * Cardinality(EventsOf(h, <<p>>))
  <2> DEFINE n == Cardinality(EventsOf(h, <<p>>))
  <2>1. w[p] = Times(f, p) /\ p \in Range(f)
    BY <1>4, <1>5, <1>10, <1>17
  <2>2. w[p] <= n /\ n \in Nat
    BY <2>1, <1>5, EventsCount
  <2> HIDE DEF n, h
  <2>3. /\ Len(s) > 1 => w[p] * Len(s) <= Weight(s) * n
        /\ ~ (Len(s) > 1) => (8 * w[p]) * Len(s) <= Weight(s) * n
    BY <2>2, <1>7, <1>12, WeightTimes
  <2>4. CASE Len(s) > 1
    <3>1. x.count = w[p]
      BY <2>4, <1>14, Zenon
    <3> QED
      BY <3>1, <2>3, <2>4, Zenon DEF n
  <2>5. CASE ~ (Len(s) > 1)
    <3>1. x.count = 8 * w[p]
      BY <2>5, <1>14, Zenon
    <3> QED
      BY <3>1, <2>3, <2>5, Zenon DEF n
  <2> QED
    BY <2>4, <2>5, Zenon
<1>18. s # <<t.terminator>> => x.count * Len(s) <= Weight(s) * Cardinality(EventsOf(h, <<p>>))
  BY <1>17
<1> HIDE DEF h
<1> QED
  BY <1>9, <1>11, <1>14, <1>15, <1>16, <1>18 DEF ProposalOk, h

LEMMA PairsAre ==
  ASSUME NEW t, NEW c, NEW v, NEW x \in Pairs(t, c, v)
  PROVE  \E p \in DOMAIN v :
           /\ x = [code |-> p, symbol |-> Concat(SymbolOf(t, p[1]), InSlot(Len(trial), p[2])), count |-> v[p]]
           /\ ~ Life!IsTerminator(t, Head(SymbolOf(t, p[1])))
           /\ ~ Life!IsTerminator(t, Head(InSlot(Len(trial), p[2])))
<1> DEFINE slot(p) == InSlot(Len(trial), p[2])
           proposal(p) == [code |-> p, symbol |-> Concat(SymbolOf(t, p[1]), slot(p)), count |-> v[p]]
           joined(p) == /\ p[1] \in DOMAIN c /\ Len(SymbolOf(t, p[1])) < MaxLength
                        /\ ~ Life!IsTerminator(t, Head(SymbolOf(t, p[1])))
                        /\ ~ Life!IsTerminator(t, Head(slot(p)))
                        /\ p[2] = CodeBase + NSymbols(t) => EvenBefore(p) \notin DOMAIN v
<1>1. Pairs(t, c, v) = {proposal(p) : p \in {q \in DOMAIN v : joined(q)}}
  BY Zenon DEF Pairs
<1>2. PICK p \in DOMAIN v : x = proposal(p) /\ joined(p)
  <2> HIDE DEF proposal, joined
  <2> QED
    BY <1>1
<1> QED
  BY <1>2, Zenon

LEMMA PairProposed ==
  ASSUME NEW lines \in Seq(Seq(Byte)), NEW t, TableOk(Symbol, t), NEW c, NEW d, PairsOk(lines, t, d),
         Latest(trial, t, d), NEW r, r < 6,
         NEW f, IsFiniteSet(DOMAIN f), NEW g, TalliedBy(d, g),
         NEW x \in Pairs(t, c, Count2Read(d))
  PROVE  ProposalOk(Allowed(r, lines, trial), t, Events(f, Both(g, Shifted(g))), x)
<1> DEFINE b == Both(g, Shifted(g))
           h == Events(f, b)
           A == Allowed(r, lines, trial)
           v == Count2Read(d)
<1>1. PICK p \in DOMAIN v :
        /\ x = [code |-> p, symbol |-> Concat(SymbolOf(t, p[1]), Slot(trial, Len(trial), p[2])), count |-> v[p]]
        /\ ~ Life!IsTerminator(t, Head(SymbolOf(t, p[1])))
        /\ ~ Life!IsTerminator(t, Head(Slot(trial, Len(trial), p[2])))
  <2>1. \A i, k : InSlot(i, k) = Slot(trial, i, k)
    BY DEF InSlot, Slot
  <2>2. \E p \in DOMAIN v :
          /\ x = [code |-> p, symbol |-> Concat(SymbolOf(t, p[1]), InSlot(Len(trial), p[2])), count |-> v[p]]
          /\ ~ Life!IsTerminator(t, Head(SymbolOf(t, p[1])))
          /\ ~ Life!IsTerminator(t, Head(InSlot(Len(trial), p[2])))
    BY PairsAre, Zenon
  <2> QED
    BY <2>1, <2>2, Zenon
<1> DEFINE s == Concat(SymbolOf(t, p[1]), Slot(trial, Len(trial), p[2]))
           n == Cardinality(EventsOf(h, p))
<1>2. s \in Symbol /\ Len(s) >= 2 /\ GoodSymbol(A, t, s)
  BY <1>1, JoinedGood
<1>3. PairCounts(d)
  BY PairsCounted DEF TableOk, Ready
<1>4. Len(s) \in Nat /\ Len(s) >= 1 /\ Len(s) <= MaxLength
  BY <1>2, SymbolIsSeq, TableAssumption
<1>5. v[p] \in Nat /\ v[p] <= Times(b, p) /\ p \in Range(b)
  BY <1>1, <1>3, ReadEvents
<1>6. IsFiniteSet(DOMAIN b)
  BY SharedEvents DEF TalliedBy
<1> HIDE DEF b, v, s, A
<1>7. Times(b, p) <= n /\ n \in Nat /\ p \in Range(h) /\ Times(b, p) \in Nat
  BY <1>5, <1>6, EventsCount, TimesType
<1>8. x.code = p /\ x.symbol = s /\ x.count = v[p]
  BY <1>1 DEF s
<1> HIDE DEF n, h
<1>9. x.count * Len(s) <= Weight(s) * n
  <2>1. v[p] <= n
    BY <1>5, <1>7
  <2>2. v[p] * Len(s) <= Weight(s) * n
    BY <2>1, <1>2, <1>4, <1>5, <1>7, WeightTimes
  <2> QED
    BY <2>2, <1>8, Zenon
<1> QED
  BY <1>2, <1>5, <1>7, <1>8, <1>9 DEF ProposalOk, h, n, A, b

(* The proposals for a symbol and their gain.                              *)
Of(E, s)      == {x \in E : x.symbol = s}
GainFor(E, s) == SumFunctionOnSet([x \in Of(E, s) |-> x.count * Len(s)], Of(E, s))

(* All together cannot outweigh the terminator.                            *)
LEMMA WeightBound ==
  ASSUME NEW s, NEW n \in Nat, n <= 3 * MostBytes
  PROVE  Weight(s) \in Nat /\ Weight(s) * n < 8 * TerminatorCount
<1> DEFINE all == SampleTarget + SampleLine
<1>1. /\ all \in Nat /\ MostBytes = all - 1 /\ MostBytes \in Nat /\ MaxLength \in Nat /\ MaxLength >= 1
      /\ TerminatorCount \in Nat /\ TerminatorCount >= 3 * all /\ 8 * TerminatorCount >= 3 * (MaxLength * all)
  BY SearchAssumption, Sizes, TableAssumption DEF MostBytes
<1> HIDE DEF all
<1>2. \A w \in Nat : w * n <= w * (3 * MostBytes)
  <2>0. 3 * MostBytes \in Nat
    BY <1>1
  <2>1. \A w, m \in Nat : n <= m => w * n <= w * m
    OBVIOUS
  <2> QED
    BY <2>0, <2>1
<1>3. \A w \in Nat : w * (3 * (all - 1)) = 3 * (w * all) - 3 * w /\ w * all \in Nat
  BY <1>1
<1>4. CASE Len(s) = 1
  <2>1. Weight(s) = 8
    BY <1>4 DEF Weight
  <2> QED
    BY <2>1, <1>1
<1>5. CASE Len(s) # 1
  <2>1. Weight(s) = MaxLength
    BY <1>5 DEF Weight
  <2>2. MaxLength * n <= MaxLength * (3 * MostBytes)
    BY <1>1, <1>2
  <2>3. MaxLength * (3 * MostBytes) = 3 * (MaxLength * all) - 3 * MaxLength /\ MaxLength * all \in Nat
    BY <1>1, <1>3
  <2>4. MaxLength * n \in Nat
    BY <1>1
  <2> DEFINE a == MaxLength * n
             b == MaxLength * (3 * MostBytes)
             c == MaxLength * all
  <2>5. a \in Nat /\ c \in Nat /\ a <= b /\ b = 3 * c - 3 * MaxLength /\ 8 * TerminatorCount >= 3 * c
    BY <2>2, <2>3, <2>4, <1>1
  <2> HIDE DEF a, b, c
  <2>6. a < 8 * TerminatorCount
    BY <2>5, <1>1
  <2> QED
    BY <2>1, <2>6, <1>1 DEF a
<1> QED
  BY <1>4, <1>5

LEMMA GainBounds ==
  ASSUME NEW A, NEW t, NEW h, IsFiniteSet(DOMAIN h), Cardinality(DOMAIN h) <= 3 * MostBytes,
         \A code : EventsOf(h, code) \in SUBSET DOMAIN h,
         NEW E, \A x \in E : ProposalOk(A, t, h, x),
         \A x, y \in E : x.code = y.code => x = y, NEW s \in Symbol
  PROVE  /\ GainFor(E, s) \in Nat
         /\ s # <<t.terminator>> => GainFor(E, s) < 8 * TerminatorCount
         /\ \A z \in Of(E, s) : GainFor(E, s) >= z.count * Len(s)
<1> DEFINE S == Of(E, s)
           fun == [x \in S |-> x.count * Len(s)]
           ev == [x \in S |-> EventsOf(h, x.code)]
<1>1. GainFor(E, s) = SumFunctionOnSet(fun, S)
  BY Zenon DEF GainFor
<1>2. ASSUME NEW x \in S
      PROVE  /\ x \in E /\ x.symbol = s /\ x.count \in Nat
             /\ x.code \in Range(h) \cup {<<TermCode(t)>>}
             /\ s # <<t.terminator>> => x.count * Len(s) <= Weight(s) * Cardinality(EventsOf(h, x.code))
  <2>1. x \in E /\ x.symbol = s
    BY DEF Of
  <2>2. ProposalOk(A, t, h, x)
    BY <2>1
  <2> QED
    BY <2>1, <2>2 DEF ProposalOk
<1>3. IsFiniteSet(S)
  <2> DEFINE C == Range(h) \cup {<<TermCode(t)>>}
             k == [x \in S |-> x.code]
  <2>1. IsFiniteSet(Range(h))
    <3> DEFINE r == [e \in DOMAIN h |-> h[e]]
    <3>1. r \in Surjection(DOMAIN h, Range(h))
      BY DEF Surjection, Range
    <3> QED
      BY <3>1, FS_Surjection
  <2>2. IsFiniteSet({<<TermCode(t)>>})
    BY FS_Singleton
  <2>3. IsFiniteSet(C)
    BY <2>1, <2>2, FS_Union
  <2>4. k \in [S -> C] /\ \A x, y \in S : k[x] = k[y] => x = y
    BY <1>2
  <2> HIDE DEF C, k, S
  <2>5. k \in Injection(S, C)
    BY <2>4 DEF Injection, IsInjective
  <2> QED
    BY <2>3, <2>5, FS_Injection
<1>4. Len(s) \in Nat
  BY SymbolIsSeq
<1>5. \A x \in S : fun[x] = x.count * Len(s) /\ fun[x] \in Nat
  <2>1. \A i, j \in Nat : i * j \in Nat
    OBVIOUS
  <2> QED
    BY <2>1, <1>2, <1>4
<1>6. \A x \in S : ev[x] = EventsOf(h, x.code)
  OBVIOUS
<1>7. ev \in [S -> SUBSET DOMAIN h]
  OBVIOUS
<1> HIDE DEF fun, ev, S
<1>8. GainFor(E, s) \in Nat
  BY <1>1, <1>3, <1>5, SumNat
<1>9. ASSUME s # <<t.terminator>> PROVE GainFor(E, s) < 8 * TerminatorCount
  <2>1. \A x, y \in S : x # y => ev[x] \cap ev[y] = {}
    <3> SUFFICES ASSUME NEW x \in S, NEW y \in S, x # y PROVE ev[x] \cap ev[y] = {}
      OBVIOUS
    <3>1. x.code # y.code
      BY <1>2
    <3>2. EventsOf(h, x.code) \cap EventsOf(h, y.code) = {}
      BY <3>1 DEF EventsOf
    <3> QED
      BY <3>2, <1>6
  <2>2. Cardinality(DOMAIN h) \in Nat
    BY FS_CardinalityType
  <2>3. Weight(s) \in Nat /\ Weight(s) * Cardinality(DOMAIN h) < 8 * TerminatorCount
    BY <2>2, WeightBound
  <2>4. \A x \in S : fun[x] \in Nat /\ fun[x] <= Weight(s) * Cardinality(ev[x])
    BY <1>2, <1>5, <1>6, <1>9
  <2>5. SumFunctionOnSet(fun, S) <= Weight(s) * Cardinality(DOMAIN h)
    BY <2>1, <2>3, <2>4, <1>3, <1>7, SumCharged
  <2> DEFINE a == SumFunctionOnSet(fun, S)
             b == Weight(s) * Cardinality(DOMAIN h)
             c == 8 * TerminatorCount
  <2>6. a \in Nat /\ b \in Nat /\ c \in Nat /\ a <= b /\ b < c
    <3>1. b \in Nat /\ c \in Nat
      BY <2>2, <2>3, SearchAssumption
    <3> QED
      BY <3>1, <2>3, <2>5, <1>1, <1>8
  <2> HIDE DEF a, b, c
  <2>7. a < c
    BY <2>6
  <2> QED
    BY <2>7, <1>1 DEF a, c
<1>10. ASSUME NEW z \in S PROVE GainFor(E, s) >= z.count * Len(s)
  <2>1. \A x \in S : fun[x] \in Int
    BY <1>5
  <2>2. SumFunctionOnSet(fun, S) = fun[z] + SumFunctionOnSet(fun, S \ {z})
    BY <2>1, <1>3, SumWithout
  <2>3. IsFiniteSet(S \ {z})
    BY <1>3, FS_RemoveElement
  <2>4. SumFunctionOnSet(fun, S \ {z}) \in Nat
    BY <2>3, <1>5, SumNat
  <2>5. fun[z] = z.count * Len(s) /\ fun[z] \in Nat
    BY <1>5
  <2> QED
    BY <2>2, <2>4, <2>5, <1>1
<1> QED
  BY <1>8, <1>9, <1>10 DEF S

(* The queue: every symbol once, with the terminator first.                *)
CandidatesOk(A, t, Q) ==
  /\ \A q \in Q : q.symbol \in Symbol /\ GoodSymbol(A, t, q.symbol) /\ q.gain \in Nat
  /\ \A q, r \in Q : q.symbol = r.symbol => q = r
  /\ \E z \in Q : z.symbol = <<t.terminator>> /\ \A r \in Q : r # z => r.gain < z.gain

LEMMA CandidatesAre ==
  ASSUME NEW t, NEW c, NEW d, NEW frac
  PROVE  LET E == {x \in Proposed(t, c, d, frac) : Enough(x.count, frac)}
         IN  Candidates(t, c, d, frac) =
               {[symbol |-> s, gain |-> GainFor(E, s)] : s \in {x.symbol : x \in E}}
BY Zenon DEF Candidates, Proposed, GainFor, Of

(* A proposal is known by its code.                                        *)
LEMMA ProposalsDiffer ==
  ASSUME NEW t, NEW c, NEW d, \A p \in DOMAIN d : p = <<p[1], p[2]>>, NEW frac,
         NEW x \in Proposed(t, c, d, frac), NEW y \in Proposed(t, c, d, frac), x.code = y.code
  PROVE  x = y
<1> DEFINE single(p) == [code |-> <<p>>, symbol |-> SymbolOf(t, p),
                         count |-> IF Longer(t, p) THEN c[p] ELSE 8 * c[p]]
           pair(p) == [code |-> p, symbol |-> Concat(SymbolOf(t, p[1]), InSlot(Len(trial), p[2])), count |-> d[p]]
           IsPair(p) == p = <<p[1], p[2]>>
<1>1. \A z \in Proposed(t, c, d, frac) : (\E p : z = single(p)) \/ (\E p : z = pair(p) /\ IsPair(p))
  <2> SUFFICES ASSUME NEW z \in Proposed(t, c, d, frac)
               PROVE  (\E p : z = single(p)) \/ (\E p : z = pair(p) /\ IsPair(p))
    OBVIOUS
  <2>1. z \in Singles(t, c) \/ z \in Pairs(t, c, d)
    BY DEF Proposed
  <2>2. CASE z \in Singles(t, c)
    BY <2>2, Zenon DEF Singles
  <2>3. CASE z \in Pairs(t, c, d)
    <3>1. \E p \in DOMAIN d : z = pair(p)
      BY <2>3, Zenon DEF Pairs
    <3> HIDE DEF pair
    <3> QED
      BY <3>1
  <2> QED
    BY <2>1, <2>2, <2>3
<1>2. \A p : single(p).code = <<p>> /\ pair(p).code = p
  OBVIOUS
<1> HIDE DEF single, pair
<1>3. \A p, q : <<p>> = <<q>> => p = q
  OBVIOUS
<1>4. \A p, q : IsPair(p) => p # <<q>>
  OBVIOUS
<1> HIDE DEF IsPair
<1>5. CASE \E p : x = single(p)
  <2>1. PICK p : x = single(p)
    BY <1>5
  <2>2. CASE \E q : y = single(q)
    BY <2>1, <2>2, <1>2, <1>3
  <2>3. CASE \E q : y = pair(q) /\ IsPair(q)
    BY <2>1, <2>3, <1>2, <1>4
  <2> QED
    BY <1>1, <2>2, <2>3
<1>6. CASE \E p : x = pair(p) /\ IsPair(p)
  <2>1. PICK p : x = pair(p) /\ IsPair(p)
    BY <1>6
  <2>2. CASE \E q : y = single(q)
    BY <2>1, <2>2, <1>2, <1>4
  <2>3. CASE \E q : y = pair(q) /\ IsPair(q)
    BY <2>1, <2>3, <1>2
  <2> QED
    BY <1>1, <2>2, <2>3
<1> QED
  BY <1>1, <1>5, <1>6

(* makeTable proposes good symbols, the terminator with the largest gain.  *)
LEMMA CandidatesGood ==
  ASSUME NEW lines \in Seq(Seq(Byte)), NEW t, TableOk(Symbol, t),
         NEW c, CountsOk(lines, t, c), NEW d, PairsOk(lines, t, d), NEW frac \in 0 .. 128,
         NEW n, frac < 128 => n < 6 /\ Latest(trial, t, d)
  PROVE  CandidatesOk(Allowed(n, lines, trial), t, Candidates(t, WithTerminator(t, c), Count2Read(d), frac))
<1>1. PICK f : TalliedBy(c, f)
  BY DEF CountsOk, Tallied
<1>2. PICK g : TalliedBy(d, g)
  BY DEF PairsOk, Tallied
<1> DEFINE b == Both(g, Shifted(g))
           h == Events(f, b)
           A == Allowed(n, lines, trial)
           v == Count2Read(d)
           w == WithTerminator(t, c)
           E == {x \in Proposed(t, w, v, frac) : Enough(x.count, frac)}
           Q == Candidates(t, w, v, frac)
<1>3. /\ IsFiniteSet(DOMAIN f) /\ Cardinality(DOMAIN f) <= MostBytes
      /\ IsFiniteSet(DOMAIN g) /\ Cardinality(DOMAIN g) <= MostBytes
  BY <1>1, <1>2 DEF TalliedBy
<1>4. /\ IsFiniteSet(DOMAIN h) /\ Cardinality(DOMAIN h) <= 3 * MostBytes
      /\ \A code : EventsOf(h, code) \in SUBSET DOMAIN h
  <2>1. IsFiniteSet(DOMAIN b) /\ Cardinality(DOMAIN b) = 2 * Cardinality(DOMAIN g)
    BY <1>3, SharedEvents
  <2> HIDE DEF b
  <2>2. /\ IsFiniteSet(DOMAIN h)
        /\ Cardinality(DOMAIN h) = Cardinality(DOMAIN f) + Cardinality(DOMAIN b)
        /\ \A code : EventsOf(h, code) \in SUBSET DOMAIN h
    BY <1>3, <2>1, EventsCount
  <2>3. /\ Cardinality(DOMAIN f) \in Nat /\ Cardinality(DOMAIN g) \in Nat /\ MostBytes \in Int
    BY <1>3, FS_CardinalityType, Sizes DEF MostBytes
  <2> HIDE DEF h
  <2> QED
    BY <2>1, <2>2, <2>3, <1>3
<1>5. ASSUME NEW x \in Proposed(t, w, v, frac) PROVE ProposalOk(A, t, h, x)
  <2>1. x \in Singles(t, w) \/ (frac < 128 /\ x \in Pairs(t, w, v))
    <3> HIDE DEF w, v
    <3> QED
      BY DEF Proposed
  <2>2. CASE x \in Singles(t, w)
    <3>1. \A s \in Symbol : OccursIn(lines, s) => s \in A
      BY DEF Allowed
    <3>2. IsFiniteSet(DOMAIN b)
      BY <1>3, SharedEvents
    <3> HIDE DEF A, b
    <3> QED
      BY <2>2, <3>1, <3>2, <1>1, <1>3, SingleProposed
  <2>3. CASE frac < 128 /\ x \in Pairs(t, w, v)
    BY <2>3, <1>2, <1>3, PairProposed
  <2> QED
    BY <2>1, <2>2, <2>3
<1>6. \A x, y \in E : x.code = y.code => x = y
  <2>1. PairCounts(d)
    BY PairsCounted DEF TableOk, Ready
  <2>2. \A p \in DOMAIN v : p = <<p[1], p[2]>>
    BY <2>1, ReadOf
  <2> HIDE DEF v, w
  <2>3. \A x \in E : x \in Proposed(t, w, v, frac)
    OBVIOUS
  <2> QED
    BY <2>2, <2>3, ProposalsDiffer
<1>7. Q = {[symbol |-> s, gain |-> GainFor(E, s)] : s \in {x.symbol : x \in E}}
  BY CandidatesAre
<1> DEFINE z == [code |-> <<TermCode(t)>>, symbol |-> <<t.terminator>>, count |-> 8 * TerminatorCount]
<1>8. z \in E
  <2>1. /\ SymbolOf(t, TermCode(t)) = <<t.terminator>> /\ TermCode(t) \in DOMAIN w
        /\ w[TermCode(t)] = TerminatorCount
    <3>1. Ready(t)
      BY DEF TableOk
    <3>2. /\ SymbolOf(t, TermCode(t)) = <<t.terminator>>
          /\ DOMAIN WithTerminator(t, c) = DOMAIN c \cup {TermCode(t)}
          /\ WithTerminator(t, c)[TermCode(t)] = TerminatorCount
      BY <3>1, TerminatorIs, Zenon
    <3> HIDE DEF E
    <3> QED
      BY <3>2, Zenon
  <2>2. ~ Longer(t, TermCode(t))
    <3>1. ~ (Len(<<t.terminator>>) > 1)
      OBVIOUS
    <3> QED
      BY <2>1, <3>1 DEF Longer
  <2> HIDE DEF w
  <2>3. z \in Singles(t, w)
    BY <2>1, <2>2 DEF Singles
  <2>4. Enough(z.count, frac)
    <3>1. z.count = 8 * TerminatorCount /\ TerminatorCount \in Nat /\ TerminatorCount >= 2
      BY SearchAssumption, Sizes
    <3>2. \A m \in 0 .. 128 : (5 * m) \div 128 <= 5
      OBVIOUS
    <3>3. (5 * frac) \div 128 <= 5 /\ (5 * frac) \div 128 \in Int
      BY <3>2
    <3> HIDE DEF z
    <3> QED
      BY <3>1, <3>3 DEF Enough
  <2> QED
    BY <2>3, <2>4 DEF Proposed
<1>9. \A x \in E : ProposalOk(A, t, h, x)
  BY <1>5
<1> HIDE DEF E, Q, h, w, A, b, v
<1>10. ASSUME NEW s \in Symbol
       PROVE  /\ GainFor(E, s) \in Nat
              /\ s # <<t.terminator>> => GainFor(E, s) < 8 * TerminatorCount
              /\ \A y \in Of(E, s) : GainFor(E, s) >= y.count * Len(s)
  BY <1>4, <1>6, <1>9, GainBounds
<1>11. ASSUME NEW q \in Q
       PROVE  /\ q.symbol \in Symbol /\ GoodSymbol(A, t, q.symbol) /\ q.gain \in Nat
              /\ q = [symbol |-> q.symbol, gain |-> GainFor(E, q.symbol)]
  <2>1. PICK x \in E : q = [symbol |-> x.symbol, gain |-> GainFor(E, x.symbol)]
    BY <1>7
  <2>2. x.symbol \in Symbol /\ GoodSymbol(A, t, x.symbol)
    BY <1>9 DEF ProposalOk
  <2> QED
    BY <2>1, <2>2, <1>10
<1>12. \A q, r \in Q : q.symbol = r.symbol => q = r
  BY <1>11
<1> DEFINE first == [symbol |-> <<t.terminator>>, gain |-> GainFor(E, <<t.terminator>>)]
<1>13. first \in Q
  <2>1. z.symbol = <<t.terminator>>
    OBVIOUS
  <2> HIDE DEF z
  <2> QED
    BY <1>7, <1>8, <2>1
<1>14. ASSUME NEW r \in Q, r # first PROVE r.gain < first.gain
  <2>1. r.symbol \in Symbol /\ r.gain = GainFor(E, r.symbol) /\ r.symbol # <<t.terminator>>
    <3>1. r.symbol \in Symbol /\ r = [symbol |-> r.symbol, gain |-> GainFor(E, r.symbol)]
      BY <1>11, Zenon
    <3>2. r.symbol # <<t.terminator>>
      BY <3>1, <1>14
    <3> QED
      BY <3>1, <3>2
  <2>2. r.gain < 8 * TerminatorCount /\ r.gain \in Nat
    BY <2>1, <1>10
  <2>3. <<t.terminator>> \in Symbol
    BY <1>11, <1>13
  <2>4. z \in Of(E, <<t.terminator>>)
    BY <1>8 DEF Of
  <2>5. z.count * Len(<<t.terminator>>) = 8 * TerminatorCount
    BY SearchAssumption
  <2> HIDE DEF z
  <2>6. GainFor(E, <<t.terminator>>) >= 8 * TerminatorCount /\ GainFor(E, <<t.terminator>>) \in Nat
    BY <2>3, <2>4, <2>5, <1>10
  <2>7. first.gain = GainFor(E, <<t.terminator>>)
    OBVIOUS
  <2>8. TerminatorCount \in Nat
    BY SearchAssumption
  <2> HIDE DEF first
  <2> QED
    BY <2>2, <2>6, <2>7, <2>8
<1>15. first.symbol = <<t.terminator>>
  OBVIOUS
<1> HIDE DEF first
<1>16. CandidatesOk(A, t, Q)
  BY <1>11, <1>12, <1>13, <1>14, <1>15 DEF CandidatesOk
<1> QED
  BY <1>16 DEF Q, w, A, v

--------------------------------------------------------------------------------
(* The tables of the search.                                               *)
LEMMA GoodKept ==
  ASSUME NEW t, NEW u, SameTerminator(t, u), NEW A, NEW s, GoodSymbol(A, t, s)
  PROVE  GoodSymbol(A, u, s)
<1>1. u.terminator = t.terminator
  BY DEF SameTerminator
<1>2. \A b : Life!IsTerminator(t, b) <=> Life!IsTerminator(u, b)
  BY <1>1 DEF Life!IsTerminator
<1> QED
  BY <1>1, <1>2 DEF GoodSymbol, NoneIn

(* One symbol more.                                                        *)
LEMMA AddGood ==
  ASSUME NEW A, NEW t, TableOk(A, t), NSymbols(t) < MaxSymbols, NEW s \in Symbol,
         s \notin Range(t.symbols), GoodSymbol(A, t, s), NSymbols(t) = 0 => s = <<t.terminator>>
  PROVE  LET u == AddSymbol(t, s)
         IN  /\ TableOk(A, u) /\ SameTerminator(t, u) /\ NSymbols(u) \in Nat /\ NSymbols(u) > 0
             /\ \A x \in Range(u.symbols) : x \in Range(t.symbols) \/ x = s
<1> DEFINE u == AddSymbol(t, s)
<1>1. Ready(t) /\ t.symbols \in Seq(Symbol) /\ NSymbols(t) \in Nat /\ NSymbols(t) = Len(t.symbols)
  BY DEF TableOk, Ready, Agrees, Shape, NSymbols
<1>2. Ready(u)
  BY <1>1, AddReady
<1>3. CASE Refused(t, s)
  <2>1. u = t
    BY <1>3 DEF AddSymbol
  <2>2. Len(s) >= 3
    BY <1>3 DEF Refused
  <2>3. s # <<t.terminator>>
    <3>1. Len(<<t.terminator>>) = 1 /\ ~ (1 >= 3)
      OBVIOUS
    <3> QED
      BY <2>2, <3>1, Zenon
  <2>4. NSymbols(t) # 0
    BY <2>3
  <2>5. NSymbols(u) \in Nat /\ NSymbols(u) > 0
    BY <2>1, <2>4, <1>1
  <2> HIDE DEF u
  <2> QED
    BY <2>1, <2>5 DEF SameTerminator, u
<1>4. CASE ~ Refused(t, s)
  <2>1. /\ u.symbols = Append(t.symbols, s)
        /\ u.terminator = t.terminator /\ u.zeroTerminated = t.zeroTerminated
    BY <1>4 DEF AddSymbol
  <2> HIDE DEF u
  <2>2. NSymbols(u) \in Nat /\ NSymbols(u) > 0
    BY <2>1, <1>1 DEF NSymbols
  <2>3. \A x \in Range(u.symbols) : x \in Range(t.symbols) \/ x = s
    BY <2>1, <1>1 DEF Range
  <2>4. SameTerminator(t, u)
    BY <2>1 DEF SameTerminator
  <2>5. \A x \in Range(u.symbols) : GoodSymbol(A, t, x)
    BY <2>3 DEF TableOk
  <2>6. \A x \in Range(u.symbols) : GoodSymbol(A, u, x)
    BY <2>4, <2>5, GoodKept
  <2> QED
    BY <2>2, <2>3, <2>4, <2>6, <1>2 DEF TableOk, u
<1> QED
  BY <1>3, <1>4

(* No symbols.                                                             *)
LEMMA EmptyGood ==
  ASSUME NEW A, NEW terminator \in Byte, NEW zero \in BOOLEAN, zero => terminator = 0
  PROVE  LET u == EmptyTable(terminator, zero)
         IN  /\ TableOk(A, u) /\ NSymbols(u) = 0 /\ Range(u.symbols) = {}
             /\ u.terminator = terminator /\ u.zeroTerminated = zero
<1> DEFINE u == EmptyTable(terminator, zero)
<1>1. Ready(u)
  BY EmptyReady
<1>2. u.symbols = <<>> /\ u.terminator = terminator /\ u.zeroTerminated = zero
  BY DEF EmptyTable
<1>3. Range(u.symbols) = {}
  BY <1>2 DEF Range
<1> HIDE DEF u
<1> QED
  BY <1>1, <1>2, <1>3 DEF TableOk, NSymbols, u

LEMMA ClearGood ==
  ASSUME NEW A, NEW t, Ready(t)
  PROVE  LET u == ClearTable(t)
         IN  /\ u = EmptyTable(t.terminator, t.zeroTerminated)
             /\ TableOk(A, u) /\ NSymbols(u) = 0 /\ Range(u.symbols) = {} /\ SameTerminator(t, u)
<1> DEFINE v == EmptyTable(t.terminator, t.zeroTerminated)
<1>1. ClearTable(t) = v
  BY ClearAgrees DEF Ready
<1>2. t.terminator \in Byte /\ t.zeroTerminated \in BOOLEAN /\ (t.zeroTerminated => t.terminator = 0)
  BY DEF Ready, Terminated
<1>3. /\ TableOk(A, v) /\ NSymbols(v) = 0 /\ Range(v.symbols) = {}
      /\ v.terminator = t.terminator /\ v.zeroTerminated = t.zeroTerminated
  BY <1>2, EmptyGood
<1> HIDE DEF v
<1> QED
  BY <1>1, <1>3 DEF SameTerminator, v

(* The rarest byte is a byte.                                              *)
LEMMA RarestByte ==
  ASSUME SmallSample(sample)
  PROVE  Rarest \in Byte
<1> DEFINE times(b) == Cardinality({x \in Places(sample) : sample[x[1]][x[2]] = b})
           good(b) == \A c \in Byte : times(b) < times(c) \/ (times(b) = times(c) /\ b <= c)
           T == {times(b) : b \in Byte}
<1>1. \A b \in Byte : times(b) \in Nat
  <2>1. IsFiniteSet(Places(sample))
    BY PlacesCount DEF SmallSample
  <2> QED
    BY <2>1, FS_Subset, FS_CardinalityType
<1>2. Rarest = CHOOSE b \in Byte : good(b)
  BY Zenon DEF Rarest
<1> HIDE DEF times
<1>3. T \in SUBSET Nat /\ T # {}
  BY <1>1, TableAssumption
<1>4. PICK m \in T : \A n \in T : m <= n
  BY <1>3, LeastNat
<1> DEFINE B == {b \in Byte : times(b) = m}
<1>5. B \in SUBSET Nat /\ B # {}
  BY <1>4, TableAssumption
<1>6. PICK b \in B : \A c \in B : b <= c
  BY <1>5, LeastNat
<1>7. good(b)
  <2> SUFFICES ASSUME NEW c \in Byte
               PROVE  times(b) < times(c) \/ (times(b) = times(c) /\ b <= c)
    OBVIOUS
  <2>1. times(b) = m /\ times(c) \in T /\ m <= times(c) /\ m \in Nat /\ times(c) \in Nat
    BY <1>1, <1>3, <1>4, <1>6
  <2>2. times(c) = m => b <= c
    BY <1>6
  <2> QED
    BY <2>1, <2>2
<1>8. b \in Byte
  BY <1>6
<1> HIDE DEF good
<1> QED
  BY <1>2, <1>7, <1>8

--------------------------------------------------------------------------------
(* The inductive invariant of the search.                                  *)

(* What the tables of this round may have in them.                         *)
Symbols == Allowed(round, sample, trial)

(* The best table so far, b, of a search whose table is t, and its counts. *)
BestOk(A, lines, b, t, counts) ==
  TableOk(A, b) /\ SameTerminator(b, t) /\ CountsOk(lines, b, counts)

(* What makeTable has still to add to t.                                   *)
QueueOk(A, t, Q) ==
  /\ \A q \in Q : /\ q.symbol \in Symbol /\ GoodSymbol(A, t, q.symbol) /\ q.gain \in Nat
                  /\ q.symbol \notin Range(t.symbols)
  /\ \A q, r \in Q : q.symbol = r.symbol => q = r
  /\ NSymbols(t) = 0 =>
       \E z \in Q : z.symbol = <<t.terminator>> /\ \A r \in Q : r # z => r.gain < z.gain

NoTableYet ==
  /\ round = 1 /\ bestGain = - SampleMaxSize /\ zeroTerminated \in BOOLEAN
  /\ st = EmptyTable(0, FALSE) /\ trial = <<>>

AtCount ==
  /\ round \in 1 .. 5 /\ TableOk(Symbols, st) /\ Recorded(trial, st)
  /\ IF round = 1 THEN bestGain = - SampleMaxSize
     ELSE BestOk(Symbols, sample, bestTable, st, bestCounters)

AtPropose ==
  /\ round \in 1 .. 5 /\ TableOk(Symbols, st) /\ Recorded(trial, st)
  /\ BestOk(Symbols, sample, bestTable, st, bestCounters)
  /\ LET t == IF round = 5 THEN bestTable ELSE st
     IN  CountsOk(sample, t, counters.count1) /\ PairsOk(sample, t, counters.count2)
  /\ round # 5 => Latest(trial, st, counters.count2)

AtAdd ==
  /\ round \in {1, 2, 3, 4, 6} /\ TableOk(Symbols, Table) /\ QueueOk(Symbols, Table, queue)
  /\ round # 6 => /\ BestOk(Symbols, sample, bestTable, st, bestCounters)
                  /\ Recorded(trial, st)

AtDone ==
  /\ round = 6 /\ Ready(built) /\ NSymbols(built) > 0 /\ bestTable = FinalizeTable(built)
  /\ \A s \in Range(built.symbols) : GoodSymbol(Symbols, built, s)

SearchInv ==
  /\ SampleInv
  /\ pc \in {"sampling", "sampled"} => NoTableYet
  /\ pc = "count" => AtCount
  /\ pc = "propose" => AtPropose
  /\ pc = "add" => AtAdd
  /\ pc = "done" => AtDone

(* The sequence of the rounds with one more.                               *)
LEMMA TrialNext ==
  ASSUME NEW a, Len(a) \in Nat, a = [k \in 1 .. Len(a) |-> a[k]], NEW x
  PROVE  LET b == Append(a, x)
         IN  /\ Len(b) = Len(a) + 1 /\ b = [k \in 1 .. Len(b) |-> b[k]]
             /\ \A k \in 1 .. Len(a) : b[k] = a[k]
             /\ b[Len(a) + 1] = x
<1> DEFINE n == Len(a)
           S == {a[k] : k \in 1 .. n} \cup {x}
           b == Append(a, x)
<1>1. a \in [1 .. n -> S] /\ n \in Nat /\ x \in S
  OBVIOUS
<1>2. a \in Seq(S)
  BY <1>1
<1> HIDE DEF S
<1>3. b \in Seq(S) /\ Len(b) = n + 1 /\ (\A k \in 1 .. n : b[k] = a[k]) /\ b[n + 1] = x
  BY <1>1, <1>2
<1> HIDE DEF b
<1>4. b = [k \in 1 .. Len(b) |-> b[k]]
  BY <1>3
<1> QED
  BY <1>3, <1>4 DEF b

(* The records of the rounds: with one more, whatever was allowed still is.*)
LEMMA RecordedNext ==
  ASSUME NEW tr, NEW t, Recorded(tr, t), TableOk(Symbol, t), NEW gain, NEW d
  PROVE  LET new == Append(tr, [table |-> t, gain |-> gain, pairs |-> d])
         IN  /\ Latest(new, t, d)
             /\ \A r, lines : \A s \in Allowed(r, lines, tr) : s \in Allowed(r, lines, new)
<1> DEFINE x == [table |-> t, gain |-> gain, pairs |-> d]
           new == Append(tr, x)
           n == Len(tr)
<1>1. x.table = t /\ x.pairs = d
  OBVIOUS
<1> HIDE DEF x
<1>2. n \in Nat /\ tr = [k \in 1 .. n |-> tr[k]]
  BY DEF Recorded
<1>3. /\ Len(new) = n + 1 /\ new = [k \in 1 .. Len(new) |-> new[k]]
      /\ \A k \in 1 .. n : new[k] = tr[k]
      /\ new[n + 1] = x
  BY <1>2, TrialNext
<1> HIDE DEF new, n
<1>4. Latest(new, t, d)
  <2>1. Len(new) \in Nat /\ Len(new) >= 1 /\ new[Len(new)].table = t /\ new[Len(new)].pairs = d
    BY <1>1, <1>2, <1>3
  <2>2. ASSUME NEW k \in 1 .. Len(new)
        PROVE  TableOk(Symbol, new[k].table) /\ SameTerminator(new[k].table, t)
    <3>1. CASE k \in 1 .. n
      BY <3>1, <1>3 DEF Recorded, n
    <3>2. CASE k = n + 1
      BY <3>2, <1>1, <1>3 DEF SameTerminator
    <3> QED
      BY <3>1, <3>2, <1>2, <1>3
  <2> QED
    BY <2>1, <2>2, <1>3 DEF Latest, Recorded
<1>5. ASSUME NEW s, Over(tr, s) PROVE Over(new, s)
  <2>0. PICK q \in DOMAIN tr : \E p \in DOMAIN tr[q].pairs :
          /\ p[2] % 2 = 0 /\ tr[q].pairs[p] > PairLimit
          /\ s = Concat(SymbolOf(tr[q].table, p[1]), Slot(tr, q, p[2] + 1))
    BY <1>5 DEF Over
  <2>1. PICK p \in DOMAIN tr[q].pairs :
          /\ p[2] % 2 = 0 /\ tr[q].pairs[p] > PairLimit
          /\ s = Concat(SymbolOf(tr[q].table, p[1]), Slot(tr, q, p[2] + 1))
    BY <2>0
  <2>2. q \in 1 .. n /\ q \in DOMAIN new /\ new[q] = tr[q] /\ \A r \in 1 .. q : new[r] = tr[r]
    BY <1>2, <1>3
  <2>3. Slot(new, q, p[2] + 1) = Slot(tr, q, p[2] + 1)
    <3> DEFINE c == p[2] + 1
               filled(u) == {r \in 1 .. q : c < CodeBase + NSymbols(u[r].table)}
    <3> HIDE DEF c
    <3>1. filled(new) = filled(tr)
      BY <2>2
    <3>2. filled(tr) # {} => Max(filled(tr)) \in 1 .. q
      <4>1. filled(tr) \in SUBSET (1 .. q) /\ q \in Nat
        BY <2>2, <1>2
      <4> HIDE DEF filled
      <4> QED
        BY <4>1, LatestFilled
    <3>3. \A u : Slot(u, q, c) = IF isEscapeCode(c) THEN <<c>>
                                ELSE IF filled(u) = {} THEN <<0>>
                                ELSE SymbolOf(u[Max(filled(u))].table, c)
      BY DEF Slot
    <3> HIDE DEF filled
    <3>4. Slot(new, q, c) = Slot(tr, q, c)
      BY <3>1, <3>2, <3>3, <2>2
    <3> QED
      BY <3>4 DEF c
  <2> QED
    BY <2>1, <2>2, <2>3 DEF Over
<1>6. \A r, lines : \A s \in Allowed(r, lines, tr) : s \in Allowed(r, lines, new)
  BY <1>5 DEF Allowed
<1> QED
  BY <1>4, <1>6 DEF new, x

LEMMA SearchInvInit == Init => SearchInv
<1> SUFFICES ASSUME Init PROVE SearchInv
  OBVIOUS
<1>1. SampleInv
  BY SampleInvInit
<1>2. pc = "sampling" /\ NoTableYet
  BY DEF Init, SampleInit, NoTableYet
<1> QED
  BY <1>1, <1>2 DEF SearchInv

(* The sample, once it is drawn.                                           *)
LEMMA SampleDrawn ==
  ASSUME SampleInv, pc # "sampling"
  PROVE  SmallSample(sample)
<1>1. Bytes(strIn) \in Nat /\ sample \in Seq(Seq(Byte))
  BY LengthsType DEF SampleInv
<1>2. CASE Bytes(strIn) < SampleTarget
  <2>1. sample = strIn
    BY <1>2 DEF SampleInv
  <2> QED
    BY <1>1, <1>2, <2>1, Sizes DEF SmallSample, MostBytes
<1>3. CASE ~ (Bytes(strIn) < SampleTarget)
  BY <1>1, <1>3, Sizes DEF SampleInv, SmallSample
<1> QED
  BY <1>2, <1>3

LEMMA StartStep ==
  ASSUME SearchInv, SampleInv', Start
  PROVE  SearchInv'
<1>1. /\ pc = "sampled" /\ pc' = "count" /\ sample' = sample /\ round' = round /\ bestGain' = bestGain
      /\ trial' = trial
      /\ st' = EmptyTable(IF zeroTerminated THEN 0 ELSE Rarest, zeroTerminated)
  BY DEF Start, best
<1>2. NoTableYet /\ SmallSample(sample)
  BY <1>1, SampleDrawn DEF SearchInv
<1> DEFINE terminator == IF zeroTerminated THEN 0 ELSE Rarest
<1>3. terminator \in Byte /\ (zeroTerminated => terminator = 0) /\ zeroTerminated \in BOOLEAN
  BY <1>2, RarestByte, TableAssumption DEF NoTableYet
<1>4. st' = EmptyTable(terminator, zeroTerminated)
  BY <1>1
<1> HIDE DEF terminator
<1>5. TableOk(Symbols', st')
  <2>1. \A A : TableOk(A, EmptyTable(terminator, zeroTerminated))
    BY <1>3, EmptyGood
  <2> QED
    BY <2>1, <1>4
<1>6. Recorded(trial', st')
  BY <1>1, <1>2 DEF Recorded, NoTableYet
<1>7. AtCount'
  BY <1>1, <1>2, <1>5, <1>6 DEF AtCount, NoTableYet
<1> QED
  BY <1>1, <1>7 DEF SearchInv

LEMMA CountStep ==
  ASSUME SearchInv, SampleInv', CompressCount
  PROVE  SearchInv'
<1> DEFINE codes == [i \in Taken(round) |-> Codes(st, sample[i])]
           gain  == GainOf(st, codes)
           new   == [count1 |-> Count1(st, codes),
                     count2 |-> IF SampleFrac(round) = 128 THEN EmptyBag ELSE Count2(st, codes)]
<1>1. /\ pc = "count" /\ pc' = "propose" /\ sample' = sample /\ round' = round /\ st' = st
      /\ IF gain >= bestGain
           THEN bestTable' = st /\ bestGain' = gain /\ bestCounters' = new.count1
           ELSE bestTable' = bestTable /\ bestGain' = bestGain /\ bestCounters' = bestCounters
      /\ counters' = IF round = FinalRound - 1 THEN ForLast(new, bestCounters') ELSE new
      /\ trial' = Append(trial, [table |-> st, gain |-> gain, pairs |-> new.count2])
  BY Zenon DEF CompressCount, best
<1>2. AtCount /\ SmallSample(sample)
  BY <1>1, SampleDrawn DEF SearchInv
<1>3. /\ round \in 1 .. 5 /\ TableOk(Symbols, st) /\ Agrees(st) /\ sample \in Seq(Seq(Byte))
      /\ Recorded(trial, st)
  BY <1>2 DEF AtCount, TableOk, Ready, SmallSample
<1>4. CodedLines(st, sample, codes)
  BY <1>3 DEF CodedLines, Taken
<1> HIDE DEF codes
<1>5. /\ CountsOk(sample, st, Count1(st, codes)) /\ PairsOk(sample, st, Count2(st, codes))
      /\ gain \in Int /\ gain >= - SampleMaxSize
  BY <1>2, <1>3, <1>4, SinglesOccur, PairsOccur, GainAtLeast
<1>6. /\ new.count1 = Count1(st, codes)
      /\ new.count2 = IF SampleFrac(round) = 128 THEN EmptyBag ELSE Count2(st, codes)
      /\ ForLast(new, bestCounters').count1 = bestCounters'
      /\ ForLast(new, bestCounters').count2 = new.count2
  BY DEF ForLast
<1>7. /\ CountsOk(sample, st, new.count1) /\ PairsOk(sample, st, new.count2)
      /\ round = 5 => new.count2 = EmptyBag
  <2>1. PairsOk(sample, st, EmptyBag)
    BY NothingCounted
  <2>2. round = 5 => SampleFrac(round) = 128
    BY DEF SampleFrac
  <2> HIDE DEF new
  <2>3. new.count2 = EmptyBag \/ new.count2 = Count2(st, codes)
    BY <1>6
  <2> QED
    BY <1>5, <1>6, <2>1, <2>2, <2>3
<1> HIDE DEF new, gain
<1>8. /\ Latest(trial', st, new.count2)
       /\ \A t : TableOk(Symbols, t) => TableOk(Symbols', t)
  <2>1. TableOk(Symbol, st)
    BY <1>3, MoreAllowed
  <2>2. /\ Latest(trial', st, new.count2)
        /\ \A r, lines : \A s \in Allowed(r, lines, trial) : s \in Allowed(r, lines, trial')
    BY <2>1, <1>1, <1>3, RecordedNext
  <2>3. \A s \in Symbols : s \in Symbols'
    BY <2>2, <1>1 DEF Symbols
  <2> QED
    BY <2>2, <2>3, MoreAllowed
<1>9. TableOk(Symbols', st') /\ Recorded(trial', st')
  BY <1>1, <1>3, <1>8 DEF Latest
<1>10. BestOk(Symbols', sample', bestTable', st', bestCounters')
  <2>1. CASE gain >= bestGain
    <3>1. bestTable' = st /\ bestCounters' = new.count1
      BY <1>1, <2>1
    <3> QED
      BY <3>1, <1>1, <1>7, <1>9 DEF BestOk, SameTerminator
  <2>2. CASE ~ (gain >= bestGain)
    <3>1. bestTable' = bestTable /\ bestCounters' = bestCounters
      BY <1>1, <2>2
    <3>2. round # 1
      BY <1>2, <1>5, <2>2 DEF AtCount
    <3> QED
      BY <3>1, <3>2, <1>1, <1>2, <1>8 DEF AtCount, BestOk
  <2> QED
    BY <2>1, <2>2
<1>11. FinalRound - 1 = 5
  BY DEF FinalRound
<1>12. CASE round = 5
  <2>1. counters'.count1 = bestCounters' /\ counters'.count2 = EmptyBag
    <3>1. counters' = ForLast(new, bestCounters')
      BY <1>1, <1>11, <1>12
    <3> QED
      BY <3>1, <1>6, <1>7, <1>12
  <2>2. CountsOk(sample', bestTable', counters'.count1) /\ PairsOk(sample', bestTable', counters'.count2)
    BY <2>1, <1>10, NothingCounted DEF BestOk
  <2>3. AtPropose'
    BY <2>2, <1>1, <1>3, <1>9, <1>10, <1>12 DEF AtPropose
  <2> QED
    BY <2>3, <1>1 DEF SearchInv
<1>13. CASE round # 5
  <2>1. counters' = new
    BY <1>1, <1>11, <1>13
  <2>2. CountsOk(sample', st', counters'.count1) /\ PairsOk(sample', st', counters'.count2)
    BY <2>1, <1>1, <1>7
  <2>3. Latest(trial', st', counters'.count2)
    BY <2>1, <1>1, <1>8
  <2>4. AtPropose'
    BY <2>2, <2>3, <1>1, <1>3, <1>9, <1>10, <1>13 DEF AtPropose
  <2> QED
    BY <2>4, <1>1 DEF SearchInv
<1> QED
  BY <1>12, <1>13

LEMMA ProposeStep ==
  ASSUME SearchInv, SampleInv', Propose
  PROVE  SearchInv'
<1> DEFINE t == IF round = 5 THEN bestTable ELSE st
           Q == Candidates(t, WithTerminator(t, counters.count1), Count2Read(counters.count2), SampleFrac(round))
<1>0. FinalRound = 6 /\ FinalRound - 1 = 5
  BY DEF FinalRound
<1>1. /\ pc = "propose" /\ pc' = "add" /\ sample' = sample /\ queue' = Q /\ trial' = trial
      /\ IF round = 5 THEN round' = 6 /\ bestTable' = ClearTable(t)
                      ELSE /\ st' = ClearTable(t) /\ round' = round
                           /\ bestTable' = bestTable /\ bestCounters' = bestCounters
  <2>1. /\ pc = "propose" /\ pc' = "add" /\ sample' = sample /\ trial' = trial
    BY DEF Propose
  <2>2. queue' = Q
    BY <1>0 DEF Propose
  <2>3. IF round = 5 THEN round' = 6 /\ bestTable' = ClearTable(t)
                     ELSE /\ st' = ClearTable(t) /\ round' = round
                          /\ bestTable' = bestTable /\ bestCounters' = bestCounters
    BY <1>0 DEF Propose, best
  <2> QED
    BY <2>1, <2>2, <2>3
<1>2. AtPropose /\ sample \in Seq(Seq(Byte))
  BY <1>1 DEF SearchInv, SampleInv
<1>3. /\ round \in 1 .. 5 /\ BestOk(Symbols, sample, bestTable, st, bestCounters)
      /\ TableOk(Symbols, t) /\ CountsOk(sample, t, counters.count1) /\ PairsOk(sample, t, counters.count2)
      /\ round # 5 => Latest(trial, t, counters.count2)
      /\ Recorded(trial, st)
  BY <1>2 DEF AtPropose, BestOk
<1>4. SampleFrac(round) \in 0 .. 128 /\ (round = 5 => SampleFrac(round) = 128)
  BY <1>3 DEF SampleFrac
<1> HIDE DEF t
<1> DEFINE A == Allowed(IF round = 5 THEN 6 ELSE round, sample, trial)
<1>5. CandidatesOk(A, t, Q)
  <2>1. TableOk(Symbol, t)
    BY <1>3, MoreAllowed
  <2> DEFINE n == IF round = 5 THEN 6 ELSE round
  <2>2. SampleFrac(round) < 128 => n < 6 /\ Latest(trial, t, counters.count2)
    BY <1>3, <1>4
  <2> DEFINE c == counters.count1
             d == counters.count2
             frac == SampleFrac(round)
  <2>3. /\ CountsOk(sample, t, c) /\ PairsOk(sample, t, d) /\ frac \in 0 .. 128
        /\ frac < 128 => n < 6 /\ Latest(trial, t, d)
        /\ Q = Candidates(t, WithTerminator(t, c), Count2Read(d), frac)
    BY <2>2, <1>3, <1>4
  <2> HIDE DEF n, c, d, frac, Q
  <2>4. CandidatesOk(Allowed(n, sample, trial), t, Candidates(t, WithTerminator(t, c), Count2Read(d), frac))
    BY <2>1, <2>3, <1>2, CandidatesGood
  <2> QED
    BY <2>3, <2>4 DEF n
<1> HIDE DEF Q
<1> DEFINE u == ClearTable(t)
<1>6. TableOk(A, u) /\ NSymbols(u) = 0 /\ Range(u.symbols) = {} /\ SameTerminator(t, u)
  BY <1>3, ClearGood DEF TableOk
<1> HIDE DEF u
<1>7. QueueOk(A, u, Q)
  <2>1. \A q \in Q : GoodSymbol(A, u, q.symbol)
    BY <1>5, <1>6, GoodKept DEF CandidatesOk
  <2>2. u.terminator = t.terminator
    BY <1>6 DEF SameTerminator
  <2> QED
    BY <2>1, <2>2, <1>5, <1>6 DEF QueueOk, CandidatesOk
<1>8. Symbols' = A
  BY <1>1 DEF Symbols
<1> HIDE DEF A
<1>9. CASE round = 5
  <2>1. round' = 6 /\ bestTable' = u
    BY <1>1, <1>9 DEF u
  <2>2. Table' = u
    BY <1>0, <2>1 DEF Table
  <2>3. AtAdd'
    BY <2>1, <2>2, <1>1, <1>6, <1>7, <1>8 DEF AtAdd
  <2> QED
    BY <2>3, <1>1 DEF SearchInv
<1>10. CASE round # 5
  <2>1. st' = u /\ round' = round /\ bestTable' = bestTable /\ bestCounters' = bestCounters
    BY <1>1, <1>10 DEF u
  <2>2. t = st
    BY <1>10 DEF t
  <2>3. round \in {1, 2, 3, 4} /\ round # 6
    BY <1>3, <1>10
  <2>4. Table' = u
    BY <1>0, <2>1, <2>3 DEF Table
  <2>5. A = Symbols
    BY <1>10 DEF A, Symbols
  <2>6. BestOk(A, sample, bestTable, u, bestCounters)
    BY <2>2, <2>5, <1>3, <1>6 DEF BestOk, SameTerminator
  <2>7. Recorded(trial, u)
    BY <2>2, <1>3, <1>6 DEF Recorded, SameTerminator
  <2>8. AtAdd'
    BY <2>1, <2>3, <2>4, <2>6, <2>7, <1>1, <1>6, <1>7, <1>8 DEF AtAdd
  <2> QED
    BY <2>8, <1>1 DEF SearchInv
<1> QED
  BY <1>9, <1>10

(* The symbol that is taken from the queue.                                *)
LEMMA TakenSymbol ==
  ASSUME NEW A, NEW t, NEW Q, TableOk(A, t), QueueOk(A, t, Q), NSymbols(t) < MaxSymbols,
         NEW q \in Q, \A other \in Q : ~ Before(other, q)
  PROVE  LET u == AddSymbol(t, q.symbol)
         IN  /\ q.symbol \in Symbol /\ q.symbol \notin Range(t.symbols)
             /\ GoodSymbol(A, t, q.symbol)
             /\ NSymbols(t) = 0 => q.symbol = <<t.terminator>>
             /\ TableOk(A, u) /\ SameTerminator(t, u) /\ QueueOk(A, u, Q \ {q})
<1> DEFINE u == AddSymbol(t, q.symbol)
<1>1. /\ q.symbol \in Symbol /\ GoodSymbol(A, t, q.symbol) /\ q.gain \in Nat
      /\ q.symbol \notin Range(t.symbols)
  BY DEF QueueOk
<1>2. NSymbols(t) = 0 => q.symbol = <<t.terminator>>
  <2> SUFFICES ASSUME NSymbols(t) = 0 PROVE q.symbol = <<t.terminator>>
    OBVIOUS
  <2>1. PICK z \in Q : z.symbol = <<t.terminator>> /\ \A r \in Q : r # z => r.gain < z.gain
    BY DEF QueueOk
  <2>2. q = z
    <3>1. ASSUME q # z PROVE FALSE
      <4>1. q.gain < z.gain /\ z.gain \in Nat
        BY <2>1, <3>1 DEF QueueOk
      <4>2. z.gain > q.gain
        BY <4>1, <1>1
      <4>3. Before(z, q)
        BY <4>2 DEF Before
      <4> QED
        BY <4>3
    <3> QED
      BY <3>1
  <2> QED
    BY <2>1, <2>2
<1>3. /\ TableOk(A, u) /\ SameTerminator(t, u) /\ NSymbols(u) \in Nat /\ NSymbols(u) > 0
      /\ \A x \in Range(u.symbols) : x \in Range(t.symbols) \/ x = q.symbol
  BY <1>1, <1>2, AddGood
<1> HIDE DEF u
<1>4. ASSUME NEW r \in Q \ {q}
      PROVE  /\ r.symbol \in Symbol /\ GoodSymbol(A, u, r.symbol) /\ r.gain \in Nat
             /\ r.symbol \notin Range(u.symbols)
  <2>1. /\ r.symbol \in Symbol /\ GoodSymbol(A, t, r.symbol) /\ r.gain \in Nat
        /\ r.symbol \notin Range(t.symbols) /\ r.symbol # q.symbol
    BY DEF QueueOk
  <2> QED
    BY <2>1, <1>3, GoodKept
<1>5. QueueOk(A, u, Q \ {q})
  <2>1. \A r, x \in Q \ {q} : r.symbol = x.symbol => r = x
    BY DEF QueueOk
  <2>2. NSymbols(u) # 0
    BY <1>3
  <2> QED
    BY <2>1, <2>2, <1>4 DEF QueueOk
<1> QED
  BY <1>1, <1>2, <1>3, <1>5 DEF u

(* It is added to the table of the round.                                  *)
Added(t, u) ==
  \E q \in queue :
    /\ \A other \in queue : ~ Before(other, q)
    /\ queue' = queue \ {q} /\ u = AddSymbol(t, q.symbol)

LEMMA AddedTo ==
  ASSUME AddBest
  PROVE  /\ pc = "add" /\ pc' = pc /\ sample' = sample /\ round' = round
         /\ NSymbols(Table) < MaxSymbols /\ queue # {} /\ trial' = trial
         /\ Added(Table, Table')
         /\ round # 6 => bestTable' = bestTable /\ bestCounters' = bestCounters
<1>0. FinalRound = 6
  BY DEF FinalRound
<1>1. /\ pc = "add" /\ pc' = pc /\ sample' = sample /\ round' = round
      /\ NSymbols(Table) < MaxSymbols /\ queue # {} /\ trial' = trial
  BY DEF AddBest, Wanted
<1>2. PICK q \in queue :
        /\ \A other \in queue : ~ Before(other, q)
        /\ queue' = queue \ {q}
        /\ IF round = 6
             THEN bestTable' = AddSymbol(bestTable, q.symbol)
             ELSE /\ st' = AddSymbol(st, q.symbol)
                  /\ bestTable' = bestTable /\ bestCounters' = bestCounters
  BY <1>0, Zenon DEF AddBest, best
<1>3. Table' = AddSymbol(Table, q.symbol)
  <2>1. CASE round = 6
    BY <2>1, <1>0, <1>1, <1>2 DEF Table
  <2>2. CASE round # 6
    BY <2>2, <1>0, <1>1, <1>2 DEF Table
  <2> QED
    BY <2>1, <2>2
<1>4. Added(Table, Table')
  BY <1>2, <1>3, Zenon DEF Added
<1> QED
  BY <1>1, <1>2, <1>4

LEMMA AddStep ==
  ASSUME SearchInv, SampleInv', AddBest
  PROVE  SearchInv'
<1>1. /\ pc = "add" /\ pc' = pc /\ sample' = sample /\ round' = round
      /\ NSymbols(Table) < MaxSymbols /\ Added(Table, Table') /\ trial' = trial
      /\ round # 6 => bestTable' = bestTable /\ bestCounters' = bestCounters
  BY AddedTo
<1>2. AtAdd
  BY <1>1 DEF SearchInv
<1>3. TableOk(Symbols, Table) /\ QueueOk(Symbols, Table, queue)
  BY <1>2 DEF AtAdd
<1>4. PICK q \in queue :
        /\ \A other \in queue : ~ Before(other, q)
        /\ queue' = queue \ {q} /\ Table' = AddSymbol(Table, q.symbol)
  BY <1>1 DEF Added
<1>5. /\ TableOk(Symbols, Table') /\ SameTerminator(Table, Table')
      /\ QueueOk(Symbols, Table', queue \ {q})
  BY <1>1, <1>3, <1>4, TakenSymbol
<1>6. round # 6 => BestOk(Symbols, sample, bestTable', st', bestCounters') /\ Recorded(trial, st')
  <2> SUFFICES ASSUME round # 6
               PROVE  BestOk(Symbols, sample, bestTable', st', bestCounters') /\ Recorded(trial, st')
    OBVIOUS
  <2>1. Table = st /\ Table' = st'
    BY <1>1 DEF Table, FinalRound
  <2>2. BestOk(Symbols, sample, bestTable, st, bestCounters) /\ Recorded(trial, st)
    BY <1>2 DEF AtAdd
  <2> QED
    BY <2>1, <2>2, <1>1, <1>5 DEF BestOk, SameTerminator, Recorded
<1>7. Symbols' = Symbols
  BY <1>1 DEF Symbols
<1>8. AtAdd'
  BY <1>1, <1>2, <1>4, <1>5, <1>6, <1>7 DEF AtAdd
<1> QED
  BY <1>1, <1>8 DEF SearchInv

LEMMA RoundStep ==
  ASSUME SearchInv, SampleInv', NextRound
  PROVE  SearchInv'
<1>1. /\ pc = "add" /\ pc' = "count" /\ sample' = sample /\ round < 6 /\ round' = round + 1
      /\ st' = st /\ bestTable' = bestTable /\ bestCounters' = bestCounters /\ trial' = trial
  BY DEF NextRound, best, FinalRound
<1>2. AtAdd
  BY <1>1 DEF SearchInv
<1>3. round \in 1 .. 4 /\ round # 6 /\ Table = st
  BY <1>1, <1>2 DEF AtAdd, Table, FinalRound
<1>4. round' \in 1 .. 5 /\ round' # 1
  BY <1>1, <1>3
<1>5. Symbols' = Symbols
  BY <1>1, <1>3, <1>4 DEF Symbols, Allowed
<1>6. AtCount'
  BY <1>1, <1>2, <1>3, <1>4, <1>5 DEF AtAdd, AtCount
<1> QED
  BY <1>1, <1>6 DEF SearchInv

LEMMA FinalStep ==
  ASSUME SearchInv, SampleInv', Finalize
  PROVE  /\ SearchInv'
         /\ Ready(bestTable) /\ NSymbols(bestTable) > 0
<1>1. /\ pc = "add" /\ pc' = "done" /\ sample' = sample /\ round = 6 /\ round' = round /\ trial' = trial
      /\ built' = bestTable /\ bestTable' = FinalizeTable(bestTable)
      /\ Table = bestTable
      /\ ~ (NSymbols(Table) < MaxSymbols) \/ queue = {}
  BY DEF Finalize, FinalRound, Wanted, Table
<1>2. AtAdd
  BY <1>1 DEF SearchInv
<1>3. TableOk(Symbols, bestTable) /\ QueueOk(Symbols, bestTable, queue)
  BY <1>1, <1>2 DEF AtAdd
<1>4. Ready(bestTable) /\ \A s \in Range(bestTable.symbols) : GoodSymbol(Symbols, bestTable, s)
  BY <1>3 DEF TableOk
<1>5. NSymbols(bestTable) \in Nat /\ MaxSymbols \in Nat /\ MaxSymbols >= 1
  BY <1>4, TableAssumption DEF Ready, Agrees, Shape, NSymbols, MaxSymbols
<1>6. NSymbols(bestTable) > 0
  <2>1. CASE queue = {}
    BY <2>1, <1>3, <1>5 DEF QueueOk
  <2>2. CASE ~ (NSymbols(Table) < MaxSymbols)
    BY <2>2, <1>1, <1>5
  <2> QED
    BY <2>1, <2>2, <1>1
<1>7. Symbols' = Symbols
  BY <1>1 DEF Symbols
<1>8. AtDone'
  BY <1>1, <1>4, <1>6, <1>7 DEF AtDone
<1> QED
  BY <1>1, <1>4, <1>6, <1>8 DEF SearchInv

LEMMA SearchInvNext ==
  ASSUME SearchInv, [Next]_vars
  PROVE  SearchInv'
<1>1. SampleInv'
  BY SampleInvNext DEF SearchInv
<1>2. CASE MakeSample
  <2>1. UNCHANGED <<zeroTerminated, round, st, bestGain, trial>> /\ pc = "sampling"
    BY <1>2 DEF MakeSample, best, Draw, TakeAll, TakeChunk, EnoughDrawn
  <2>2. pc' \in {"sampling", "sampled"}
    BY <1>2, <2>1 DEF MakeSample, Draw, TakeAll, TakeChunk, EnoughDrawn
  <2>3. NoTableYet'
    BY <2>1 DEF SearchInv, NoTableYet
  <2> QED
    BY <1>1, <2>2, <2>3 DEF SearchInv
<1>3. CASE BuildTable
  BY <1>1, <1>3, StartStep, CountStep, ProposeStep, AddStep, RoundStep, FinalStep DEF BuildTable, Build
<1>4. CASE UNCHANGED vars
  <2>1. /\ pc' = pc /\ zeroTerminated' = zeroTerminated /\ round' = round /\ st' = st
        /\ bestGain' = bestGain /\ sample' = sample /\ counters' = counters /\ queue' = queue
        /\ bestTable' = bestTable /\ bestCounters' = bestCounters /\ built' = built
        /\ trial' = trial
    BY <1>4 DEF vars, best
  <2>2. Symbols' = Symbols
    BY <2>1 DEF Symbols
  <2>3. NoTableYet' <=> NoTableYet
    BY <2>1 DEF NoTableYet
  <2>4. AtCount' <=> AtCount
    BY <2>1, <2>2 DEF AtCount
  <2>5. AtPropose' <=> AtPropose
    BY <2>1, <2>2 DEF AtPropose
  <2>6. Table' = Table
    BY <2>1 DEF Table
  <2>7. AtAdd' <=> AtAdd
    BY <2>1, <2>6, <2>2 DEF AtAdd
  <2>8. AtDone' <=> AtDone
    BY <2>1, <2>2 DEF AtDone
  <2> QED
    BY <1>1, <2>1, <2>3, <2>4, <2>5, <2>7, <2>8 DEF SearchInv
<1> QED
  BY <1>2, <1>3, <1>4 DEF Next, Return

--------------------------------------------------------------------------------
(* For every sample, and whatever lines the rounds skip: every symbol of   *)
(* the finished table but the terminator is a piece of the sample, and so  *)
(* is every symbol of a round's table, save one that the overflow of a     *)
(* pair's 12-bit counter leads to: a pair of an earlier round that         *)
(* occurred more than PairLimit times, its second code even, has its first *)
(* symbol joined with what the code after the second one stands for.       *)
THEOREM SymbolsOccurAlways == Spec => []SymbolsOccur
<1>1. SearchInv => SymbolsOccur
  <2> SUFFICES ASSUME SearchInv, NEW s \in Range(Table.symbols) \ {<<Table.terminator>>}
               PROVE  s \in Symbols
    <3>1. \A x : OccursIn(sample, x) <=> Occurs(x)
      BY DEF OccursIn, PieceOf, Occurs
    <3>2. \A x : Over(trial, x) <=> Overflown(x)
      <4>1. \A q, k : InSlot(q, k) = Slot(trial, q, k)
        BY DEF InSlot, Slot
      <4> QED
        BY <4>1 DEF Over, Overflown
    <3>3. \A x \in Symbols : Occurs(x) \/ (round < FinalRound /\ Overflown(x))
      BY <3>1, <3>2 DEF Symbols, Allowed, FinalRound
    <3> QED
      BY <3>3 DEF SymbolsOccur
  <2>0. FinalRound = 6 /\ pc \in Places0
    BY DEF FinalRound, SearchInv, SampleInv
  <2>1. CASE pc \in {"sampling", "sampled"}
    <3>1. Table = EmptyTable(0, FALSE)
      <4>1. round = 1 /\ st = EmptyTable(0, FALSE)
        BY <2>1 DEF SearchInv, NoTableYet
      <4>2. Table = st
        BY <4>1, <2>0 DEF Table
      <4> QED
        BY <4>1, <4>2
    <3>2. Range(EmptyTable(0, FALSE).symbols) = {}
      BY EmptyGood, TableAssumption
    <3> QED
      BY <3>1, <3>2
  <2>2. CASE pc \in {"count", "propose", "add"}
    <3>1. TableOk(Symbols, Table)
      <4>1. CASE pc \in {"count", "propose"}
        <5>1. round # 6 /\ TableOk(Symbols, st)
          BY <4>1 DEF SearchInv, AtCount, AtPropose
        <5> QED
          BY <5>1, <2>0 DEF Table
      <4>2. CASE pc = "add"
        BY <4>2 DEF SearchInv, AtAdd
      <4> QED
        BY <2>2, <4>1, <4>2
    <3> QED
      BY <3>1 DEF TableOk, GoodSymbol
  <2>3. CASE pc = "done"
    <3>1. AtDone /\ Table = bestTable
      BY <2>0, <2>3 DEF SearchInv, AtDone, Table
    <3>2. /\ Ready(built) /\ NSymbols(built) > 0 /\ Table = FinalizeTable(built)
          /\ \A x \in Range(built.symbols) : GoodSymbol(Symbols, built, x)
      BY <3>1 DEF AtDone
    <3>3. Range(Table.symbols) = Range(built.symbols) /\ Table.terminator = built.terminator
      BY <3>2, FinalSymbols, FinalLimits
    <3> QED
      BY <3>2, <3>3 DEF GoodSymbol
  <2> QED
    BY <2>0, <2>1, <2>2, <2>3 DEF Places0
<1> QED
  BY <1>1, SearchInvInit, SearchInvNext, PTL DEF Spec

(* What fsst_create returns: finalize has been applied to a table in order *)
(* that has symbols, among them none of two bytes or more that contains    *)
(* the terminator, provided a char can be compared with the terminator.    *)
(* It is what the theorems about the compression suppose of a table.       *)
THEOREM CreatedAlways ==
  Spec => [](pc = "done" =>
               /\ Ready(built) /\ NSymbols(built) > 0 /\ bestTable = FinalizeTable(built)
               /\ (CharIsSigned => built.terminator < CodeBase \div 2) => NoneAcross(built))
<1> DEFINE Comparable == CharIsSigned => (built.terminator < CodeBase \div 2)
           Created == pc = "done" =>
                        /\ Ready(built) /\ NSymbols(built) > 0 /\ bestTable = FinalizeTable(built)
                        /\ Comparable => NoneAcross(built)
<1>1. SearchInv => Created
  <2> SUFFICES ASSUME SearchInv, pc = "done"
               PROVE  /\ Ready(built) /\ NSymbols(built) > 0 /\ bestTable = FinalizeTable(built)
                      /\ Comparable => NoneAcross(built)
    OBVIOUS
  <2>1. AtDone
    BY DEF SearchInv
  <2>2. ASSUME Comparable, NEW s \in Range(built.symbols), Len(s) >= 2, NEW i \in 1 .. Len(s)
        PROVE  s[i] # built.terminator
    <3>1. NoneIn(built, s)
      BY <2>1 DEF AtDone, GoodSymbol
    <3>2. ~ Life!IsTerminator(built, s[i])
      BY <2>2, <3>1 DEF NoneIn
    <3>3. built.terminator \in Int
      <4>1. built.terminator \in Byte
        BY <2>1 DEF AtDone, Ready, Terminated
      <4>2. \A b \in Byte : b \in Int
        BY TableAssumption
      <4> QED
        BY <4>1, <4>2
    <3>4. CodeBase \div 2 \in Int
      BY TableAssumption
    <3>5. s[i] = built.terminator => Life!CharValue(s[i]) = s[i]
      BY <2>2, <3>3, <3>4 DEF Life!CharValue
    <3> QED
      BY <3>2, <3>5 DEF Life!IsTerminator
  <2>3. Comparable => NoneAcross(built)
    <3> HIDE DEF Comparable
    <3> QED
      BY <2>2 DEF NoneAcross
  <2> QED
    BY <2>1, <2>3 DEF AtDone
<1> QED
  BY <1>1, SearchInvInit, SearchInvNext, PTL DEF Spec

--------------------------------------------------------------------------------
(* The operators of the symbol table are the same in SymbolTableLife.      *)
LEMMA LifeAdds == \A t, s : Life!AddSymbol(t, s) = AddSymbol(t, s)
BY Zenon DEF Life!AddSymbol, AddSymbol, Life!Refused, Refused, Life!NSymbols, NSymbols,
             Life!FreeSlot, FreeSlot, Life!CODE_MASK, CODE_MASK, Life!BucketOf, BucketOf,
             Life!Key, Key, Life!First2, First2

LEMMA LifeClears == \A t : Life!ClearTable(t) = ClearTable(t)
BY Zenon DEF Life!ClearTable, ClearTable, Life!Range, Range, Life!FreeSlot, FreeSlot,
             Life!CODE_MASK, CODE_MASK, Life!BucketOf, BucketOf, Life!Key, Key

LEMMA LifeEmpty == \A b, z : Life!EmptyTable(b, z) = EmptyTable(b, z)
BY Zenon DEF Life!EmptyTable, EmptyTable, Life!FreeSlot, FreeSlot, Life!CODE_MASK, CODE_MASK,
             Life!CODE_MAX, CODE_MAX

LEMMA LifeCodes == \A t : Life!NewCode(t) = NewCode(t)
BY Zenon DEF Life!NewCode, NewCode, Life!FromBack, FromBack, Life!GroupStart, GroupStart,
             Life!ByteLim, ByteLim, Life!NSymbols, NSymbols, Life!ZT, ZT,
             Life!SumFunctionOnSet, SumFunctionOnSet, Life!FoldFunctionOnSet, FoldFunctionOnSet,
             Life!MapThenFoldSet, MapThenFoldSet, Life!HasLonger, HasLonger,
             Life!First2, First2, Life!Cardinality, Cardinality

(* What finalize makes of t, by the new codes.                             *)
Finished(t, newCode) ==
  LET of(code) == newCode[code - CodeBase + 1]
      symbols  == MoveSymbols(t, newCode)
      byteCodes == [b \in Byte |->
                      IF isEscapeCode(t.byteCodes[b]) THEN CODE_MASK
                      ELSE of(t.byteCodes[b])]
  IN  [t EXCEPT
        !.symbols    = symbols,
        !.byteCodes  = byteCodes,
        !.shortCodes = [p \in Byte \X Byte |->
                          IF isEscapeCode(t.shortCodes[p].code)
                            THEN [code |-> byteCodes[p[1]], len |-> 1]
                            ELSE [code |-> of(t.shortCodes[p].code),
                                  len  |-> t.shortCodes[p].len]],
        !.hashTab    = [k \in Bucket |->
                          IF t.hashTab[k] = FreeSlot THEN FreeSlot
                          ELSE LET c == of(t.hashTab[k].code)
                               IN  [str |-> symbols[c + 1], code |-> c]],
        !.suffixLim  = ZT(t) + Cardinality({i \in ZT(t) + 1 .. NSymbols(t) :
                                  Len(t.symbols[i]) = 2 /\ ~ HasLonger(t, i)})]

LEMMA LifeFinishes == \A t : Life!FinalizeTable(t) = FinalizeTable(t)
<1>1. \A t : FinalizeTable(t) = Finished(t, NewCode(t))
  BY Zenon DEF FinalizeTable, Finished
<1>2. \A t : Life!FinalizeTable(t) = Finished(t, Life!NewCode(t))
  BY Zenon DEF Life!FinalizeTable, Finished, Life!FreeSlot, FreeSlot, Life!CODE_MASK, CODE_MASK,
               Life!isEscapeCode, isEscapeCode, Life!NSymbols, NSymbols, Life!ZT, ZT,
               Life!HasLonger, HasLonger, Life!First2, First2, Life!Cardinality, Cardinality,
               Life!MoveSymbols, MoveSymbols
<1> QED
  BY <1>1, <1>2, LifeCodes, Zenon

LEMMA LifeSizes ==
  /\ Life!MaxSymbols = MaxSymbols /\ Life!Symbol = Symbol
  /\ \A t : Life!NSymbols(t) = NSymbols(t)
  /\ \A s : Life!Range(s) = Range(s)
BY Zenon DEF Life!MaxSymbols, MaxSymbols, Life!Symbol, Symbol, Life!NSymbols, NSymbols,
             Life!Range, Range

(* What the steps of the search are to the table.                          *)
LEMMA StartIsInit ==
  ASSUME SearchInv, Start
  PROVE  pc = "sampled" /\ Life!Init'
<1>1. /\ pc = "sampled" /\ pc' = "count" /\ round' = round
      /\ st' = EmptyTable(IF zeroTerminated THEN 0 ELSE Rarest, zeroTerminated)
  BY DEF Start
<1>2. NoTableYet /\ SmallSample(sample)
  BY <1>1, SampleDrawn DEF SearchInv
<1> DEFINE terminator == IF zeroTerminated THEN 0 ELSE Rarest
<1>3. terminator \in Byte /\ (zeroTerminated => terminator = 0) /\ zeroTerminated \in BOOLEAN
  BY <1>2, RarestByte, TableAssumption DEF NoTableYet
<1>4. Table' = EmptyTable(terminator, zeroTerminated)
  <2>1. round' = 1
    BY <1>1, <1>2 DEF NoTableYet
  <2> QED
    BY <2>1, <1>1 DEF Table, FinalRound
<1> HIDE DEF terminator
<1>5. Life!EmptyTable(terminator, zeroTerminated) = EmptyTable(terminator, zeroTerminated)
  BY LifeEmpty
<1>6. pc' # "done"
  BY <1>1
<1>7. Life!Init'
  BY <1>3, <1>4, <1>5, <1>6 DEF Life!Init
<1> QED
  BY <1>1, <1>7

LEMMA ProposeClears ==
  ASSUME SearchInv, Propose
  PROVE  Life!Clear
<1> DEFINE t == IF round = 5 THEN bestTable ELSE st
<1>0. FinalRound = 6 /\ FinalRound - 1 = 5
  BY DEF FinalRound
<1>1. /\ pc = "propose" /\ pc' = "add"
      /\ IF round = 5 THEN round' = 6 /\ bestTable' = ClearTable(t)
                      ELSE st' = ClearTable(t) /\ round' = round
  BY <1>0 DEF Propose
<1>2. /\ round \in 1 .. 5 /\ TableOk(Symbols, st) /\ TableOk(Symbols, bestTable)
      /\ SameTerminator(bestTable, st)
  BY <1>1 DEF SearchInv, AtPropose, BestOk
<1>3. Table = st
  BY <1>0, <1>2 DEF Table
<1>4. Table' = ClearTable(t)
  <2>1. CASE round = 5
    BY <2>1, <1>0, <1>1 DEF Table
  <2>2. CASE round # 5
    <3>1. round' # 6 /\ st' = ClearTable(t)
      BY <2>2, <1>1, <1>2
    <3> QED
      BY <3>1, <1>0 DEF Table
  <2> QED
    BY <2>1, <2>2
<1>5. ClearTable(t) = ClearTable(st)
  <2>1. ClearTable(bestTable) = EmptyTable(bestTable.terminator, bestTable.zeroTerminated)
    BY <1>2, ClearGood DEF TableOk
  <2>2. ClearTable(st) = EmptyTable(st.terminator, st.zeroTerminated)
    BY <1>2, ClearGood DEF TableOk
  <2>3. ClearTable(bestTable) = ClearTable(st)
    BY <2>1, <2>2, <1>2 DEF SameTerminator
  <2> QED
    BY <2>3
<1> HIDE DEF t
<1>6. Table' = Life!ClearTable(Table)
  BY <1>3, <1>4, <1>5, LifeClears
<1>7. pc # "done" /\ pc' # "done"
  BY <1>1
<1> QED
  BY <1>6, <1>7 DEF Life!Clear

LEMMA AddBestAdds ==
  ASSUME SearchInv, AddBest
  PROVE  \E s \in Life!Symbol : Life!Add(s)
<1>1. /\ pc = "add" /\ pc' = pc /\ NSymbols(Table) < MaxSymbols /\ Added(Table, Table')
  BY AddedTo
<1>2. TableOk(Symbols, Table) /\ QueueOk(Symbols, Table, queue)
  BY <1>1 DEF SearchInv, AtAdd
<1>3. PICK q \in queue :
        /\ \A other \in queue : ~ Before(other, q)
        /\ queue' = queue \ {q} /\ Table' = AddSymbol(Table, q.symbol)
  BY <1>1 DEF Added
<1> DEFINE s == q.symbol
<1>4. /\ s \in Symbol /\ s \notin Range(Table.symbols) /\ GoodSymbol(Symbols, Table, s)
      /\ NSymbols(Table) = 0 => s = <<Table.terminator>>
  BY <1>1, <1>2, <1>3, TakenSymbol
<1>5. Table' = Life!AddSymbol(Table, s)
  BY <1>3, LifeAdds
<1> HIDE DEF s
<1>6. Life!Candidate(Table, s)
  BY <1>4, LifeSizes DEF Life!Candidate, GoodSymbol, NoneIn
<1>7. pc # "done" /\ pc' # "done"
  BY <1>1
<1>8. Life!Add(s)
  BY <1>1, <1>5, <1>6, <1>7, LifeSizes DEF Life!Add
<1> QED
  BY <1>4, <1>8, LifeSizes

LEMMA FinalizeFinishes ==
  ASSUME SearchInv, SampleInv', Finalize
  PROVE  Life!Finalize
<1>1. /\ pc = "add" /\ pc' = "done" /\ round = 6 /\ round' = round
      /\ built' = bestTable /\ bestTable' = FinalizeTable(bestTable)
  BY DEF Finalize, FinalRound
<1>2. NSymbols(bestTable) > 0
  BY FinalStep
<1>3. Table = bestTable /\ Table' = bestTable'
  BY <1>1 DEF Table, FinalRound
<1>4. Table' = Life!FinalizeTable(Table)
  BY <1>1, <1>3, LifeFinishes
<1>5. pc # "done" /\ pc' = "done"
  BY <1>1
<1>6. Life!NSymbols(Table) > 0
  BY <1>2, <1>3, LifeSizes
<1>7. built' = Table
  BY <1>1, <1>3
<1> QED
  BY <1>4, <1>5, <1>6, <1>7 DEF Life!Finalize

(* For every sample: the search does to a table nothing but what           *)
(* SymbolTableLife allows.                                                 *)
THEOREM ImplementsLifeAlways == Spec => ImplementsLife
<1> DEFINE Same  == Table' = Table /\ (pc' = "done") = (pc = "done")
           Steps == (pc = "sampled" /\ Life!Init') \/ Life!Next
<1>1. SearchInv /\ SampleInv' /\ [Next]_vars => Steps \/ Same
  <2> SUFFICES ASSUME SearchInv, SampleInv', [Next]_vars PROVE Steps \/ Same
    OBVIOUS
  <2>1. CASE MakeSample
    <3>1. Table' = Table
      BY <2>1 DEF MakeSample, Table, best
    <3>2. pc # "done" /\ pc' # "done"
      BY <2>1 DEF MakeSample, Draw, TakeAll, TakeChunk, EnoughDrawn
    <3> QED
      BY <3>1, <3>2
  <2>2. CASE Start
    BY <2>2, StartIsInit
  <2>3. CASE CompressCount
    <3>1. round' = round /\ st' = st /\ pc = "count" /\ pc' = "propose"
      BY <2>3 DEF CompressCount
    <3>2. round # 6
      BY <3>1 DEF SearchInv, AtCount
    <3>3. Table' = Table
      BY <3>1, <3>2 DEF Table, FinalRound
    <3> QED
      BY <3>1, <3>3
  <2>4. CASE Propose
    BY <2>4, ProposeClears DEF Life!Next
  <2>5. CASE AddBest
    BY <2>5, AddBestAdds DEF Life!Next
  <2>6. CASE NextRound
    <3>1. /\ round' = round + 1 /\ st' = st /\ pc = "add" /\ pc' = "count" /\ round < 6
      BY <2>6 DEF NextRound, FinalRound
    <3>2. round \in {1, 2, 3, 4, 6}
      BY <3>1 DEF SearchInv, AtAdd
    <3>3. round # 6 /\ round' # 6
      BY <3>1, <3>2
    <3>4. Table' = Table
      BY <3>1, <3>3 DEF Table, FinalRound
    <3> QED
      BY <3>1, <3>4
  <2>7. CASE Finalize
    BY <2>7, FinalizeFinishes DEF Life!Next
  <2>8. CASE UNCHANGED vars
    BY <2>8 DEF vars, best, Table
  <2> HIDE DEF Steps, Same
  <2> QED
    BY <2>1, <2>2, <2>3, <2>4, <2>5, <2>6, <2>7, <2>8 DEF Next, BuildTable, Build, Return
<1>2. SearchInv /\ SampleInv' /\ [Next]_vars => [Steps]_<<Table, pc = "done">>
  <2>1. Same => UNCHANGED <<Table, pc = "done">>
    OBVIOUS
  <2> QED
    BY <1>1, <2>1
<1>3. SearchInv => SampleInv
  BY DEF SearchInv
<1> QED
  BY <1>2, <1>3, SearchInvInit, SearchInvNext, PTL DEF Spec, ImplementsLife

--------------------------------------------------------------------------------
(* Sums and counts over the places symbols are used at.                    *)

(* A sum that is known for every part of the set.                          *)
SumsTo(fun, S, m) ==
  /\ m \in [SUBSET S -> Int] /\ m[{}] = 0
  /\ \A W \in SUBSET S : \A x \in W : m[W] = fun[x] + m[W \ {x}]

(* There is one such sum, and SumFunctionOnSet is it.                      *)
LEMMA SumIs ==
  ASSUME NEW fun, NEW S, IsFiniteSet(S), \A x \in S : fun[x] \in Int, NEW m, SumsTo(fun, S, m)
  PROVE  SumFunctionOnSet(fun, S) = m[S]
<1>0. /\ m \in [SUBSET S -> Int] /\ m[{}] = 0
      /\ \A W \in SUBSET S : \A x \in W : m[W] = fun[x] + m[W \ {x}]
  BY DEF SumsTo
<1>1. m[S] \in Int /\ \A W \in SUBSET S : m[W] \in Int
  BY <1>0
<1>2. \A W \in SUBSET S : \A x \in W : m[W] <= fun[x] + m[W \ {x}] /\ fun[x] + m[W \ {x}] <= m[W]
  <2> SUFFICES ASSUME NEW W \in SUBSET S, NEW x \in W
               PROVE  m[W] <= fun[x] + m[W \ {x}] /\ fun[x] + m[W \ {x}] <= m[W]
    OBVIOUS
  <2>1. m[W] = fun[x] + m[W \ {x}] /\ m[W] \in Int
    BY <1>0, <1>1
  <2> QED
    BY <2>1
<1> DEFINE sum == SumFunctionOnSet(fun, S)
<1>3. sum \in Int /\ m[S] <= sum /\ sum <= m[S]
  <2>1. m[{}] <= 0 /\ 0 <= m[{}]
    BY <1>0
  <2> QED
    BY <2>1, <1>0, <1>2, SumBetween
<1> HIDE DEF sum
<1>4. sum = m[S]
  BY <1>1, <1>3
<1> QED
  BY <1>4 DEF sum

(* Counts of different things, added up: so many events are of one of them. *)
EventsAt(h, key, W) == {e \in DOMAIN h : \E x \in W : key[x] = h[e]}

(* Counting events place by place counts the events.                       *)
LEMMA CountsTogether ==
  ASSUME NEW h, IsFiniteSet(DOMAIN h), NEW S, IsFiniteSet(S), NEW key,
         \A x, y \in S : key[x] = key[y] => x = y,
         NEW K \in Nat, NEW fun, \A x \in S : fun[x] = K * Times(h, key[x])
  PROVE  SumFunctionOnSet(fun, S) = K * Cardinality(EventsAt(h, key, S))
<1> DEFINE n(W) == Cardinality(EventsAt(h, key, W))
           m == [W \in SUBSET S |-> K * n(W)]
<1>1. \A W : IsFiniteSet(EventsAt(h, key, W)) /\ n(W) \in Nat
  <2> TAKE W
  <2>1. EventsAt(h, key, W) \subseteq DOMAIN h
    BY DEF EventsAt
  <2> QED
    BY <2>1, FS_Subset, FS_CardinalityType
<1>2. \A x \in S : Times(h, key[x]) \in Nat
  BY TimesType
<1>3. n({}) = 0
  <2>1. EventsAt(h, key, {}) = {}
    BY DEF EventsAt
  <2> QED
    BY <2>1, FS_EmptySet
<1>4. ASSUME NEW W \in SUBSET S, NEW x \in W
      PROVE  n(W) = Times(h, key[x]) + n(W \ {x})
  <2> DEFINE A == {e \in DOMAIN h : h[e] = key[x]}
             B == EventsAt(h, key, W \ {x})
  <2>1. EventsAt(h, key, W) = A \cup B
    BY DEF EventsAt
  <2>2. A \cap B = {}
    BY DEF EventsAt
  <2>3. IsFiniteSet(A) /\ IsFiniteSet(B)
    BY <1>1, FS_Subset
  <2>4. Cardinality(A) = Times(h, key[x])
    BY DEF Times
  <2> HIDE DEF A, B
  <2>5. Cardinality(A \cup B) = Cardinality(A) + Cardinality(B) - Cardinality(A \cap B)
    BY <2>3, FS_Union
  <2>6. Cardinality(A \cap B) = 0 /\ Cardinality(A) \in Nat /\ Cardinality(B) \in Nat
    BY <2>2, <2>3, FS_EmptySet, FS_CardinalityType
  <2>7. Cardinality(A \cup B) = Cardinality(A) + Cardinality(B)
    BY <2>5, <2>6
  <2> QED
    BY <2>1, <2>4, <2>7 DEF B
<1> HIDE DEF n
<1>5. \A W \in SUBSET S : m[W] = K * n(W)
  OBVIOUS
<1>6. \A a, b \in Nat : K * (a + b) = K * a + K * b
  OBVIOUS
<1>7. \A a \in Nat : K * a \in Int
  OBVIOUS
<1>8. m \in [SUBSET S -> Int]
  BY <1>1, <1>7
<1>9. m[{}] = 0
  BY <1>3, <1>5
<1>10. \A x \in S : fun[x] \in Int
  BY <1>2, <1>7
<1> HIDE DEF m
<1>11. ASSUME NEW W \in SUBSET S, NEW x \in W PROVE m[W] = fun[x] + m[W \ {x}]
  <2>1. x \in S /\ W \ {x} \in SUBSET S
    OBVIOUS
  <2>2. m[W] = K * n(W) /\ m[W \ {x}] = K * n(W \ {x})
    BY <2>1, <1>5
  <2>3. n(W) = Times(h, key[x]) + n(W \ {x})
    BY <1>4
  <2>4. K * n(W) = K * Times(h, key[x]) + K * n(W \ {x})
    BY <2>1, <2>3, <1>1, <1>2, <1>6
  <2> QED
    BY <2>1, <2>2, <2>4, Zenon
<1>12. SumFunctionOnSet(fun, S) = m[S]
  <2>1. SumsTo(fun, S, m)
    BY <1>8, <1>9, <1>11 DEF SumsTo
  <2> QED
    BY <2>1, <1>10, SumIs
<1> QED
  BY <1>5, <1>12 DEF n

--------------------------------------------------------------------------------
(* What the counters of a round say of the symbols it used.                *)

(* The symbols a table compresses lines with, how often one is used and    *)
(* how often one begins with its first byte, and what that is worth.       *)
UsedBy(t, codes) ==
  [i \in DOMAIN codes |-> [k \in DOMAIN codes[i] |-> SymbolOf(t, codes[i][k])]]

TimesIn(used, s) == Cardinality({x \in Places(used) : used[x[1]][x[2]] = s})
BegunIn(used, s) == Cardinality({x \in Places(used) : used[x[1]][x[2]][1] = s[1]})
WorthIn(used, s) ==
  IF Len(s) = 1 THEN 8 * BegunIn(used, s)
                ELSE IF TimesIn(used, s) >= 5 THEN Len(s) * TimesIn(used, s) ELSE 0

(* The counts of the symbols, by the codes that are counted.               *)
OccurIn(used, s) == IF Len(s) = 1 THEN BegunIn(used, s) ELSE TimesIn(used, s)
EventsFor(t, h, s) == {e \in DOMAIN h : SymbolOf(t, h[e]) = s}

(* The places of the codes are those of the symbols.                       *)
LEMMA UsedPlaces ==
  ASSUME NEW t, NEW codes
  PROVE  /\ Places(UsedBy(t, codes)) = Places(codes)
         /\ \A x \in Places(codes) : UsedBy(t, codes)[x[1]][x[2]] = SymbolOf(t, CodeIn(codes, x))
<1> DEFINE u == UsedBy(t, codes)
           line(i) == [k \in DOMAIN codes[i] |-> SymbolOf(t, codes[i][k])]
<1>1. DOMAIN u = DOMAIN codes /\ \A i \in DOMAIN codes : u[i] = line(i)
  BY DEF UsedBy
<1>2. \A i : DOMAIN line(i) = DOMAIN codes[i]
             /\ \A k \in DOMAIN codes[i] : line(i)[k] = SymbolOf(t, codes[i][k])
  OBVIOUS
<1> HIDE DEF u, line
<1>3. Places(u) = Places(codes)
  BY <1>1, <1>2 DEF Places
<1>4. ASSUME NEW x \in Places(codes) PROVE u[x[1]][x[2]] = SymbolOf(t, CodeIn(codes, x))
  <2>1. x[1] \in DOMAIN codes /\ x[2] \in DOMAIN codes[x[1]]
    BY DEF Places
  <2> QED
    BY <2>1, <1>1, <1>2 DEF CodeIn
<1> QED
  BY <1>3, <1>4 DEF u

(* The codes of lines are codes of the table.                              *)
LEMMA CodesValid ==
  ASSUME NEW t, Agrees(t), NEW lines, SmallSample(lines), NEW codes, CodedLines(t, lines, codes)
  PROVE  /\ IsFiniteSet(Places(codes))
         /\ \A x \in Places(codes) :
              LET s == SymbolOf(t, CodeIn(codes, x))
              IN  /\ ValidCode(t, CodeIn(codes, x)) /\ s \in Symbol
                  /\ s[1] \in Byte /\ FirstByte(t, CodeIn(codes, x)) = s[1]
                  /\ Longer(t, CodeIn(codes, x)) <=> Len(s) > 1
<1>1. IsFiniteSet(Places(codes))
  BY SinglesTallied
<1>2. PICK at : LaidOut(t, lines, codes, at)
  BY Layout
<1>3. ASSUME NEW x \in Places(codes)
      PROVE  LET s == SymbolOf(t, CodeIn(codes, x))
             IN  /\ ValidCode(t, CodeIn(codes, x)) /\ s \in Symbol
                 /\ s[1] \in Byte /\ FirstByte(t, CodeIn(codes, x)) = s[1]
                 /\ Longer(t, CodeIn(codes, x)) <=> Len(s) > 1
  <2> DEFINE s == SymbolOf(t, CodeIn(codes, x))
  <2>1. ValidCode(t, CodeIn(codes, x))
    BY <1>2 DEF LaidOut, StandsAt, CodeThere
  <2>2. s \in Symbol
    BY <2>1, CodeSymbol
  <2>3. s \in Seq(Byte) /\ Len(s) \in 1 .. MaxLength /\ \A i \in 1 .. Len(s) : s[i] \in Byte
    BY <2>2, SymbolIsSeq
  <2>4. MaxLength \in Nat
    BY TableAssumption
  <2>5. s[1] \in Byte /\ Head(s) = s[1]
    <3> HIDE DEF s
    <3> QED
      BY <2>3, <2>4
  <2> QED
    BY <2>1, <2>2, <2>5 DEF Longer, FirstByte
<1> QED
  BY <1>1, <1>3

(* The events that are counted for a symbol are its uses, and for a byte   *)
(* also the longer symbols that begin with it.                             *)
LEMMA SymbolCounts ==
  ASSUME NEW t, Agrees(t), NEW lines, SmallSample(lines), NEW codes, CodedLines(t, lines, codes),
         NEW s \in Symbol
  PROVE  Cardinality(EventsFor(t, Both(SingleEvents(codes), FirstEvents(t, codes)), s))
           = OccurIn(UsedBy(t, codes), s)
<1> DEFINE f == SingleEvents(codes)
           g == FirstEvents(t, codes)
           h == Both(f, g)
           F == [x \in DOMAIN f |-> SymbolOf(t, f[x])]
           G == [x \in DOMAIN g |-> SymbolOf(t, g[x])]
           u == UsedBy(t, codes)
           text(x) == SymbolOf(t, CodeIn(codes, x))
           P == Places(codes)
           L == LongerPlaces(t, codes)
<1>0. /\ IsFiniteSet(P)
      /\ \A x \in P : /\ ValidCode(t, CodeIn(codes, x)) /\ text(x) \in Symbol
                      /\ text(x)[1] \in Byte /\ FirstByte(t, CodeIn(codes, x)) = text(x)[1]
                      /\ Longer(t, CodeIn(codes, x)) <=> Len(text(x)) > 1
  BY CodesValid
<1>1. /\ DOMAIN f = P /\ \A x \in P : f[x] = CodeIn(codes, x)
      /\ DOMAIN g = L /\ \A x \in L : g[x] = FirstByte(t, CodeIn(codes, x))
      /\ L \subseteq P
  BY DEF SingleEvents, FirstEvents, LongerPlaces
<1>2. DOMAIN F = P /\ \A x \in P : F[x] = text(x)
  BY <1>1
<1>3. DOMAIN G = L /\ \A x \in L : G[x] = <<text(x)[1]>> /\ x \in P /\ Len(text(x)) > 1
  <2>1. \A x \in L : x \in P /\ Longer(t, CodeIn(codes, x))
    BY DEF LongerPlaces
  <2>2. \A b \in Byte : SymbolOf(t, b) = <<b>>
    BY CodeSymbol DEF ValidCode
  <2>3. ASSUME NEW x \in L PROVE G[x] = <<text(x)[1]>> /\ x \in P /\ Len(text(x)) > 1
    <3>1. G[x] = SymbolOf(t, g[x]) /\ g[x] = FirstByte(t, CodeIn(codes, x))
      BY <1>1
    <3> HIDE DEF G, g, text
    <3> QED
      BY <3>1, <2>1, <2>2, <1>0
  <2> QED
    BY <2>3, <1>1
<1>4. IsFiniteSet(DOMAIN F) /\ IsFiniteSet(DOMAIN G)
  BY <1>0, <1>1, <1>2, <1>3, FS_Subset
<1>5. EventsFor(t, h, s) = {e \in DOMAIN Both(F, G) : Both(F, G)[e] = s}
  <2>1. DOMAIN h = ({1} \X P) \cup ({2} \X L) /\ DOMAIN Both(F, G) = DOMAIN h
    BY <1>1, <1>2, <1>3 DEF Both
  <2>2. ASSUME NEW e \in DOMAIN h PROVE Both(F, G)[e] = SymbolOf(t, h[e])
    <3>1. CASE e[1] = 1
      <4>1. e[2] \in DOMAIN f
        BY <2>1, <3>1, <1>1
      <4>2. Both(F, G)[e] = F[e[2]] /\ h[e] = f[e[2]]
        BY <2>1, <3>1 DEF Both
      <4> QED
        BY <4>1, <4>2
    <3>2. CASE e[1] # 1
      <4>1. e[2] \in DOMAIN g
        BY <2>1, <3>2, <1>1
      <4>2. Both(F, G)[e] = G[e[2]] /\ h[e] = g[e[2]]
        BY <2>1, <3>2 DEF Both
      <4> QED
        BY <4>1, <4>2
    <3> QED
      BY <3>1, <3>2
  <2> HIDE DEF h, F, G
  <2> QED
    BY <2>1, <2>2 DEF EventsFor
<1>6. Cardinality(EventsFor(t, h, s)) = Times(F, s) + Times(G, s)
  <2>1. Times(Both(F, G), s) = Times(F, s) + Times(G, s)
    BY <1>4, BothTimes
  <2> HIDE DEF F, G, h
  <2> QED
    BY <2>1, <1>5, Zenon DEF Times
<1>7. Places(u) = P /\ \A x \in P : u[x[1]][x[2]] = text(x)
  BY UsedPlaces
<1> HIDE DEF f, g, h, F, G, u
<1>8. Times(F, s) \in Nat /\ Times(G, s) \in Nat /\ (s \notin Range(G) => Times(G, s) = 0)
  BY <1>4, TimesType
<1>9. Times(F, s) = TimesIn(u, s)
  <2>1. {x \in DOMAIN F : F[x] = s} = {x \in Places(u) : u[x[1]][x[2]] = s}
    BY <1>2, <1>7
  <2> QED
    BY <2>1 DEF Times, TimesIn
<1>10. CASE Len(s) # 1
  <2>1. s \notin Range(G)
    <3>1. \A x \in L : Len(G[x]) = 1
      <4>1. \A b : Len(<<b>>) = 1
        OBVIOUS
      <4> HIDE DEF text, L, P
      <4> QED
        BY <4>1, <1>3, Zenon
    <3> QED
      BY <3>1, <1>3, <1>10 DEF Range
  <2> QED
    BY <2>1, <1>6, <1>8, <1>9, <1>10 DEF OccurIn, h, f, g, u
<1>11. CASE Len(s) = 1
  <2> DEFINE A == {x \in DOMAIN F : F[x] = s}
             B == {x \in DOMAIN G : G[x] = s}
             C == {x \in Places(u) : u[x[1]][x[2]][1] = s[1]}
  <2>1. s = <<s[1]>> /\ s[1] \in Byte
    BY <1>11, ShortSymbols
  <2>2. C = A \cup B
    <3>1. ASSUME NEW x \in P PROVE text(x)[1] = s[1] <=> text(x) = s \/ (x \in L /\ <<text(x)[1]>> = s)
      <4>1. text(x) \in Symbol /\ (Longer(t, CodeIn(codes, x)) <=> Len(text(x)) > 1)
        BY <1>0
      <4>2. Len(text(x)) = 1 => text(x) = <<text(x)[1]>>
        BY <4>1, ShortSymbols
      <4>3. Len(text(x)) = 1 \/ Len(text(x)) > 1
        <5> DEFINE n == Len(text(x))
        <5>1. n \in 1 .. MaxLength /\ MaxLength \in Nat
          BY <4>1, SymbolIsSeq, TableAssumption
        <5> HIDE DEF n
        <5>2. n = 1 \/ n > 1
          BY <5>1
        <5> QED
          BY <5>2 DEF n
      <4>4. x \in L <=> Len(text(x)) > 1
        BY <4>1 DEF LongerPlaces
      <4> DEFINE y == text(x)
      <4> HIDE DEF y
      <4>5. y[1] = s[1] <=> <<y[1]>> = s
        BY <2>1
      <4>6. text(x)[1] = s[1] <=> <<text(x)[1]>> = s
        BY <4>5, Zenon DEF y
      <4>7. text(x) = s => text(x)[1] = s[1]
        BY Zenon
      <4> HIDE DEF text, L
      <4> QED
        BY <4>2, <4>3, <4>4, <4>6, <4>7, Zenon
    <3> HIDE DEF text, L, P
    <3> QED
      BY <3>1, <1>2, <1>3, <1>7
  <2>3. A \cap B = {}
    <3>1. ASSUME NEW x \in A, x \in B PROVE FALSE
      <4>1. x \in L /\ text(x) = s /\ Len(text(x)) > 1
        BY <3>1, <1>2, <1>3
      <4> HIDE DEF text
      <4> QED
        BY <4>1, <1>11
    <3> QED
      BY <3>1
  <2>4. IsFiniteSet(A) /\ IsFiniteSet(B)
    BY <1>4, FS_Subset
  <2>5. Cardinality(A) = Times(F, s) /\ Cardinality(B) = Times(G, s) /\ Cardinality(C) = BegunIn(u, s)
    BY Zenon DEF Times, BegunIn
  <2> HIDE DEF A, B, C
  <2>6. Cardinality(A \cup B) = Cardinality(A) + Cardinality(B) - Cardinality(A \cap B)
    BY <2>4, FS_Union
  <2>7. Cardinality(A \cap B) = 0
    BY <2>3, FS_EmptySet
  <2>8. BegunIn(u, s) = Times(F, s) + Times(G, s)
    BY <2>2, <2>5, <2>6, <2>7, <1>8
  <2> QED
    BY <2>8, <1>6, <1>11 DEF OccurIn, h, f, g, u
<1> QED
  BY <1>10, <1>11 DEF h, f, g, u

--------------------------------------------------------------------------------
(* What a proposal is worth.                                               *)

(* A longer symbol has one code.                                           *)
LEMMA LongerCode ==
  ASSUME NEW t, Agrees(t), NEW p, ValidCode(t, p), NEW q, ValidCode(t, q),
         SymbolOf(t, p) = SymbolOf(t, q), Len(SymbolOf(t, p)) # 1
  PROVE  p = q
<1>0. \A b : Len(<<b>>) = 1
  OBVIOUS
<1>1. ASSUME NEW c, ValidCode(t, c), Len(SymbolOf(t, c)) # 1
      PROVE  \E i \in DOMAIN t.symbols : c = CodeOf(i) /\ SymbolOf(t, c) = t.symbols[i]
  <2>1. c \notin Byte
    <3>1. c \in Byte => SymbolOf(t, c) = <<c>>
      BY <1>1, CodeSymbol
    <3> QED
      BY <3>1, <1>0, <1>1
  <2>2. PICK i \in DOMAIN t.symbols : c = CodeOf(i)
    BY <2>1, <1>1 DEF ValidCode
  <2>3. SymbolOf(t, c) = t.symbols[i]
    BY <2>2, <1>1, CodeSymbol
  <2> QED
    BY <2>2, <2>3
<1>2. PICK i \in DOMAIN t.symbols : p = CodeOf(i) /\ SymbolOf(t, p) = t.symbols[i]
  BY <1>1
<1>3. PICK k \in DOMAIN t.symbols : q = CodeOf(k) /\ SymbolOf(t, q) = t.symbols[k]
  BY <1>1
<1>4. i = k
  BY <1>2, <1>3, SymbolsDistinct
<1> QED
  BY <1>2, <1>3, <1>4

(* What a code that was counted is proposed for.                           *)
SingleOf(t, w, p) ==
  [code |-> <<p>>, symbol |-> SymbolOf(t, p), count |-> IF Longer(t, p) THEN w[p] ELSE 8 * w[p]]

CountFor(h, s, p) == IF Len(s) > 1 THEN Times(h, p) ELSE 8 * Times(h, p)

CountedAs(t, h, s, x) ==
  /\ x.code[1] \in Range(h) /\ SymbolOf(t, x.code[1]) = s /\ x.symbol = s
  /\ x.count = CountFor(h, s, x.code[1]) /\ x.count >= 5

(* With the whole sample scanned, five uses are enough.                    *)
LEMMA EnoughIs == \A n : Enough(n, 128) <=> n >= 5
<1>1. (5 * 128) \div 128 = 5
  OBVIOUS
<1> QED
  BY <1>1 DEF Enough

Scanned(t, c) == {x \in Singles(t, WithTerminator(t, c)) : Enough(x.count, 128)}

ProposalsAre(t, h, s, X) ==
  /\ \A x \in X : CountedAs(t, h, s, x)
  /\ \A x, y \in X : x.code[1] = y.code[1] => x = y
  /\ \A p \in Range(h) :
       SymbolOf(t, p) = s /\ CountFor(h, s, p) >= 5 => \E x \in X : x.code[1] = p

(* Each singly counted symbol is proposed, with its worth.                 *)
LEMMA ProposalsFor ==
  ASSUME NEW t, Ready(t), NEW h, IsFiniteSet(DOMAIN h), \A p \in Range(h) : ValidCode(t, p),
         NEW s, s # <<t.terminator>>
  PROVE  ProposalsAre(t, h, s, Of(Scanned(t, BagOf(h)), s))
<1> DEFINE c == BagOf(h)
           w == WithTerminator(t, c)
           E == Scanned(t, c)
<1>0. E = {x \in Singles(t, w) : Enough(x.count, 128)}
  BY Zenon DEF Scanned
<1>1. DOMAIN c = Range(h) /\ \A p \in Range(h) : c[p] = Times(h, p)
  BY DEF BagOf, Times
<1>2. /\ SymbolOf(t, TermCode(t)) = <<t.terminator>> /\ DOMAIN w = DOMAIN c \cup {TermCode(t)}
      /\ \A p \in DOMAIN c : p # TermCode(t) => w[p] = c[p]
  BY TerminatorIs
<1>3. Singles(t, w) = {SingleOf(t, w, p) : p \in DOMAIN w}
  BY Zenon DEF Singles, SingleOf
<1> HIDE DEF c, w, E
<1>4. ASSUME NEW p \in DOMAIN w, SymbolOf(t, p) = s
      PROVE  /\ p \in Range(h) /\ w[p] = Times(h, p)
             /\ SingleOf(t, w, p).count = CountFor(h, s, p)
  <2>1. p # TermCode(t)
    BY <1>2, <1>4
  <2>2. p \in Range(h) /\ w[p] = Times(h, p)
    BY <2>1, <1>1, <1>2
  <2>3. SingleOf(t, w, p).count = IF Longer(t, p) THEN w[p] ELSE 8 * w[p]
    BY DEF SingleOf
  <2>4. Longer(t, p) <=> Len(s) > 1
    BY <1>4 DEF Longer
  <2> QED
    BY <2>2, <2>3, <2>4 DEF CountFor
<1>5. \A p : /\ SingleOf(t, w, p).code[1] = p /\ SingleOf(t, w, p).symbol = SymbolOf(t, p)
  BY DEF SingleOf
<1>6. ASSUME NEW x \in Of(E, s)
      PROVE  x = SingleOf(t, w, x.code[1]) /\ CountedAs(t, h, s, x)
  <2>1. x \in Singles(t, w) /\ Enough(x.count, 128) /\ x.symbol = s
    BY <1>0 DEF Of
  <2>2. PICK p \in DOMAIN w : x = SingleOf(t, w, p)
    BY <2>1, <1>3
  <2>3. x.code[1] = p /\ SymbolOf(t, p) = s
    BY <2>1, <2>2, <1>5
  <2>4. x.count >= 5
    BY <2>1, EnoughIs
  <2> QED
    BY <2>1, <2>2, <2>3, <2>4, <1>4 DEF CountedAs
<1>7. ASSUME NEW x \in Of(E, s), NEW y \in Of(E, s), x.code[1] = y.code[1] PROVE x = y
  <2>1. x = SingleOf(t, w, x.code[1]) /\ y = SingleOf(t, w, y.code[1])
    BY <1>6
  <2> QED
    BY <2>1, <1>7, Zenon
<1>8. ASSUME NEW p \in Range(h), SymbolOf(t, p) = s, CountFor(h, s, p) >= 5
      PROVE  \E x \in Of(E, s) : x.code[1] = p
  <2> DEFINE x == SingleOf(t, w, p)
  <2>1. p \in DOMAIN w
    BY <1>1, <1>2
  <2>2. x \in Singles(t, w) /\ x.symbol = s /\ x.code[1] = p
    BY <2>1, <1>3, <1>5, <1>8
  <2>3. Enough(x.count, 128)
    BY <2>1, <1>4, <1>8, EnoughIs
  <2> HIDE DEF x
  <2>4. x \in Of(E, s)
    BY <2>2, <2>3, <1>0 DEF Of
  <2> QED
    BY <2>2, <2>4
<1> QED
  BY <1>6, <1>7, <1>8, Zenon DEF ProposalsAre, c, E

(* Their gain is what the symbol is worth.                                 *)
WorthOf(s, n) == IF Len(s) = 1 THEN 8 * n ELSE IF n >= 5 THEN Len(s) * n ELSE 0

(* What the counters say a symbol gained is what it is worth.              *)
LEMMA GainIsWorth ==
  ASSUME NEW t, Ready(t), NEW h, IsFiniteSet(DOMAIN h), \A p \in Range(h) : ValidCode(t, p),
         NEW s \in Symbol, s # <<t.terminator>>
  PROVE  LET worth == WorthOf(s, Cardinality(EventsFor(t, h, s)))
             E     == Scanned(t, BagOf(h))
         IN  /\ worth \in Nat
             /\ Of(E, s) # {} <=> worth > 0
             /\ Of(E, s) # {} => GainFor(E, s) = worth
<1> DEFINE E == Scanned(t, BagOf(h))
           S == Of(E, s)
           n == Cardinality(EventsFor(t, h, s))
           m == Len(s)
           key == [x \in S |-> x.code[1]]
           fun == [x \in S |-> x.count * Len(s)]
           K == IF m = 1 THEN 8 ELSE m
<1>1. m \in Nat /\ m >= 1 /\ (m # 1 <=> m > 1)
  <2>1. m \in 1 .. MaxLength /\ MaxLength \in Nat
    BY SymbolIsSeq, TableAssumption
  <2> HIDE DEF m
  <2> QED
    BY <2>1
<1>2. /\ \A x \in S : CountedAs(t, h, s, x)
      /\ \A x, y \in S : x.code[1] = y.code[1] => x = y
      /\ \A p \in Range(h) :
           SymbolOf(t, p) = s /\ CountFor(h, s, p) >= 5 => \E x \in S : x.code[1] = p
  <2>1. ProposalsAre(t, h, s, S)
    BY ProposalsFor
  <2> QED
    BY <2>1, Zenon DEF ProposalsAre
<1>3. GainFor(E, s) = SumFunctionOnSet(fun, S)
  BY Zenon DEF GainFor
<1>4. (\A x \in S : key[x] = x.code[1] /\ fun[x] = x.count * m) /\ DOMAIN key = S
  OBVIOUS
<1> HIDE DEF key, fun, S
<1>5. IsFiniteSet(EventsFor(t, h, s)) /\ n \in Nat /\ (n = 0 <=> EventsFor(t, h, s) = {})
  <2>1. EventsFor(t, h, s) \subseteq DOMAIN h
    BY DEF EventsFor
  <2> QED
    BY <2>1, FS_Subset, FS_CardinalityType, FS_EmptySet
<1>6. \A p : Times(h, p) \in Nat
  BY TimesType
<1>7. IsFiniteSet(S)
  <2>1. IsFiniteSet(Range(h))
    <3> DEFINE r == [e \in DOMAIN h |-> h[e]]
    <3>1. r \in Surjection(DOMAIN h, Range(h))
      BY DEF Surjection, Range
    <3> QED
      BY <3>1, FS_Surjection
  <2>2. \A x \in S : key[x] \in Range(h)
    BY <1>2, <1>4 DEF CountedAs
  <2>3. key = [x \in S |-> key[x]]
    BY DEF key
  <2>4. key \in [S -> Range(h)] /\ \A x, y \in S : key[x] = key[y] => x = y
    BY <2>2, <2>3, <1>2, <1>4
  <2>5. key \in Injection(S, Range(h))
    BY <2>4 DEF Injection, IsInjective
  <2> QED
    BY <2>1, <2>5, FS_Injection
<1>8. K \in Nat
  BY <1>1
<1>9. \A x \in S : fun[x] = K * Times(h, key[x])
  <2> SUFFICES ASSUME NEW x \in S PROVE fun[x] = K * Times(h, key[x])
    OBVIOUS
  <2> DEFINE k == Times(h, key[x])
             a == x.count
  <2>1. a = (IF m > 1 THEN k ELSE 8 * k) /\ k \in Nat /\ fun[x] = a * m
    BY <1>2, <1>4, <1>6 DEF CountedAs, CountFor
  <2> HIDE DEF k, a, m
  <2>2. \A i, j \in Nat : i * j = j * i
    OBVIOUS
  <2>3. fun[x] = K * k
    <3>1. CASE m > 1
      BY <2>1, <2>2, <3>1, <1>1
    <3>2. CASE m = 1
      BY <2>1, <3>2
    <3> QED
      BY <3>1, <3>2, <1>1
  <2> QED
    BY <2>3 DEF k
<1>10. \A x, y \in S : key[x] = key[y] => x = y
  BY <1>2, <1>4
<1> HIDE DEF K
<1>11. SumFunctionOnSet(fun, S) = K * Cardinality(EventsAt(h, key, S))
  BY <1>7, <1>8, <1>9, <1>10, CountsTogether
<1>12. \A e \in DOMAIN h : h[e] \in Range(h)
  BY DEF Range
<1>13. EventsAt(h, key, S) \subseteq EventsFor(t, h, s)
  <2>1. \A x \in S : SymbolOf(t, key[x]) = s
    BY <1>2, <1>4 DEF CountedAs
  <2> QED
    BY <2>1 DEF EventsAt, EventsFor
<1>14. CASE m = 1
  <2>1. ASSUME NEW e \in EventsFor(t, h, s) PROVE \E x \in S : key[x] = h[e]
    <3>1. h[e] \in Range(h) /\ SymbolOf(t, h[e]) = s /\ e \in DOMAIN h
      BY <1>12 DEF EventsFor
    <3>2. Times(h, h[e]) # 0
      <4> DEFINE W == {y \in DOMAIN h : h[y] = h[e]}
      <4>1. e \in W /\ IsFiniteSet(W)
        BY <3>1, FS_Subset
      <4> HIDE DEF W
      <4>2. Cardinality(W) # 0
        BY <4>1, FS_EmptySet
      <4> QED
        BY <4>2 DEF Times, W
    <3>3. 8 * Times(h, h[e]) >= 5
      <4> DEFINE k == Times(h, h[e])
      <4>1. k \in Nat /\ k # 0
        BY <3>2, <1>6
      <4> HIDE DEF k
      <4>2. 8 * k >= 5
        BY <4>1
      <4> QED
        BY <4>2 DEF k
    <3>4. ~ (m > 1)
      BY <1>14
    <3>5. \E x \in S : x.code[1] = h[e]
      <4> HIDE DEF m
      <4> QED
        BY <3>1, <3>3, <3>4, <1>2 DEF CountFor, m
    <3> QED
      BY <3>5, <1>4
  <2>2. EventsAt(h, key, S) = EventsFor(t, h, s)
    BY <2>1, <1>13 DEF EventsAt, EventsFor
  <2>3. GainFor(E, s) = 8 * n
    BY <2>2, <1>3, <1>11, <1>14 DEF K
  <2>4. S # {} <=> n # 0
    <3>1. S # {} => EventsFor(t, h, s) # {}
      <4>1. ASSUME NEW x \in S PROVE \E e \in DOMAIN h : SymbolOf(t, h[e]) = s
        BY <4>1, <1>2 DEF CountedAs, Range
      <4> QED
        BY <4>1 DEF EventsFor
    <3>2. EventsFor(t, h, s) # {} => S # {}
      BY <2>1
    <3> QED
      BY <3>1, <3>2, <1>5
  <2>5. WorthOf(s, n) = 8 * n
    BY <1>14 DEF WorthOf
  <2> HIDE DEF n
  <2>6. 8 * n \in Nat /\ (n # 0 <=> 8 * n > 0)
    BY <1>5
  <2> QED
    BY <2>3, <2>4, <2>5, <2>6 DEF n, S
<1>15. CASE m # 1
  <2>1. ASSUME NEW p \in Range(h), SymbolOf(t, p) = s
        PROVE  EventsFor(t, h, s) = {e \in DOMAIN h : h[e] = p} /\ Times(h, p) = n
    <3>1. ASSUME NEW q \in Range(h), SymbolOf(t, q) = s PROVE q = p
      <4>1. ValidCode(t, p) /\ ValidCode(t, q) /\ Agrees(t)
        BY <2>1, <3>1 DEF Ready
      <4>2. SymbolOf(t, p) = SymbolOf(t, q) /\ Len(SymbolOf(t, p)) # 1
        BY <2>1, <3>1, <1>15
      <4> QED
        BY <4>1, <4>2, LongerCode, Zenon
    <3>2. EventsFor(t, h, s) = {e \in DOMAIN h : h[e] = p}
      BY <2>1, <3>1, <1>12 DEF EventsFor
    <3> QED
      BY <3>2 DEF Times
  <2>2. ASSUME NEW x \in S PROVE EventsAt(h, key, S) = EventsFor(t, h, s) /\ n >= 5
    <3>1. x.code[1] \in Range(h) /\ SymbolOf(t, x.code[1]) = s /\ key[x] = x.code[1]
          /\ Times(h, x.code[1]) >= 5
      BY <1>1, <1>2, <1>4, <1>15 DEF CountedAs, CountFor
    <3>2. EventsFor(t, h, s) = {e \in DOMAIN h : h[e] = x.code[1]} /\ Times(h, x.code[1]) = n
      BY <2>1, <3>1
    <3>3. EventsFor(t, h, s) \subseteq EventsAt(h, key, S)
      BY <3>1, <3>2 DEF EventsAt
    <3> QED
      BY <3>1, <3>2, <3>3, <1>13
  <2>3. ASSUME n >= 5 PROVE S # {}
    <3>1. EventsFor(t, h, s) # {}
      BY <2>3, <1>5
    <3>2. PICK e \in DOMAIN h : SymbolOf(t, h[e]) = s
      BY <3>1 DEF EventsFor
    <3>3. h[e] \in Range(h) /\ Times(h, h[e]) = n
      BY <3>2, <2>1, <1>12
    <3> QED
      BY <3>2, <3>3, <2>3, <1>1, <1>2, <1>15 DEF CountFor
  <2>4. S # {} <=> n >= 5
    BY <2>2, <2>3
  <2>5. S # {} => GainFor(E, s) = m * n
    <3> SUFFICES ASSUME S # {} PROVE GainFor(E, s) = m * n
      OBVIOUS
    <3>1. EventsAt(h, key, S) = EventsFor(t, h, s)
      BY <2>2
    <3> QED
      BY <3>1, <1>3, <1>11, <1>15 DEF K
  <2>6. WorthOf(s, n) = IF n >= 5 THEN m * n ELSE 0
    BY <1>15 DEF WorthOf
  <2> HIDE DEF n, m
  <2>7. n >= 5 => m * n \in Nat /\ m * n > 0
    BY <1>1, <1>5
  <2>8. /\ WorthOf(s, n) \in Nat /\ (S # {} <=> WorthOf(s, n) > 0)
        /\ S # {} => GainFor(E, s) = WorthOf(s, n)
    BY <2>4, <2>5, <2>6, <2>7
  <2> QED
    BY <2>8 DEF n, S
<1> QED
  BY <1>14, <1>15

--------------------------------------------------------------------------------
(* What the last makeTable proposes.                                       *)

(* What the last makeTable proposes: all that the best round used often    *)
(* enough, and nothing else, with what it was worth.                       *)
Finalists(t, c) ==
  {[symbol |-> s, gain |-> GainFor(Scanned(t, c), s)] : s \in {x.symbol : x \in Scanned(t, c)}}

ByteSymbols   == {<<b>> : b \in Byte}
AllUsed(used) == (UNION {Range(used[i]) : i \in DOMAIN used}) \cup ByteSymbols

(* The last candidates are the terminator and what was proposed.           *)
LEMMA FinalistsAre ==
  ASSUME NEW t, NEW c, NEW d
  PROVE  Candidates(t, WithTerminator(t, c), d, 128) = Finalists(t, c)
<1> DEFINE w == WithTerminator(t, c)
           E == {x \in Proposed(t, w, d, 128) : Enough(x.count, 128)}
<1>1. Candidates(t, w, d, 128) = {[symbol |-> s, gain |-> GainFor(E, s)] : s \in {x.symbol : x \in E}}
  BY CandidatesAre
<1>2. Proposed(t, w, d, 128) = Singles(t, w)
  BY DEF Proposed
<1>3. E = Scanned(t, c)
  BY <1>2, Zenon DEF Scanned
<1> HIDE DEF E
<1> QED
  BY <1>1, <1>3, Zenon DEF Finalists

FinalistOk(t, used, q) ==
  q.symbol # <<t.terminator>> =>
    q.gain = WorthIn(used, q.symbol) /\ q.gain > 0 /\ q.symbol \in AllUsed(used)

(* Each of the last candidates gains what it is worth.                     *)
LEMMA FinalistsWorth ==
  ASSUME NEW lines, NEW t, TableOk(Symbol, t), SmallSample(lines), NEW codes, CodedLines(t, lines, codes)
  PROVE  LET Q    == Finalists(t, Count1(t, codes))
             used == UsedBy(t, codes)
         IN  /\ CandidatesOk(Symbol, t, Q)
             /\ \A q \in Q : FinalistOk(t, used, q)
             /\ \A s \in AllUsed(used) :
                  /\ s \in Symbol
                  /\ s # <<t.terminator>> /\ WorthIn(used, s) # 0 => \E q \in Q : q.symbol = s
<1> DEFINE f == SingleEvents(codes)
           g == FirstEvents(t, codes)
           h == Both(f, g)
           c == Count1(t, codes)
           Q == Finalists(t, c)
           E == Scanned(t, c)
           used == UsedBy(t, codes)
<1>1. Ready(t) /\ Agrees(t) /\ lines \in Seq(Seq(Byte))
  BY DEF TableOk, Ready, SmallSample
<1>2. CountsOk(lines, t, c) /\ PairsOk(lines, t, EmptyBag)
  BY <1>1, SinglesOccur, NothingCounted
<1>3. CandidatesOk(Symbol, t, Q)
  <2>1. CandidatesOk(Allowed(6, lines, trial), t, Candidates(t, WithTerminator(t, c), Count2Read(EmptyBag), 128))
    BY <1>1, <1>2, CandidatesGood
  <2>2. CandidatesOk(Allowed(6, lines, trial), t, Q)
    BY <2>1, FinalistsAre
  <2> HIDE DEF Q
  <2> QED
    BY <2>2 DEF CandidatesOk, GoodSymbol
<1>4. /\ IsFiniteSet(Places(codes))
      /\ \A x \in Places(codes) : SymbolOf(t, CodeIn(codes, x)) \in Symbol
  BY <1>1, CodesValid
<1>5. IsFiniteSet(DOMAIN f) /\ IsFiniteSet(DOMAIN g)
  <2>1. DOMAIN f = Places(codes) /\ DOMAIN g \subseteq Places(codes)
    BY DEF SingleEvents, FirstEvents, LongerPlaces
  <2> QED
    BY <2>1, <1>4, FS_Subset
<1> HIDE DEF f, g
<1>6. c = BagOf(h) /\ IsFiniteSet(DOMAIN h)
  <2>1. c = BagOf(f) (+) BagOf(g)
    BY CountsAre DEF f, g
  <2>2. BagOf(f) (+) BagOf(g) = BagOf(h)
    BY <1>5, BothBags
  <2>3. DOMAIN h = ({1} \X DOMAIN f) \cup ({2} \X DOMAIN g)
    BY DEF Both
  <2>4. IsFiniteSet({1} \X DOMAIN f) /\ IsFiniteSet({2} \X DOMAIN g)
    BY <1>5, CopyOf
  <2>5. IsFiniteSet(({1} \X DOMAIN f) \cup ({2} \X DOMAIN g))
    BY <2>4, FS_Union
  <2> HIDE DEF c, h
  <2> QED
    BY <2>1, <2>2, <2>3, <2>5
<1>7. \A p \in Range(h) : ValidCode(t, p)
  <2>1. DOMAIN BagOf(h) = Range(h)
    BY DEF BagOf
  <2> HIDE DEF c, h
  <2> QED
    BY <2>1, <1>2, <1>6 DEF CountsOk
<1>8. /\ DOMAIN used = DOMAIN codes /\ Places(used) = Places(codes)
      /\ \A x \in Places(codes) : used[x[1]][x[2]] = SymbolOf(t, CodeIn(codes, x))
  <2>1. DOMAIN used = DOMAIN codes
    BY DEF UsedBy
  <2>2. /\ Places(used) = Places(codes)
        /\ \A x \in Places(codes) : used[x[1]][x[2]] = SymbolOf(t, CodeIn(codes, x))
    BY UsedPlaces
  <2> QED
    BY <2>1, <2>2, Zenon
<1>9. ASSUME NEW s \in Symbol
      PROVE  Cardinality(EventsFor(t, h, s)) = OccurIn(used, s)
  BY <1>1, SymbolCounts DEF f, g
<1> HIDE DEF c, h, used, E
<1>10. ASSUME NEW s \in Symbol, s # <<t.terminator>>
       PROVE  /\ WorthIn(used, s) \in Nat
              /\ Of(E, s) # {} <=> WorthIn(used, s) > 0
              /\ Of(E, s) # {} => GainFor(E, s) = WorthIn(used, s)
  <2>1. WorthOf(s, OccurIn(used, s)) = WorthIn(used, s)
    BY DEF WorthOf, OccurIn, WorthIn
  <2> DEFINE worth == WorthOf(s, Cardinality(EventsFor(t, h, s)))
  <2>2. /\ worth \in Nat
        /\ Of(E, s) # {} <=> worth > 0
        /\ Of(E, s) # {} => GainFor(E, s) = worth
    BY <1>1, <1>6, <1>7, <1>10, GainIsWorth DEF E
  <2>3. worth = WorthIn(used, s)
    BY <2>1, <1>9, Zenon
  <2> HIDE DEF worth
  <2> QED
    BY <2>2, <2>3
<1>11. Q = {[symbol |-> s, gain |-> GainFor(E, s)] : s \in {x.symbol : x \in E}}
  BY Zenon DEF E, Finalists
<1> HIDE DEF Q
<1>12. ASSUME NEW s \in Symbol, WorthIn(used, s) # 0 PROVE s \in AllUsed(used)
  <2>1. CASE Len(s) = 1
    <3>1. s = <<s[1]>> /\ s[1] \in Byte
      BY <2>1, ShortSymbols
    <3>2. s \in ByteSymbols
      BY <3>1, Zenon DEF ByteSymbols
    <3> QED
      BY <3>2 DEF AllUsed
  <2>2. CASE Len(s) # 1
    <3> DEFINE X == {x \in Places(used) : used[x[1]][x[2]] = s}
    <3>1. Cardinality(X) >= 5
      BY <1>12, <2>2 DEF WorthIn, TimesIn
    <3>2. X # {}
      <4>1. Cardinality({}) = 0
        BY FS_EmptySet
      <4> HIDE DEF X
      <4> QED
        BY <3>1, <4>1
    <3>3. PICK x \in Places(used) : used[x[1]][x[2]] = s
      BY <3>2
    <3>4. x[1] \in DOMAIN used /\ x[2] \in DOMAIN used[x[1]]
      BY DEF Places
    <3>5. s \in Range(used[x[1]])
      BY <3>3, <3>4, Zenon DEF Range
    <3> QED
      BY <3>4, <3>5 DEF AllUsed
  <2> QED
    BY <2>1, <2>2
<1>13. ASSUME NEW q \in Q PROVE FinalistOk(t, used, q)
  <2> SUFFICES ASSUME q.symbol # <<t.terminator>>
               PROVE  q.gain = WorthIn(used, q.symbol) /\ q.gain > 0 /\ q.symbol \in AllUsed(used)
    BY DEF FinalistOk
  <2>1. PICK x \in E : q = [symbol |-> x.symbol, gain |-> GainFor(E, x.symbol)]
    BY <1>11
  <2>2. q.symbol = x.symbol /\ q.gain = GainFor(E, q.symbol) /\ x \in Of(E, q.symbol)
    BY <2>1 DEF Of
  <2>3. q.symbol \in Symbol
    BY <1>3 DEF CandidatesOk
  <2>4. q.gain = WorthIn(used, q.symbol) /\ WorthIn(used, q.symbol) > 0 /\ WorthIn(used, q.symbol) \in Nat
    BY <2>2, <2>3, <1>10
  <2>5. q.symbol \in AllUsed(used)
    BY <2>3, <2>4, <1>12
  <2> QED
    BY <2>4, <2>5
<1>14. ASSUME NEW s \in AllUsed(used) PROVE s \in Symbol
  <2>1. CASE s \in ByteSymbols
    <3>1. PICK b \in Byte : s = <<b>>
      BY <2>1 DEF ByteSymbols
    <3>2. ValidCode(t, b) /\ SymbolOf(t, b) = <<b>> /\ SymbolOf(t, b) \in Symbol
      BY <1>1, CodeSymbol DEF ValidCode
    <3> QED
      BY <3>1, <3>2
  <2>2. CASE \E i \in DOMAIN used : s \in Range(used[i])
    <3>1. PICK i \in DOMAIN used : s \in Range(used[i])
      BY <2>2
    <3>2. PICK k \in DOMAIN used[i] : s = used[i][k]
      BY <3>1 DEF Range
    <3> DEFINE x == <<i, k>>
    <3>3. x \in Places(used) /\ x[1] = i /\ x[2] = k
      BY DEF Places
    <3> HIDE DEF x
    <3> QED
      BY <3>2, <3>3, <1>4, <1>8
  <2>3. s \in ByteSymbols \/ \E i \in DOMAIN used : s \in Range(used[i])
    BY Zenon DEF AllUsed
  <2> QED
    BY <2>1, <2>2, <2>3
<1>15. ASSUME NEW s \in AllUsed(used), s # <<t.terminator>>, WorthIn(used, s) # 0
       PROVE  \E q \in Q : q.symbol = s
  <2>1. s \in Symbol
    BY <1>14
  <2>2. Of(E, s) # {}
    BY <2>1, <1>10, <1>15
  <2>3. PICK x \in E : x.symbol = s
    BY <2>2 DEF Of
  <2>4. [symbol |-> s, gain |-> GainFor(E, s)] \in Q
    BY <2>3, <1>11
  <2> QED
    BY <2>4
<1> QED
  BY <1>3, <1>13, <1>14, <1>15 DEF Q, used, c

--------------------------------------------------------------------------------
(* What the last makeTable takes.                                          *)

(* What the last makeTable has taken from its candidates C when Q are left *)
(* and the table is t: each is in it, or lost to one in it that is worth   *)
(* at least as much; and none that is left is worth more.                  *)
LostTo(t, q, x) ==
  /\ Len(q.symbol) > 2 /\ Len(x.symbol) > 2 /\ BucketOf(x.symbol) = BucketOf(q.symbol)
  /\ x.symbol \in Range(t.symbols) /\ x.gain >= q.gain

TakenFrom(C, t, Q) ==
  /\ Q \subseteq C
  /\ \A s \in Range(t.symbols) : \E q \in C \ Q : q.symbol = s
  /\ \A q \in C \ Q : q.symbol \in Range(t.symbols) \/ \E x \in C \ Q : LostTo(t, q, x)
  /\ \A q \in C \ Q, r \in Q : q.gain >= r.gain

(* Before anything is taken.                                               *)
LEMMA TakenFromNone ==
  ASSUME NEW C, NEW t, Range(t.symbols) = {}
  PROVE  TakenFrom(C, t, C)
BY DEF TakenFrom

(* Taking the best of those left.                                          *)
LEMMA TakenFromNext ==
  ASSUME NEW C, \A q \in C : q.symbol \in Symbol /\ q.gain \in Nat,
         NEW t, Agrees(t), NEW Q, TakenFrom(C, t, Q),
         NEW q \in Q, \A other \in Q : ~ Before(other, q)
  PROVE  TakenFrom(C, AddSymbol(t, q.symbol), Q \ {q})
<1> DEFINE s == q.symbol
           u == AddSymbol(t, s)
           D == C \ Q
           R == Q \ {q}
<1>1. /\ Q \subseteq C
      /\ \A z \in Range(t.symbols) : \E p \in D : p.symbol = z
      /\ \A p \in D : p.symbol \in Range(t.symbols) \/ \E x \in D : LostTo(t, p, x)
      /\ \A p \in D, r \in Q : p.gain >= r.gain
  BY DEF TakenFrom
<1>2. q \in C /\ s \in Symbol /\ q.gain \in Nat
  BY <1>1
<1>3. C \ R = D \cup {q} /\ R \subseteq C
  BY <1>1, <1>2
<1>4. \A r \in R : q.gain >= r.gain
  <2> SUFFICES ASSUME NEW r \in R PROVE q.gain >= r.gain
    OBVIOUS
  <2>1. ~ (r.gain > q.gain) /\ r.gain \in Nat
    BY <1>1 DEF Before
  <2> QED
    BY <2>1, <1>2
<1>5. CASE Refused(t, s)
  <2>1. u = t
    BY <1>5 DEF AddSymbol
  <2>2. Len(s) >= 3 /\ t.hashTab[BucketOf(s)] # FreeSlot
    BY <1>5 DEF Refused
  <2>3. BucketOf(s) \in Bucket
    BY <1>2, BucketType
  <2>4. PICK i \in DOMAIN t.symbols : Len(t.symbols[i]) >= 3 /\ BucketOf(t.symbols[i]) = BucketOf(s)
    BY <2>2, <2>3 DEF Agrees, Owned
  <2>5. t.symbols[i] \in Range(t.symbols)
    BY Zenon DEF Range
  <2>6. PICK x \in D : x.symbol = t.symbols[i]
    BY <2>5, <1>1
  <2>7. LostTo(t, q, x)
    <3>1. Len(s) \in Nat /\ Len(x.symbol) \in Nat
      BY <1>2, SymbolIsSeq
    <3>2. x.gain >= q.gain
      BY <1>1
    <3> QED
      BY <3>1, <3>2, <2>2, <2>4, <2>5, <2>6 DEF LostTo
  <2> HIDE DEF u, D, R
  <2>8. \A p \in D \cup {q} : p.symbol \in Range(t.symbols) \/ \E y \in D \cup {q} : LostTo(t, p, y)
    BY <2>7, <1>1
  <2>9. \A z \in Range(t.symbols) : \E p \in D \cup {q} : p.symbol = z
    BY <1>1
  <2>10. \A p \in D \cup {q}, r \in R : p.gain >= r.gain
    BY <1>1, <1>4 DEF R
  <2> QED
    BY <2>1, <2>8, <2>9, <2>10, <1>3 DEF TakenFrom, u, R
<1>6. CASE ~ Refused(t, s)
  <2>1. u.symbols = Append(t.symbols, s) /\ t.symbols \in Seq(Symbol)
    BY <1>6 DEF AddSymbol, Agrees, Shape
  <2> HIDE DEF u
  <2>2. Range(u.symbols) = Range(t.symbols) \cup {s}
    <3> DEFINE n == Len(t.symbols)
    <3>1. n \in Nat /\ DOMAIN t.symbols = 1 .. n /\ DOMAIN u.symbols = 1 .. n + 1
      BY <2>1, <1>2
    <3>2. (\A i \in 1 .. n : u.symbols[i] = t.symbols[i]) /\ u.symbols[n + 1] = s
      BY <2>1, <1>2
    <3> HIDE DEF n, s
    <3>3. \A i : i \in 1 .. n + 1 <=> i \in 1 .. n \/ i = n + 1
      BY <3>1
    <3>4. Range(u.symbols) = {u.symbols[i] : i \in 1 .. n + 1} /\ Range(t.symbols) = {t.symbols[i] : i \in 1 .. n}
      BY <3>1, Zenon DEF Range
    <3> QED
      BY <3>2, <3>3, <3>4
  <2> DEFINE A == Range(t.symbols)
             B == Range(u.symbols)
  <2>3. B = A \cup {s} /\ \A p, x : LostTo(t, p, x) => LostTo(u, p, x)
    BY <2>2 DEF LostTo
  <2> HIDE DEF A, B, D, R
  <2>4. \A p \in D \cup {q} : p.symbol \in B \/ \E y \in D \cup {q} : LostTo(u, p, y)
    BY <2>3, <1>1 DEF A
  <2>5. \A z \in B : \E p \in D \cup {q} : p.symbol = z
    BY <2>3, <1>1 DEF A
  <2>6. \A p \in D \cup {q}, r \in R : p.gain >= r.gain
    BY <1>1, <1>4 DEF R
  <2> QED
    BY <2>4, <2>5, <2>6, <1>3 DEF TakenFrom, B, u, R
<1> QED
  BY <1>5, <1>6

--------------------------------------------------------------------------------
(* The best round, and what is kept of it.                                 *)

(* The round that gained most, the last one of those, and its counts.      *)
TrialOk ==
  /\ Len(trial) \in Nat /\ trial = [k \in 1 .. Len(trial) |-> trial[k]]
  /\ \A k \in 1 .. Len(trial) : trial[k].gain \in Int

BestRound(r) ==
  /\ r \in DOMAIN trial
  /\ \A x \in DOMAIN trial :
       trial[x].gain < trial[r].gain \/ (trial[x].gain = trial[r].gain /\ x <= r)

RoundCodes(r) == [i \in Taken(r) |-> Codes(trial[r].table, sample[i])]

Earned(r) ==
  /\ BestRound(r) /\ r \in 1 .. 5 /\ TableOk(Symbol, trial[r].table)
  /\ bestGain = trial[r].gain /\ bestCounters = Count1(trial[r].table, RoundCodes(r))

KeptRound == \E r : Earned(r) /\ bestTable = trial[r].table

(* What t is made of in the last makeTable.                                *)
MadeOf(t) ==
  \E r : /\ Earned(r) /\ SameTerminator(trial[r].table, t)
         /\ TakenFrom(Finalists(trial[r].table, bestCounters), t, queue)

EarnInv ==
  /\ pc \in {"sampling", "sampled"} => trial = <<>>
  /\ pc = "count" => TrialOk /\ Len(trial) = round - 1 /\ (round # 1 => KeptRound)
  /\ pc = "propose" => /\ TrialOk /\ Len(trial) = round /\ KeptRound
                       /\ round = 5 => counters.count1 = bestCounters
  /\ pc = "add" => /\ TrialOk
                   /\ round # 6 => Len(trial) = round /\ KeptRound
                   /\ round = 6 => MadeOf(Table)
  /\ pc = "done" => TrialOk /\ MadeOf(built) /\ (NSymbols(built) = MaxSymbols \/ queue = {})

(* Before the search.                                                      *)
LEMMA EarnInvInit == Init => EarnInv
BY DEF Init, SampleInit, EarnInv

(* There is one best round: the one FinalEarned chooses.                   *)
LEMMA BestRoundUnique ==
  ASSUME TrialOk, NEW r, BestRound(r)
  PROVE  r = CHOOSE k \in DOMAIN trial :
               \A x \in DOMAIN trial :
                 trial[x].gain < trial[k].gain \/ (trial[x].gain = trial[k].gain /\ x <= k)
<1> DEFINE P(k) == \A x \in DOMAIN trial :
                     trial[x].gain < trial[k].gain \/ (trial[x].gain = trial[k].gain /\ x <= k)
           c == CHOOSE k \in DOMAIN trial : P(k)
<1>1. /\ DOMAIN trial = 1 .. Len(trial) /\ Len(trial) \in Nat
      /\ \A k \in DOMAIN trial : trial[k].gain \in Int /\ k \in Nat
  BY DEF TrialOk
<1>2. r \in DOMAIN trial /\ P(r)
  BY Zenon DEF BestRound
<1>3. c \in DOMAIN trial /\ P(c)
  <2> HIDE DEF P
  <2> QED
    BY <1>2
<1> HIDE DEF c
<1>4. r = c
  BY <1>1, <1>2, <1>3
<1> QED
  BY <1>4 DEF c

(* The search starts.                                                      *)
LEMMA EarnStart ==
  ASSUME EarnInv, SearchInv, Start
  PROVE  EarnInv'
<1>1. pc = "sampled" /\ pc' = "count" /\ trial' = trial /\ round' = round
  BY DEF Start
<1>2. trial = <<>> /\ round = 1
  BY <1>1 DEF EarnInv, SearchInv, NoTableYet
<1>3. Len(trial') = 0 /\ TrialOk'
  BY <1>1, <1>2 DEF TrialOk
<1> QED
  BY <1>1, <1>2, <1>3 DEF EarnInv

(* A round that was kept is kept as long as nothing of it changes.         *)
LEMMA EarnedKept ==
  ASSUME NEW r, Earned(r), trial' = trial, sample' = sample, bestGain' = bestGain,
         bestCounters' = bestCounters
  PROVE  Earned(r)'
<1>1. BestRound(r)'
  BY DEF Earned, BestRound
<1>2. RoundCodes(r)' = RoundCodes(r)
  BY DEF RoundCodes, Taken
<1> QED
  BY <1>1, <1>2 DEF Earned

(* The next round starts; the round that is kept stays.                    *)
LEMMA EarnRound ==
  ASSUME EarnInv, NextRound
  PROVE  EarnInv'
<1>1. /\ pc = "add" /\ pc' = "count" /\ sample' = sample /\ round < 6 /\ round' = round + 1
      /\ bestTable' = bestTable /\ bestCounters' = bestCounters /\ bestGain' = bestGain /\ trial' = trial
  BY DEF NextRound, best, FinalRound
<1>2. TrialOk /\ (round # 6 => Len(trial) = round /\ KeptRound)
  BY <1>1 DEF EarnInv
<1>3. Len(trial) = round /\ KeptRound /\ round \in Nat
  BY <1>1, <1>2 DEF TrialOk
<1>4. TrialOk' /\ Len(trial') = round' - 1
  BY <1>1, <1>2, <1>3 DEF TrialOk
<1>5. KeptRound'
  BY <1>1, <1>3, EarnedKept DEF KeptRound
<1> QED
  BY <1>1, <1>4, <1>5 DEF EarnInv

(* A round is counted, and kept when it gained at least as much.           *)
LEMMA EarnCount ==
  ASSUME EarnInv, SearchInv, CompressCount
  PROVE  EarnInv'
<1> DEFINE codes == [i \in Taken(round) |-> Codes(st, sample[i])]
           gain  == GainOf(st, codes)
           new   == [count1 |-> Count1(st, codes),
                     count2 |-> IF SampleFrac(round) = 128 THEN EmptyBag ELSE Count2(st, codes)]
<1>1. /\ pc = "count" /\ pc' = "propose" /\ sample' = sample /\ round' = round /\ st' = st
      /\ IF gain >= bestGain
           THEN bestTable' = st /\ bestGain' = gain /\ bestCounters' = new.count1
           ELSE bestTable' = bestTable /\ bestGain' = bestGain /\ bestCounters' = bestCounters
      /\ counters' = IF round = FinalRound - 1 THEN ForLast(new, bestCounters') ELSE new
      /\ trial' = Append(trial, [table |-> st, gain |-> gain, pairs |-> new.count2])
  BY Zenon DEF CompressCount, best
<1>2. AtCount /\ SmallSample(sample)
  BY <1>1, SampleDrawn DEF SearchInv
<1>3. round \in 1 .. 5 /\ TableOk(Symbol, st) /\ Agrees(st) /\ sample \in Seq(Seq(Byte))
  <2>1. round \in 1 .. 5 /\ TableOk(Symbols, st)
    BY <1>2 DEF AtCount
  <2>2. TableOk(Symbol, st)
    BY <2>1, MoreAllowed
  <2> QED
    BY <2>1, <2>2, <1>2 DEF TableOk, Ready, SmallSample
<1>4. CodedLines(st, sample, codes)
  BY <1>3 DEF CodedLines, Taken
<1>5. new.count1 = Count1(st, codes) /\ ForLast(new, bestCounters').count1 = bestCounters'
  BY DEF ForLast
<1>6. codes = [i \in Taken(round) |-> Codes(st, sample[i])]
  OBVIOUS
<1> HIDE DEF codes
<1>7. gain \in Int /\ gain >= - SampleMaxSize
  BY <1>2, <1>3, <1>4, GainAtLeast
<1> HIDE DEF new, gain
<1>8. TrialOk /\ Len(trial) = round - 1 /\ (round # 1 => KeptRound)
  BY <1>1 DEF EarnInv
<1> DEFINE x == [table |-> st, gain |-> gain, pairs |-> new.count2]
<1>9. x.table = st /\ x.gain = gain
  OBVIOUS
<1> HIDE DEF x
<1>10. /\ Len(trial') = Len(trial) + 1 /\ trial' = [k \in 1 .. Len(trial') |-> trial'[k]]
       /\ \A k \in 1 .. Len(trial) : trial'[k] = trial[k]
       /\ trial'[Len(trial) + 1] = x
  BY <1>1, <1>8, TrialNext DEF TrialOk, x
<1>11. /\ Len(trial') = round /\ Len(trial) = round - 1 /\ trial'[round] = x
       /\ DOMAIN trial = 1 .. round - 1 /\ DOMAIN trial' = 1 .. round
       /\ \A k \in 1 .. round - 1 : trial'[k] = trial[k] /\ trial[k].gain \in Int
  <2>1. Len(trial') = round /\ round - 1 + 1 = round
    BY <1>3, <1>8, <1>10
  <2>2. DOMAIN trial = 1 .. Len(trial) /\ DOMAIN trial' = 1 .. Len(trial')
    BY <1>8, <1>10 DEF TrialOk
  <2> QED
    BY <2>1, <2>2, <1>8, <1>10 DEF TrialOk
<1>12. \A k \in 1 .. round : k = round \/ k \in 1 .. round - 1
  BY <1>3
<1>13. TrialOk'
  <2>1. \A k \in 1 .. round : trial'[k].gain \in Int
    BY <1>7, <1>9, <1>11, <1>12
  <2>2. round \in Nat
    BY <1>3
  <2> QED
    BY <2>1, <2>2, <1>10, <1>11 DEF TrialOk
<1>14. KeptRound'
  <2>1. CASE gain >= bestGain
    <3>1. bestTable' = st /\ bestGain' = gain /\ bestCounters' = new.count1
      BY <1>1, <2>1
    <3>0. PICK n : n = round
      OBVIOUS
    <3>2. BestRound(n)'
      <4>1. \A k \in 1 .. round - 1 : trial[k].gain <= gain
        <5>1. CASE round = 1
          BY <5>1
        <5>2. CASE round # 1
          <6>1. PICK r : Earned(r)
            BY <5>2, <1>8 DEF KeptRound
          <6>2. /\ r \in 1 .. round - 1 /\ bestGain = trial[r].gain
                /\ \A k \in 1 .. round - 1 : trial[k].gain < trial[r].gain \/ trial[k].gain = trial[r].gain
            BY <6>1, <1>11 DEF Earned, BestRound
          <6> QED
            BY <6>2, <2>1, <1>7, <1>11
        <5> QED
          BY <5>1, <5>2
      <4>2. ASSUME NEW k \in 1 .. round
            PROVE  trial'[k].gain < gain \/ (trial'[k].gain = gain /\ k <= round)
        BY <4>1, <1>3, <1>7, <1>9, <1>11, <1>12
      <4> QED
        BY <4>2, <3>0, <1>3, <1>9, <1>11 DEF BestRound
    <3>3. RoundCodes(n)' = codes
      <4>1. Taken(n)' = Taken(round)
        BY <3>0, <1>1 DEF Taken
      <4>2. RoundCodes(n)' = [i \in Taken(n)' |-> Codes(trial'[n].table, sample'[i])]
        BY DEF RoundCodes
      <4>3. RoundCodes(n)' = [i \in Taken(round) |-> Codes(st, sample[i])]
        BY <3>0, <4>1, <4>2, <1>1, <1>9, <1>11
      <4> QED
        BY <4>3, <1>6, Zenon
    <3>4. Earned(n)'
      <4>1. trial'[n].table = st /\ trial'[n].gain = gain
        BY <3>0, <1>9, <1>11
      <4>2. bestCounters' = Count1(trial'[n].table, RoundCodes(n)')
        BY <4>1, <3>1, <3>3, <1>5
      <4>3. TableOk(Symbol, trial'[n].table)
        BY <4>1, <1>1, <1>3
      <4> QED
        BY <3>0, <4>1, <4>2, <4>3, <3>1, <3>2, <1>1, <1>3 DEF Earned
    <3>5. bestTable' = trial'[n].table
      BY <3>0, <3>1, <1>1, <1>9, <1>11
    <3> QED
      BY <3>4, <3>5, <1>1 DEF KeptRound
  <2>2. CASE ~ (gain >= bestGain)
    <3>1. bestTable' = bestTable /\ bestGain' = bestGain /\ bestCounters' = bestCounters
      BY <1>1, <2>2
    <3>2. round # 1
      BY <1>2, <1>7, <2>2 DEF AtCount
    <3>3. PICK r : Earned(r) /\ bestTable = trial[r].table
      BY <3>2, <1>8 DEF KeptRound
    <3>4. r \in 1 .. round - 1 /\ trial'[r] = trial[r] /\ r \in 1 .. 5 /\ bestGain = trial[r].gain
          /\ \A k \in 1 .. round - 1 :
               trial[k].gain < trial[r].gain \/ (trial[k].gain = trial[r].gain /\ k <= r)
      BY <3>3, <1>11 DEF Earned, BestRound
    <3>5. BestRound(r)'
      <4>1. gain < trial[r].gain
        BY <3>4, <2>2, <1>7, <1>11
      <4>2. ASSUME NEW k \in 1 .. round
            PROVE  trial'[k].gain < trial'[r].gain \/ (trial'[k].gain = trial'[r].gain /\ k <= r)
        <5>1. CASE k = round
          BY <5>1, <4>1, <3>4, <1>9, <1>11
        <5>2. CASE k \in 1 .. round - 1
          BY <5>2, <3>4, <1>11
        <5> QED
          BY <5>1, <5>2, <1>12
      <4>3. r \in 1 .. round
        BY <3>4, <1>3
      <4> QED
        BY <4>2, <4>3, <1>11 DEF BestRound
    <3>6. RoundCodes(r)' = RoundCodes(r)
      BY <3>4, <1>1 DEF RoundCodes, Taken
    <3>7. Earned(r)'
      BY <3>1, <3>3, <3>4, <3>5, <3>6, <1>1 DEF Earned
    <3> QED
      BY <3>1, <3>3, <3>4, <3>7 DEF KeptRound
  <2> QED
    BY <2>1, <2>2
<1>15. round = 5 => counters'.count1 = bestCounters'
  BY <1>1, <1>5 DEF FinalRound
<1> QED
  BY <1>1, <1>11, <1>13, <1>14, <1>15 DEF EarnInv

(* The candidates of the last makeTable, of the round that was kept.       *)
LEMMA EarnedWorth ==
  ASSUME SmallSample(sample), NEW r, Earned(r)
  PROVE  LET t    == trial[r].table
             C    == Finalists(t, bestCounters)
             used == UsedBy(t, RoundCodes(r))
         IN  /\ TableOk(Symbol, t) /\ CandidatesOk(Symbol, t, C)
             /\ \A q \in C : FinalistOk(t, used, q)
             /\ \A s \in AllUsed(used) :
                  /\ s \in Symbol
                  /\ s # <<t.terminator>> /\ WorthIn(used, s) # 0 => \E q \in C : q.symbol = s
<1> DEFINE t     == trial[r].table
           codes == RoundCodes(r)
<1>1. TableOk(Symbol, t) /\ bestCounters = Count1(t, codes)
  BY DEF Earned
<1>2. CodedLines(t, sample, codes)
  BY DEF CodedLines, RoundCodes, Taken, SmallSample
<1> HIDE DEF t, codes
<1>3. LET C    == Finalists(t, Count1(t, codes))
          used == UsedBy(t, codes)
      IN  /\ CandidatesOk(Symbol, t, C)
          /\ \A q \in C : FinalistOk(t, used, q)
          /\ \A s \in AllUsed(used) :
               /\ s \in Symbol
               /\ s # <<t.terminator>> /\ WorthIn(used, s) # 0 => \E q \in C : q.symbol = s
  <2>1. TableOk(Symbol, t) /\ SmallSample(sample)
    BY <1>1
  <2>2. CandidatesOk(Symbol, t, Finalists(t, Count1(t, codes)))
    BY <2>1, <1>2, FinalistsWorth, Zenon
  <2>3. \A q \in Finalists(t, Count1(t, codes)) : FinalistOk(t, UsedBy(t, codes), q)
    BY <2>1, <1>2, FinalistsWorth, Zenon
  <2>4. \A s \in AllUsed(UsedBy(t, codes)) : s \in Symbol
    BY <2>1, <1>2, FinalistsWorth, Zenon
  <2> DEFINE used == UsedBy(t, codes)
             C    == Finalists(t, Count1(t, codes))
  <2>5. ASSUME NEW s, s \in AllUsed(used), s # <<t.terminator>>, WorthIn(used, s) # 0
        PROVE  \E q \in C : q.symbol = s
    BY <2>1, <1>2, <2>5, FinalistsWorth
  <2> QED
    BY <2>2, <2>3, <2>4, <2>5, Zenon
<1> QED
  BY <1>1, <1>3, Zenon DEF t, codes

(* After the last round, the kept one proposes.                            *)
LEMMA EarnPropose ==
  ASSUME EarnInv, SearchInv, Propose
  PROVE  EarnInv'
<1> DEFINE t == IF round = 5 THEN bestTable ELSE st
           Q == Candidates(t, WithTerminator(t, counters.count1), Count2Read(counters.count2), SampleFrac(round))
<1>0. FinalRound = 6 /\ FinalRound - 1 = 5
  BY DEF FinalRound
<1>1. /\ pc = "propose" /\ pc' = "add" /\ sample' = sample /\ queue' = Q /\ trial' = trial
      /\ bestGain' = bestGain /\ bestCounters' = bestCounters
      /\ IF round = 5 THEN round' = 6 /\ bestTable' = ClearTable(t)
                      ELSE round' = round /\ bestTable' = bestTable
  <2>1. /\ pc = "propose" /\ pc' = "add" /\ sample' = sample /\ trial' = trial
    BY DEF Propose
  <2>2. queue' = Q
    BY <1>0 DEF Propose
  <2>3. /\ IF round = 5 THEN round' = 6 /\ bestTable' = ClearTable(t)
                        ELSE round' = round /\ bestTable' = bestTable
        /\ bestGain' = bestGain /\ bestCounters' = bestCounters
    BY <1>0 DEF Propose, best
  <2> QED
    BY <2>1, <2>2, <2>3
<1>2. AtPropose /\ SmallSample(sample)
  BY <1>1, SampleDrawn DEF SearchInv
<1>3. /\ TrialOk /\ Len(trial) = round /\ KeptRound /\ round \in 1 .. 5
      /\ round = 5 => counters.count1 = bestCounters
  BY <1>1, <1>2 DEF EarnInv, AtPropose
<1>4. TrialOk'
  BY <1>1, <1>3 DEF TrialOk
<1> HIDE DEF t, Q
<1>5. CASE round # 5
  <2>1. KeptRound'
    BY <1>1, <1>3, <1>5, EarnedKept DEF KeptRound
  <2>2. Len(trial') = round' /\ round' # 6
    BY <1>1, <1>3, <1>5
  <2> QED
    BY <2>1, <2>2, <1>1, <1>4 DEF EarnInv
<1>6. CASE round = 5
  <2>1. PICK r : Earned(r) /\ bestTable = trial[r].table
    BY <1>3 DEF KeptRound
  <2> DEFINE C == Finalists(t, bestCounters)
             u == ClearTable(t)
  <2>2. t = trial[r].table /\ TableOk(Symbol, t)
    BY <2>1, <1>6 DEF t, Earned
  <2>3. Q = C
    <3>1. SampleFrac(round) = 128 /\ counters.count1 = bestCounters
      BY <1>3, <1>6 DEF SampleFrac
    <3>2. Q = Candidates(t, WithTerminator(t, bestCounters), Count2Read(counters.count2), 128)
      BY <3>1 DEF Q
    <3> QED
      BY <3>2, FinalistsAre, Zenon
  <2>4. Range(u.symbols) = {} /\ SameTerminator(t, u)
    BY <2>2, ClearGood DEF TableOk
  <2>5. round' = 6 /\ bestTable' = u /\ queue' = C
    BY <2>3, <1>1, <1>6
  <2>6. Table' = u
    BY <2>5, <1>0 DEF Table
  <2>7. TakenFrom(C, u, C)
    BY <2>4, TakenFromNone
  <2>8. Earned(r)'
    BY <2>1, <1>1, EarnedKept
  <2> HIDE DEF u
  <2>9. trial'[r].table = t /\ Finalists(trial'[r].table, bestCounters') = C
    BY <2>2, <1>1
  <2> HIDE DEF C
  <2>10. MadeOf(Table)'
    <3>1. TakenFrom(Finalists(trial'[r].table, bestCounters'), Table', queue')
      BY <2>5, <2>6, <2>7, <2>9
    <3>2. SameTerminator(trial'[r].table, Table')
      BY <2>4, <2>6, <2>9
    <3> QED
      BY <3>1, <3>2, <2>8 DEF MadeOf
  <2> QED
    BY <2>5, <2>10, <1>1, <1>4 DEF EarnInv
<1> QED
  BY <1>5, <1>6

(* The best candidate is taken out of the queue.                           *)
LEMMA EarnAdd ==
  ASSUME EarnInv, SearchInv, AddBest
  PROVE  EarnInv'
<1>1. /\ pc = "add" /\ pc' = pc /\ sample' = sample /\ round' = round
      /\ NSymbols(Table) < MaxSymbols /\ Added(Table, Table')
      /\ round # 6 => bestTable' = bestTable /\ bestCounters' = bestCounters
  BY AddedTo
<1>2. /\ trial' = trial /\ bestGain' = bestGain /\ bestCounters' = bestCounters
  BY DEF AddBest, best
<1>3. AtAdd /\ SmallSample(sample)
  BY <1>1, SampleDrawn DEF SearchInv
<1>4. /\ TrialOk /\ (round # 6 => Len(trial) = round /\ KeptRound)
      /\ round = 6 => MadeOf(Table)
  BY <1>1 DEF EarnInv
<1>5. TrialOk'
  BY <1>2, <1>4 DEF TrialOk
<1>6. CASE round # 6
  <2>1. KeptRound'
    BY <1>1, <1>2, <1>4, <1>6, EarnedKept DEF KeptRound
  <2> QED
    BY <2>1, <1>1, <1>2, <1>4, <1>5, <1>6 DEF EarnInv
<1>7. CASE round = 6
  <2>1. PICK r : /\ Earned(r) /\ SameTerminator(trial[r].table, Table)
                 /\ TakenFrom(Finalists(trial[r].table, bestCounters), Table, queue)
    BY <1>4, <1>7 DEF MadeOf
  <2>2. PICK q \in queue :
          /\ \A other \in queue : ~ Before(other, q)
          /\ queue' = queue \ {q} /\ Table' = AddSymbol(Table, q.symbol)
    BY <1>1 DEF Added
  <2> DEFINE C == Finalists(trial[r].table, bestCounters)
  <2>3. \A p \in C : p.symbol \in Symbol /\ p.gain \in Nat
    <3>1. CandidatesOk(Symbol, trial[r].table, C)
      BY <2>1, <1>3, EarnedWorth
    <3> HIDE DEF C
    <3> QED
      BY <3>1 DEF CandidatesOk
  <2>4. Agrees(Table) /\ TableOk(Symbols, Table) /\ QueueOk(Symbols, Table, queue)
    BY <1>3 DEF AtAdd, TableOk, Ready
  <2>5. SameTerminator(trial[r].table, Table')
    <3>1. SameTerminator(Table, AddSymbol(Table, q.symbol))
      BY <2>2, <2>4, <1>1, TakenSymbol
    <3> QED
      BY <3>1, <2>1, <2>2 DEF SameTerminator
  <2> HIDE DEF C
  <2>6. TakenFrom(C, Table', queue')
    <3>1. TakenFrom(C, AddSymbol(Table, q.symbol), queue \ {q})
      BY <2>1, <2>2, <2>3, <2>4, TakenFromNext DEF C
    <3> QED
      BY <3>1, <2>2
  <2>7. Earned(r)'
    BY <2>1, <1>1, <1>2, EarnedKept
  <2>8. Finalists(trial'[r].table, bestCounters') = C /\ trial'[r].table = trial[r].table
    BY <1>2 DEF C
  <2>9. MadeOf(Table)'
    BY <2>5, <2>6, <2>7, <2>8 DEF MadeOf
  <2> QED
    BY <2>9, <1>1, <1>5, <1>7 DEF EarnInv
<1> QED
  BY <1>6, <1>7

(* finalize moves the symbols; what they were taken for stays.             *)
LEMMA EarnFinal ==
  ASSUME EarnInv, SearchInv, Finalize
  PROVE  EarnInv'
<1>1. /\ pc = "add" /\ pc' = "done" /\ sample' = sample /\ round = 6 /\ trial' = trial
      /\ built' = bestTable /\ queue' = queue /\ bestGain' = bestGain /\ bestCounters' = bestCounters
      /\ Table = bestTable
      /\ ~ (NSymbols(Table) < MaxSymbols) \/ queue = {}
  BY DEF Finalize, FinalRound, Wanted, Table
<1>2. AtAdd
  BY <1>1 DEF SearchInv
<1>3. TrialOk /\ MadeOf(Table)
  BY <1>1 DEF EarnInv
<1>4. NSymbols(Table) \in Nat /\ NSymbols(Table) <= MaxSymbols /\ MaxSymbols \in Nat
  BY <1>2, TableAssumption DEF AtAdd, TableOk, Ready, Agrees, Shape, NSymbols, MaxSymbols
<1>5. NSymbols(built') = MaxSymbols \/ queue' = {}
  BY <1>1, <1>4
<1>6. PICK r : /\ Earned(r) /\ SameTerminator(trial[r].table, Table)
               /\ TakenFrom(Finalists(trial[r].table, bestCounters), Table, queue)
  BY <1>3 DEF MadeOf
<1>7. Earned(r)'
  BY <1>1, <1>6, EarnedKept
<1>8. MadeOf(built)'
  BY <1>1, <1>6, <1>7 DEF MadeOf
<1>9. TrialOk'
  BY <1>1, <1>3 DEF TrialOk
<1> QED
  BY <1>1, <1>5, <1>8, <1>9 DEF EarnInv

--------------------------------------------------------------------------------
(* The finished table.                                                     *)

(* Every step keeps it.                                                    *)
LEMMA EarnInvNext ==
  ASSUME EarnInv, SearchInv, [Next]_vars
  PROVE  EarnInv'
<1>1. CASE MakeSample
  <2>1. trial' = trial /\ pc = "sampling"
    BY <1>1 DEF MakeSample, best, Draw, TakeAll, TakeChunk, EnoughDrawn
  <2>2. pc' \in {"sampling", "sampled"}
    BY <1>1, <2>1 DEF MakeSample, Draw, TakeAll, TakeChunk, EnoughDrawn
  <2> QED
    BY <2>1, <2>2 DEF EarnInv
<1>2. CASE BuildTable
  BY <1>2, EarnStart, EarnCount, EarnPropose, EarnAdd, EarnRound, EarnFinal DEF BuildTable, Build
<1>3. CASE UNCHANGED vars
  <2>1. /\ pc' = pc /\ round' = round /\ trial' = trial /\ sample' = sample /\ counters' = counters
        /\ queue' = queue /\ bestTable' = bestTable /\ bestCounters' = bestCounters
        /\ bestGain' = bestGain /\ built' = built /\ st' = st
    BY <1>3 DEF vars, best
  <2>2. TrialOk' <=> TrialOk
    BY <2>1 DEF TrialOk
  <2>3. \A r : Earned(r) => Earned(r)'
    BY <2>1, EarnedKept
  <2>4. KeptRound => KeptRound'
    BY <2>1, <2>3 DEF KeptRound
  <2>5. MadeOf(built) => MadeOf(built)'
    BY <2>1, <2>3 DEF MadeOf
  <2>6. Table' = Table
    BY <2>1 DEF Table
  <2>7. MadeOf(Table) => MadeOf(Table)'
    BY <2>1, <2>3, <2>6 DEF MadeOf
  <2> QED
    BY <2>1, <2>2, <2>4, <2>5, <2>7 DEF EarnInv
<1> QED
  BY <1>1, <1>2, <1>3 DEF Next, Return

(* What is said of the finished table, of the round r.                     *)
EarnedBy(used, symbols, term) ==
  /\ \A s \in symbols \ {term} : s \in AllUsed(used) /\ WorthIn(used, s) > 0
  /\ \A s \in AllUsed(used) \ symbols :
       \/ WorthIn(used, s) = 0
       \/ /\ Len(s) > 2
          /\ \E x \in symbols : /\ Len(x) > 2 /\ BucketOf(x) = BucketOf(s)
                                /\ WorthIn(used, x) >= WorthIn(used, s)
       \/ /\ NSymbols(built) = MaxSymbols
          /\ \A x \in symbols \ {term} : WorthIn(used, x) >= WorthIn(used, s)

(* EarnedBy of the best round is what FinalEarned says.                    *)
LEMMA EarnedMeans ==
  ASSUME TrialOk, NEW r, BestRound(r), built.symbols[1] = <<built.terminator>>,
         EarnedBy(UsedBy(trial[r].table, RoundCodes(r)), Range(built.symbols), <<built.terminator>>)
  PROVE  FinalEarned
<1> DEFINE used(k) == [i \in Taken(k) |->
                         LET codes == Codes(trial[k].table, sample[i])
                         IN  [j \in DOMAIN codes |-> SymbolOf(trial[k].table, codes[j])]]
           all(k) == (UNION {Range(used(k)[i]) : i \in Taken(k)}) \cup {<<b>> : b \in Byte}
           ch == CHOOSE k \in DOMAIN trial :
                   \A x \in DOMAIN trial :
                     trial[x].gain < trial[k].gain \/ (trial[x].gain = trial[k].gain /\ x <= k)
           Body(k) ==
             /\ built.symbols[1] = <<built.terminator>>
             /\ \A s \in Range(built.symbols) \ {<<built.terminator>>} :
                  s \in all(k) /\ WorthIn(used(k), s) > 0
             /\ \A s \in all(k) \ Range(built.symbols) :
                  \/ WorthIn(used(k), s) = 0
                  \/ Len(s) > 2 /\ \E x \in Range(built.symbols) :
                       Len(x) > 2 /\ BucketOf(x) = BucketOf(s) /\ WorthIn(used(k), x) >= WorthIn(used(k), s)
                  \/ /\ NSymbols(built) = MaxSymbols
                     /\ \A x \in Range(built.symbols) \ {<<built.terminator>>} :
                          WorthIn(used(k), x) >= WorthIn(used(k), s)
<1>1. FinalEarned <=> (pc = "done" => Body(ch))
  BY Zenon DEF FinalEarned, WorthIn, TimesIn, BegunIn
<1>2. r = ch
  BY BestRoundUnique
<1>3. used(r) = UsedBy(trial[r].table, RoundCodes(r))
  <2>1. /\ DOMAIN RoundCodes(r) = Taken(r)
        /\ \A i \in Taken(r) : RoundCodes(r)[i] = Codes(trial[r].table, sample[i])
    BY DEF RoundCodes
  <2> QED
    BY <2>1 DEF UsedBy
<1>4. all(r) = AllUsed(used(r))
  <2>1. DOMAIN used(r) = Taken(r)
    OBVIOUS
  <2> HIDE DEF used
  <2> QED
    BY <2>1, Zenon DEF AllUsed, ByteSymbols
<1> HIDE DEF used, all
<1>5. Body(r)
  <2>1. EarnedBy(used(r), Range(built.symbols), <<built.terminator>>)
    BY <1>3
  <2> QED
    BY <2>1, <1>4, Zenon DEF EarnedBy
<1> HIDE DEF Body, ch
<1> QED
  BY <1>1, <1>2, <1>5

(* What the last makeTable made is what was earned.                        *)
LEMMA MadeIsEarned ==
  ASSUME NEW t, NEW used, NEW term, NEW C, NEW Q, TakenFrom(C, t, Q),
         \A q \in C : q.symbol \in Symbol /\ q.gain \in Nat,
         \A q, x \in C : q.symbol = x.symbol => q = x,
         \A q \in C : q.symbol # term =>
           q.gain = WorthIn(used, q.symbol) /\ q.gain > 0 /\ q.symbol \in AllUsed(used),
         \A s \in AllUsed(used) : s # term /\ WorthIn(used, s) # 0 => \E q \in C : q.symbol = s,
         term \in Range(t.symbols), Len(term) = 1, NSymbols(t) = MaxSymbols \/ Q = {}
  PROVE  /\ \A s \in Range(t.symbols) \ {term} : s \in AllUsed(used) /\ WorthIn(used, s) > 0
         /\ \A s \in AllUsed(used) \ Range(t.symbols) :
              \/ WorthIn(used, s) = 0
              \/ /\ Len(s) > 2
                 /\ \E x \in Range(t.symbols) : /\ Len(x) > 2 /\ BucketOf(x) = BucketOf(s)
                                                /\ WorthIn(used, x) >= WorthIn(used, s)
              \/ /\ NSymbols(t) = MaxSymbols
                 /\ \A x \in Range(t.symbols) \ {term} : WorthIn(used, x) >= WorthIn(used, s)
<1> DEFINE A == Range(t.symbols)
           D == C \ Q
           worth(s) == WorthIn(used, s)
<1>1. /\ Q \subseteq C
      /\ \A s \in A : \E q \in D : q.symbol = s
      /\ \A q \in D : q.symbol \in A \/ \E x \in D : LostTo(t, q, x)
      /\ \A q \in D, x \in Q : q.gain >= x.gain
  BY DEF TakenFrom
<1> HIDE DEF A, worth
<1>2. \A q \in C : q.symbol # term =>
        q.gain = worth(q.symbol) /\ q.gain > 0 /\ q.symbol \in AllUsed(used)
  BY DEF worth
<1>3. ASSUME NEW s \in A \ {term} PROVE s \in AllUsed(used) /\ worth(s) > 0
  <2>1. PICK q \in D : q.symbol = s
    BY <1>1
  <2> QED
    BY <2>1, <1>2
<1>4. ASSUME NEW s \in AllUsed(used) \ A, worth(s) # 0
      PROVE  \/ /\ Len(s) > 2
                /\ \E x \in A : /\ Len(x) > 2 /\ BucketOf(x) = BucketOf(s)
                                /\ worth(x) >= worth(s)
             \/ /\ NSymbols(t) = MaxSymbols
                /\ \A x \in A \ {term} : worth(x) >= worth(s)
  <2>1. s # term
    BY DEF A
  <2>2. PICK q \in C : q.symbol = s
    BY <2>1, <1>4 DEF worth
  <2>3. q.gain = worth(s)
    BY <2>1, <2>2, <1>2
  <2>4. CASE q \in Q
    <3>1. ASSUME NEW x \in A \ {term} PROVE worth(x) >= worth(s)
      <4>1. PICK p \in D : p.symbol = x
        BY <1>1
      <4>2. p.gain = worth(x)
        BY <4>1, <1>2
      <4> QED
        BY <4>1, <4>2, <2>3, <2>4, <1>1
    <3> QED
      BY <3>1, <2>4
  <2>5. CASE q \notin Q
    <3>1. PICK x \in D : LostTo(t, q, x)
      BY <2>2, <2>5, <1>1
    <3>2. /\ Len(s) > 2 /\ Len(x.symbol) > 2 /\ BucketOf(x.symbol) = BucketOf(s)
          /\ x.symbol \in A /\ x.gain >= q.gain
      BY <3>1, <2>2 DEF LostTo, A
    <3>3. x.symbol # term
      <4>1. ASSUME x.symbol = term PROVE FALSE
        <5>1. Len(x.symbol) = 1
          BY <4>1, Zenon
        <5>2. ASSUME NEW n, n = 1, n > 2 PROVE FALSE
          BY ONLY <5>2
        <5> QED
          BY <5>1, <5>2, <3>2, Zenon
      <4> QED
        BY <4>1, Zenon
    <3>4. x.gain = worth(x.symbol)
      BY <3>3, <1>2
    <3> QED
      BY <3>2, <3>4, <2>3
  <2> QED
    BY <2>4, <2>5
<1> QED
  BY <1>3, <1>4, Zenon DEF A, worth

(* At the end the table is what the best round earned.                     *)
LEMMA EarnInvEarned ==
  ASSUME EarnInv, SearchInv, pc = "done"
  PROVE  FinalEarned
<1>1. AtDone /\ SmallSample(sample)
  BY SampleDrawn DEF SearchInv
<1>2. TrialOk /\ MadeOf(built) /\ (NSymbols(built) = MaxSymbols \/ queue = {})
  BY DEF EarnInv
<1>3. PICK r : /\ Earned(r) /\ SameTerminator(trial[r].table, built)
               /\ TakenFrom(Finalists(trial[r].table, bestCounters), built, queue)
  BY <1>2 DEF MadeOf
<1> DEFINE t    == trial[r].table
           C    == Finalists(t, bestCounters)
           used == UsedBy(t, RoundCodes(r))
           term == <<built.terminator>>
<1>4. /\ CandidatesOk(Symbol, t, C)
      /\ \A q \in C : FinalistOk(t, used, q)
      /\ \A s \in AllUsed(used) :
           s # <<t.terminator>> /\ WorthIn(used, s) # 0 => \E q \in C : q.symbol = s
  BY <1>1, <1>3, EarnedWorth, Zenon
<1>5. t.terminator = built.terminator
  BY <1>3 DEF SameTerminator
<1>6. built.symbols[1] = term /\ term \in Range(built.symbols)
  <2>1. Ready(built) /\ NSymbols(built) > 0
    BY <1>1 DEF AtDone
  <2>2. built.symbols \in Seq(Symbol) /\ built.symbols # <<>> /\ 1 \in DOMAIN built.symbols
    BY <2>1 DEF Ready, Agrees, Shape, NSymbols
  <2>3. built.symbols[1] = term
    BY <2>1, <2>2 DEF Ready, Terminated
  <2> QED
    BY <2>2, <2>3, Zenon DEF Range
<1>7. Len(term) = 1
  OBVIOUS
<1> HIDE DEF t, C, used
<1>8. /\ \A q \in C : q.symbol \in Symbol /\ q.gain \in Nat
      /\ \A q, x \in C : q.symbol = x.symbol => q = x
  BY <1>4 DEF CandidatesOk
<1>9. \A q \in C : q.symbol # term =>
        q.gain = WorthIn(used, q.symbol) /\ q.gain > 0 /\ q.symbol \in AllUsed(used)
  BY <1>4, <1>5 DEF FinalistOk
<1>10. TakenFrom(C, built, queue)
  BY <1>3 DEF C, t
<1>11. \A s \in AllUsed(used) : s # term /\ WorthIn(used, s) # 0 => \E q \in C : q.symbol = s
  BY <1>4, <1>5
<1> HIDE DEF term
<1>12. EarnedBy(used, Range(built.symbols), term)
  <2> QED
    BY <1>2, <1>6, <1>7, <1>8, <1>9, <1>10, <1>11, MadeIsEarned DEF EarnedBy
<1>13. BestRound(r)
  BY <1>3 DEF Earned
<1> QED
  BY <1>2, <1>6, <1>12, <1>13, EarnedMeans, Zenon DEF used, t, term

(* The last makeTable takes its candidates from the counts of the round    *)
(* that gained most, not from those of the last round: whatever the sample *)
(* and the thresholds, each symbol of the finished table is a byte or one  *)
(* that round used, and gains something; and one that is worth something   *)
(* and is missing lost its bucket, or the table was full, to symbols worth *)
(* at least as much (libfsst.cpp:240).                                     *)
THEOREM FinalEarnedAlways == Spec => []FinalEarned
<1>1. EarnInv /\ SearchInv => FinalEarned
  BY EarnInvEarned DEF FinalEarned
<1>2. Init => EarnInv /\ SearchInv
  BY EarnInvInit, SearchInvInit
<1>3. (EarnInv /\ SearchInv) /\ [Next]_vars => (EarnInv /\ SearchInv)'
  BY EarnInvNext, SearchInvNext
<1> QED
  BY <1>1, <1>2, <1>3, PTL DEF Spec
================================================================================
