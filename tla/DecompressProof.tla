---------------------------- MODULE DecompressProof ----------------------------
(***************************************************************************)
(* fsst_decompress is faithful and stays in its output, for every decoder, *)
(* well-formed input, size of the output and build.  Each loop advances by *)
(* whole codes; what a code stands for does not depend on what follows, so *)
(* that the text written so far can be extended, code by code.             *)
(***************************************************************************)
EXTENDS Decompress, TableTheorems

(* The inputs are compressed strings.                                      *)
WellFormed ==
  \A d \in Decoders : \A s \in Inputs(d) : s \in Seq(Nat) /\ \E B : CutAt(d.symbol, s, B)

Cuts    == CHOOSE B : CutAt(decoder.symbol, strIn, B)
Text(p) == Decode(decoder.symbol, SubSeq(strIn, 1, p))

(* The first p bytes of the input are whole codes; they stand for q bytes, *)
(* which are in the output o as far as there is room, and nothing else is  *)
(* touched.                                                                *)
Written(p, q, o) ==
  /\ p \in Cuts
  /\ Decodes(decoder.symbol, SubSeq(strIn, 1, p), Text(p))
  /\ q = Len(Text(p))
  /\ o \in [Index -> Int]
  /\ \A i \in 0 .. q - 1 : i < size => o[i] = Text(p)[i + 1]
  /\ \A i \in Index : o[i] # Untouched => i \in 0 .. size - 1

Arguments == decoder \in Decoders /\ strIn \in Inputs(decoder) /\ size \in Sizes

(* The tail is entered with less than a block of input and room for a      *)
(* block of output, and its last step with at most one code.               *)
IInv ==
  /\ Arguments
  /\ pc # "returned" => Written(posIn, posOut, strOut)
  /\ pc = "tail" => RoomFor(Block) /\ posIn + Block > lenIn
  /\ pc = "last" => RoomFor(1) /\ posIn + 1 >= lenIn
  /\ pc = "returned" => Faithful /\ InBounds

--------------------------------------------------------------------------------
(* A finite set of numbers has a largest one.                              *)
LEMMA LargestNat ==
  ASSUME NEW S \in SUBSET Nat, IsFiniteSet(S), S # {}
  PROVE  Max(S) \in S /\ \A y \in S : y <= Max(S)
<1> DEFINE T == {n \in Nat : \A U \in SUBSET Nat :
                   U # {} /\ IsFiniteSet(U) /\ Cardinality(U) = n => \E x \in U : \A y \in U : y <= x}
<1>1. 0 \in T
  BY FS_EmptySet
<1>2. ASSUME NEW n \in Nat, n \in T PROVE n + 1 \in T
  <2>1. ASSUME NEW U \in SUBSET Nat, U # {}, IsFiniteSet(U), Cardinality(U) = n + 1
        PROVE  \E x \in U : \A y \in U : y <= x
    <3>1. PICK u \in U : TRUE
      BY <2>1
    <3> DEFINE V == U \ {u}
    <3>2. IsFiniteSet(V) /\ Cardinality(V) = n /\ V \in SUBSET Nat
      <4>1. IsFiniteSet(V) /\ Cardinality(V) = Cardinality(U) - 1
        BY <2>1, <3>1, FS_RemoveElement
      <4> QED
        BY <4>1, <2>1
    <3>3. CASE V = {}
      BY <3>1, <3>3
    <3>4. CASE V # {}
      <4>1. PICK v \in V : \A y \in V : y <= v
        BY <3>2, <3>4, <1>2
      <4>2. v \in Nat /\ u \in Nat /\ \A y \in U : y = u \/ y \in V
        BY <3>1, <3>2
      <4>3. CASE u <= v
        BY <4>1, <4>2, <4>3
      <4>4. CASE v <= u
        <5>1. \A y \in V : y \in Nat /\ y <= u
          BY <4>1, <4>2, <4>4, <3>2
        <5> QED
          BY <5>1, <4>2, <3>1
      <4> QED
        BY <4>2, <4>3, <4>4
    <3> QED
      BY <3>3, <3>4
  <2> QED
    BY <2>1
<1> HIDE DEF T
<1>3. Cardinality(S) \in T
  BY <1>1, <1>2, SetInduction, FS_CardinalityType
<1>4. \E x \in S : \A y \in S : y <= x
  BY <1>3 DEF T
<1>5. \E x \in S : \A y \in S : x >= y
  BY <1>4
<1>6. Max(S) \in S /\ \A y \in S : Max(S) >= y
  BY <1>5 DEF Max
<1> QED
  BY <1>6

(* The numbers of the model.                                               *)
LEMMA Numbers ==
  ASSUME Arguments, WellFormed
  PROVE  /\ ESC \in Nat /\ MaxLength \in Nat /\ MaxLength >= 3 /\ Byte \subseteq Nat
         /\ \A b \in Byte : b \in Nat
         /\ size \in Nat /\ \A i \in -1 .. size + MaxLength : i \in Index
         /\ Index \subseteq Int
         /\ strIn \in Seq(Nat) /\ lenIn \in Nat /\ DOMAIN strIn = 1 .. lenIn
         /\ CutAt(decoder.symbol, strIn, Cuts)
<1>1. /\ ESC \in Nat /\ MaxLength \in Nat /\ MaxLength >= 3
      /\ \A b \in Byte : b \in Nat
  BY TableAssumption DEF ESC
<1>2. size \in Nat /\ Max(Sizes) \in Nat /\ size <= Max(Sizes)
  <2>1. Sizes \in SUBSET Nat /\ IsFiniteSet(Sizes) /\ Sizes # {}
    BY DecompressAssumption DEF Arguments
  <2> QED
    BY <2>1, LargestNat DEF Arguments
<1>3. \A i \in -1 .. size + MaxLength : i \in Index
  BY <1>1, <1>2 DEF Index
<1>4. Index \subseteq Int
  BY <1>1, <1>2 DEF Index
<1>5. strIn \in Seq(Nat) /\ \E B : CutAt(decoder.symbol, strIn, B)
  BY DEF Arguments, WellFormed
<1>6. CutAt(decoder.symbol, strIn, Cuts)
  BY <1>5 DEF Cuts
<1>7. lenIn \in Nat /\ DOMAIN strIn = 1 .. lenIn
  BY <1>5 DEF lenIn
<1> QED
  BY <1>1, <1>2, <1>3, <1>4, <1>5, <1>6, <1>7

(* What the input begins with, and the bytes behind it.                    *)
Lengthens(s, r, p, b) == SubSeq(s, 1, r) = SubSeq(s, 1, p) \o b

LEMMA NextBytes ==
  ASSUME NEW s \in Seq(Nat), NEW p \in Nat, NEW b \in Seq(Nat), p + Len(b) <= Len(s),
         \A k \in 1 .. Len(b) : b[k] = s[p + k], NEW r, r = p + Len(b)
  PROVE  Lengthens(s, r, p, b)
<1> DEFINE a == SubSeq(s, 1, r)
           f == SubSeq(s, 1, p)
           c == f \o b
<1>0. Len(b) \in Nat /\ Len(s) \in Nat /\ r \in Nat /\ r <= Len(s) /\ p <= Len(s)
  OBVIOUS
<1>1. a \in Seq(Nat) /\ Len(a) = r /\ \A i \in 1 .. r : a[i] = s[i]
  <2>1. \A i \in 1 .. r : s[i] \in Nat
    BY <1>0
  <2> QED
    BY <2>1, <1>0
<1>2. f \in Seq(Nat) /\ Len(f) = p /\ \A i \in 1 .. p : f[i] = s[i]
  BY <1>0
<1> HIDE DEF a, f
<1>3. Concatenates(Nat, f, b, c)
  BY <1>2, ConcatParts
<1> HIDE DEF c
<1>4. c \in Seq(Nat) /\ Len(c) = r /\ \A i \in 1 .. p : c[i] = s[i]
  BY <1>2, <1>3 DEF Concatenates
<1>5. \A k \in 1 .. Len(b) : c[p + k] = s[p + k]
  BY <1>2, <1>3 DEF Concatenates
<1>6. ASSUME NEW i \in 1 .. r PROVE a[i] = c[i]
  <2>1. CASE i <= p
    <3>1. i \in 1 .. p
      BY <2>1, <1>0
    <3> QED
      BY <3>1, <1>1, <1>4
  <2>2. CASE ~ (i <= p)
    <3> DEFINE k == i - p
    <3>1. k \in 1 .. Len(b) /\ p + k = i
      BY <2>2, <1>0
    <3> HIDE DEF k
    <3>2. c[i] = s[i]
      BY <3>1, <1>5
    <3> QED
      BY <3>2, <1>1
  <2> QED
    BY <2>1, <2>2
<1>7. a = c
  BY <1>1, <1>4, <1>6, SameElements
<1> QED
  BY <1>7 DEF a, c, f, Lengthens

--------------------------------------------------------------------------------
(* The bytes x are written behind the first q bytes, as far as there is    *)
(* room.                                                                   *)
Adds(q, o, x, u) ==
  /\ u \in [Index -> Int]
  /\ \A i \in Index : u[i] # Untouched => i \in 0 .. size - 1
  /\ \A i \in 0 .. q - 1 : i < size => u[i] = o[i]
  /\ \A j \in 1 .. Len(x) : q + j - 1 < size => u[q + j - 1] = x[j]

(* One code more: what it stands for is written behind what there is.      *)
LEMMA WrittenNext ==
  ASSUME Arguments, WellFormed, NEW p, NEW q, NEW o, Written(p, q, o),
         NEW codes, NEW x, Decodes(decoder.symbol, codes, x),
         NEW r \in Cuts, Lengthens(strIn, r, p, codes),
         NEW u, Adds(q, o, x, u), NEW e, e = q + Len(x)
  PROVE  Written(r, e, u)
<1> DEFINE t == Text(p)
           w == Text(r)
<1>1. /\ t \in Seq(Byte) /\ x \in Seq(Byte) /\ q = Len(t)
      /\ Decodes(decoder.symbol, SubSeq(strIn, 1, p), t)
      /\ \A i \in 0 .. q - 1 : i < size => o[i] = t[i + 1]
  BY DEF Written, Decodes
<1>2. Decodes(decoder.symbol, SubSeq(strIn, 1, r), t \o x)
  <2> HIDE DEF t
  <2>1. Decodes(decoder.symbol, SubSeq(strIn, 1, p) \o codes, t \o x)
    BY <1>1, DecodesBoth
  <2> QED
    BY <2>1 DEF Lengthens
<1>3. w = t \o x
  BY <1>2, DecodesIs DEF Text
<1>4. Decodes(decoder.symbol, SubSeq(strIn, 1, r), w)
  BY <1>2, <1>3
<1> HIDE DEF t, w
<1>5. Concatenates(Byte, t, x, t \o x)
  BY <1>1, ConcatParts
<1>6. /\ Len(w) = Len(t) + Len(x) /\ Len(t) \in Nat /\ Len(x) \in Nat
      /\ \A j \in 1 .. Len(t) : w[j] = t[j]
      /\ \A k \in 1 .. Len(x) : w[Len(t) + k] = x[k]
  BY <1>1, <1>3, <1>5 DEF Concatenates
<1>7. ASSUME NEW i \in 0 .. e - 1, i < size PROVE u[i] = w[i + 1]
  <2>1. CASE i < q
    <3>1. i \in 0 .. q - 1 /\ i + 1 \in 1 .. Len(t)
      BY <2>1, <1>1, <1>6
    <3> QED
      BY <3>1, <1>1, <1>6, <1>7 DEF Adds
  <2>2. CASE ~ (i < q)
    <3> DEFINE k == i + 1 - q
    <3>1. k \in 1 .. Len(x) /\ q + k - 1 = i /\ Len(t) + k = i + 1
      BY <2>2, <1>1, <1>6, <1>7
    <3> HIDE DEF k
    <3> QED
      BY <3>1, <1>6, <1>7 DEF Adds
  <2> QED
    BY <2>1, <2>2
<1>8. e = Len(w)
  BY <1>1, <1>6
<1> QED
  BY <1>4, <1>7, <1>8 DEF Written, Adds, w

(* The next code.                                                          *)
LEMMA CodeNext ==
  ASSUME Arguments, WellFormed, NEW p \in Cuts, p < lenIn, In(p) # ESC
  PROVE  /\ ProperCode(decoder.symbol, In(p)) /\ p + 1 \in Cuts /\ p \in Nat
         /\ Decodes(decoder.symbol, <<In(p)>>, decoder.symbol[In(p)].symbol)
         /\ Lengthens(strIn, p + 1, p, <<In(p)>>)
<1>1. p \in 0 .. lenIn - 1
  BY Numbers DEF CutAt, lenIn
<1>2. ProperCode(decoder.symbol, In(p)) /\ p + 1 \in Cuts
  BY Numbers DEF CutAt, In, lenIn
<1>3. In(p) \in Nat /\ In(p) < ESC /\ decoder.symbol[In(p)].symbol \in Seq(Byte)
  BY <1>2, Numbers DEF ProperCode
<1>4. Decodes(decoder.symbol, <<In(p)>>, decoder.symbol[In(p)].symbol)
  BY <1>2, DecodesCode
<1>5. Lengthens(strIn, p + 1, p, <<In(p)>>)
  <2> DEFINE b == <<In(p)>>
  <2>1. b \in Seq(Nat) /\ Len(b) = 1 /\ b[1] = strIn[p + 1]
    BY <1>3 DEF In
  <2> HIDE DEF b
  <2>2. strIn \in Seq(Nat) /\ p \in Nat /\ p + Len(b) <= Len(strIn) /\ p + 1 = p + Len(b)
    BY <1>1, <2>1, Numbers DEF lenIn
  <2>3. \A k \in 1 .. Len(b) : b[k] = strIn[p + k]
    BY <2>1
  <2>4. Lengthens(strIn, p + 1, p, b)
    BY <2>1, <2>2, <2>3, NextBytes
  <2> QED
    BY <2>4 DEF b
<1> QED
  BY <1>1, <1>2, <1>4, <1>5

(* The next escape.                                                        *)
LEMMA EscapeNext ==
  ASSUME Arguments, WellFormed, NEW p \in Cuts, p < lenIn, In(p) = ESC
  PROVE  /\ In(p + 1) \in Byte /\ p + 2 \in Cuts /\ p \in Nat /\ p + 2 <= lenIn
         /\ Decodes(decoder.symbol, <<ESC, In(p + 1)>>, <<In(p + 1)>>)
         /\ Lengthens(strIn, p + 2, p, <<ESC, In(p + 1)>>)
<1>1. p \in 0 .. lenIn - 1 /\ p \in Nat
  BY Numbers DEF CutAt, lenIn
<1>2. p + 1 < lenIn /\ strIn[p + 2] \in Byte /\ p + 2 \in Cuts
  <2>1. \A i \in Cuts : i < lenIn =>
          \/ ProperCode(decoder.symbol, strIn[i + 1])
          \/ i + 1 < lenIn /\ strIn[i + 2] \in Byte /\ i + 2 \in Cuts
    BY Numbers DEF CutAt, lenIn
  <2>2. ~ ProperCode(decoder.symbol, strIn[p + 1])
    <3>1. ESC \in Nat /\ strIn[p + 1] = ESC
      BY Numbers DEF In
    <3> QED
      BY <3>1 DEF ProperCode
  <2> QED
    BY <2>1, <2>2
<1>3. In(p + 1) = strIn[p + 2] /\ p \in 0 .. lenIn - 2 /\ strIn[p + 1] = ESC
  BY <1>1, <1>2, Numbers DEF In
<1>4. Decodes(decoder.symbol, <<ESC, In(p + 1)>>, <<In(p + 1)>>)
  BY <1>2, <1>3, Numbers, DecodesEscape
<1>5. Lengthens(strIn, p + 2, p, <<ESC, In(p + 1)>>)
  <2> DEFINE b == <<ESC, In(p + 1)>>
  <2>0. ESC \in Nat /\ In(p + 1) \in Nat
    BY <1>2, <1>3, Numbers
  <2>1. b \in Seq(Nat) /\ Len(b) = 2 /\ b[1] = strIn[p + 1] /\ b[2] = strIn[p + 2]
    BY <2>0, <1>3
  <2> HIDE DEF b
  <2>2. \A k \in 1 .. Len(b) : b[k] = strIn[p + k]
    BY <1>1, <2>1
  <2>3. strIn \in Seq(Nat) /\ p \in Nat /\ p + Len(b) <= Len(strIn) /\ p + 2 = p + Len(b)
    BY <1>1, <1>2, <2>1, Numbers DEF lenIn
  <2>4. Lengthens(strIn, p + 2, p, b)
    BY <2>1, <2>2, <2>3, NextBytes
  <2> QED
    BY <2>4 DEF b
<1>6. p + 2 <= lenIn
  BY <1>1, <1>2, Numbers
<1> QED
  BY <1>1, <1>2, <1>3, <1>4, <1>5, <1>6

--------------------------------------------------------------------------------
(* A symbol in a word.                                                     *)
LEMMA WordOf ==
  ASSUME Arguments, WellFormed, NEW c, ProperCode(decoder.symbol, c), NEW x, x = decoder.symbol[c].symbol
  PROVE  /\ x \in Seq(Byte) /\ Len(x) = decoder.symbol[c].len /\ Len(x) \in 1 .. MaxLength
         /\ \A j \in 1 .. MaxLength : Word(c)[j] \in Int
         /\ \A j \in 1 .. Len(x) : Word(c)[j] = x[j]
<1>1. x \in Seq(Byte) /\ Len(x) = decoder.symbol[c].len /\ Len(x) \in 1 .. MaxLength
  BY DEF ProperCode
<1>2. /\ MaxLength \in Nat /\ \A b \in Byte : b \in Nat
      /\ \A j \in 1 .. Len(x) : x[j] \in Byte
  BY <1>1, Numbers, ElementType
<1>3. \A j \in 1 .. MaxLength : Word(c)[j] = IF j <= Len(x) THEN x[j] ELSE 0
  BY <1>1 DEF Word
<1>4. \A j \in 1 .. Len(x) : j \in 1 .. MaxLength /\ j <= Len(x)
  BY <1>1, <1>2
<1>5. ASSUME NEW j \in 1 .. MaxLength PROVE Word(c)[j] \in Int
  <2>1. CASE j <= Len(x)
    <3>1. j \in 1 .. Len(x)
      BY <2>1, <1>1, <1>2
    <3> QED
      BY <2>1, <3>1, <1>2, <1>3
  <2>2. CASE ~ (j <= Len(x))
    BY <2>2, <1>3
  <2> QED
    BY <2>1, <2>2
<1> QED
  BY <1>1, <1>3, <1>4, <1>5

(* A word is stored where there is room for one.                           *)
LEMMA WordStored ==
  ASSUME Arguments, WellFormed, NEW p, NEW q, NEW o, Written(p, q, o), q \in Nat,
         p < lenIn, In(p) # ESC, q + MaxLength <= size,
         NEW s, s = StoreWord([pos |-> q, out |-> o], In(p))
  PROVE  /\ Written(p + 1, s.pos, s.out)
         /\ s.pos \in Nat /\ s.pos <= q + MaxLength
<1> DEFINE c == In(p)
           codes == <<c>>
           x == decoder.symbol[c].symbol
           u == s.out
<1>1. p \in Cuts /\ o \in [Index -> Int] /\ \A i \in Index : o[i] # Untouched => i \in 0 .. size - 1
  BY DEF Written
<1>2. /\ ProperCode(decoder.symbol, c) /\ p + 1 \in Cuts
      /\ Decodes(decoder.symbol, codes, x)
      /\ Lengthens(strIn, p + 1, p, codes)
  BY <1>1, CodeNext
<1>3. /\ x \in Seq(Byte) /\ Len(x) = decoder.symbol[c].len /\ Len(x) \in 1 .. MaxLength
      /\ \A j \in 1 .. MaxLength : Word(c)[j] \in Int
      /\ \A j \in 1 .. Len(x) : Word(c)[j] = x[j]
  BY <1>2, WordOf
<1>4. /\ s.pos = q + Len(x)
      /\ u = [i \in Index |-> IF i \in q .. q + MaxLength - 1 THEN Word(c)[i - q + 1] ELSE o[i]]
  BY <1>3 DEF StoreWord
<1>5. /\ MaxLength \in Nat /\ size \in Nat /\ Index \subseteq Int
      /\ \A i \in -1 .. size + MaxLength : i \in Index
  BY Numbers
<1> HIDE DEF c, x, u, codes
<1>6. \A i \in Index : u[i] = IF i \in q .. q + MaxLength - 1 THEN Word(c)[i - q + 1] ELSE o[i]
  BY <1>4
<1>7. u \in [Index -> Int]
  <2>1. ASSUME NEW i \in Index PROVE u[i] \in Int
    <3>1. CASE i \in q .. q + MaxLength - 1
      <4> DEFINE j == i - q + 1
      <4>1. j \in 1 .. MaxLength /\ u[i] = Word(c)[j]
        BY <3>1, <1>5, <1>6
      <4> HIDE DEF j
      <4> QED
        BY <4>1, <1>3
    <3>2. CASE ~ (i \in q .. q + MaxLength - 1)
      BY <3>2, <1>1, <1>6
    <3> QED
      BY <3>1, <3>2
  <2>2. u = [i \in Index |-> u[i]]
    BY <1>4
  <2> QED
    BY <2>1, <2>2
<1>8. ASSUME NEW i \in Index, u[i] # Untouched PROVE i \in 0 .. size - 1
  <2>1. CASE i \in q .. q + MaxLength - 1
    BY <2>1, <1>5
  <2>2. CASE ~ (i \in q .. q + MaxLength - 1)
    BY <2>2, <1>1, <1>6, <1>8
  <2> QED
    BY <2>1, <2>2
<1>9. ASSUME NEW i \in 0 .. q - 1, i < size PROVE u[i] = o[i]
  <2>1. i \in Index /\ ~ (i \in q .. q + MaxLength - 1)
    BY <1>5, <1>9
  <2> QED
    BY <2>1, <1>6
<1>10. ASSUME NEW j \in 1 .. Len(x) PROVE u[q + j - 1] = x[j]
  <2> DEFINE i == q + j - 1
  <2>1. i \in Index /\ i \in q .. q + MaxLength - 1 /\ i - q + 1 = j
    BY <1>3, <1>5
  <2>2. u[i] = Word(c)[i - q + 1]
    <3> HIDE DEF i
    <3> QED
      BY <2>1, <1>6
  <2>3. Word(c)[i - q + 1] = x[j]
    <3> HIDE DEF i
    <3> QED
      BY <2>1, <1>3
  <2> QED
    BY <2>2, <2>3
<1>11. Written(p + 1, s.pos, u)
  <2>1. Adds(q, o, x, u)
    BY <1>7, <1>8, <1>9, <1>10 DEF Adds
  <2> QED
    BY <2>1, <1>2, <1>4, WrittenNext
<1>12. s.pos \in Nat /\ s.pos <= q + MaxLength
  BY <1>3, <1>4, <1>5
<1> QED
  BY <1>11, <1>12 DEF u

(* The byte behind an escape is stored where there is room for it.         *)
LEMMA ByteStored ==
  ASSUME Arguments, WellFormed, NEW p, NEW q, NEW o, Written(p, q, o), q \in Nat,
         p < lenIn, In(p) = ESC,
         NEW u, u = IF q < size THEN [o EXCEPT ![q] = Escaped(p)] ELSE o
  PROVE  Written(p + 2, q + 1, u)
<1> DEFINE b == In(p + 1)
           x == <<b>>
           codes == <<ESC, b>>
<1>1. p \in Cuts /\ o \in [Index -> Int] /\ \A i \in Index : o[i] # Untouched => i \in 0 .. size - 1
  BY DEF Written
<1>2. /\ b \in Byte /\ p + 2 \in Cuts
      /\ Decodes(decoder.symbol, codes, x)
      /\ Lengthens(strIn, p + 2, p, codes)
  BY <1>1, EscapeNext
<1>3. b \in Int /\ Len(x) = 1 /\ x[1] = b
  BY <1>2, Numbers
<1>4. /\ MaxLength \in Nat /\ size \in Nat
      /\ \A i \in -1 .. size + MaxLength : i \in Index
  BY Numbers
<1>5. u = IF q < size THEN [o EXCEPT ![q] = b] ELSE o
  BY DEF Escaped
<1> HIDE DEF b, x, codes
<1>6. /\ u \in [Index -> Int]
      /\ \A i \in Index : i # q => u[i] = o[i]
      /\ q < size => u[q] = b
  <2>1. CASE q < size
    <3>1. q \in Index
      BY <2>1, <1>4
    <3> QED
      BY <2>1, <3>1, <1>1, <1>3, <1>5
  <2>2. CASE ~ (q < size)
    BY <2>2, <1>1, <1>5
  <2> QED
    BY <2>1, <2>2
<1>7. ASSUME NEW i \in Index, u[i] # Untouched PROVE i \in 0 .. size - 1
  <2>1. CASE i = q /\ q < size
    BY <2>1, <1>4
  <2>2. CASE ~ (i = q /\ q < size)
    <3>1. u[i] = o[i]
      BY <2>2, <1>5, <1>6
    <3> QED
      BY <3>1, <1>1, <1>7
  <2> QED
    BY <2>1, <2>2
<1>8. ASSUME NEW i \in 0 .. q - 1, i < size PROVE u[i] = o[i]
  <2>1. i \in Index /\ i # q
    BY <1>4, <1>8
  <2> QED
    BY <2>1, <1>6
<1>9. ASSUME NEW j \in 1 .. Len(x), q + j - 1 < size PROVE u[q + j - 1] = x[j]
  <2>1. j = 1 /\ q + j - 1 = q
    BY <1>3
  <2> QED
    BY <2>1, <1>3, <1>6, <1>9
<1>10. q + 1 = q + Len(x)
  BY <1>3
<1>11. Adds(q, o, x, u)
  BY <1>6, <1>7, <1>8, <1>9 DEF Adds
<1> QED
  BY <1>2, <1>10, <1>11, WrittenNext

--------------------------------------------------------------------------------
(* Several words in a row.                                                 *)
StoreStep(f, k) ==
  IF k = 0 THEN [pos |-> posOut, out |-> strOut] ELSE StoreWord(f[k - 1], In(posIn + k - 1))

After(n) ==
  CHOOSE f : f = [k \in 0 .. n |->
                    IF k = 0 THEN [pos |-> posOut, out |-> strOut]
                    ELSE StoreWord(f[k - 1], In(posIn + k - 1))]

(* The recursive function of Stored.                                       *)
LEMMA StoredIs == ASSUME NEW n PROVE Stored(n) = After(n)[n]
BY Zenon DEF Stored, After

(* It exists.                                                              *)
LEMMA AfterExists ==
  ASSUME NEW n \in Nat
  PROVE  \A k \in 0 .. n : After(n)[k] = StoreStep(After(n), k)
<1> DEFINE D == 0 .. n
           Step(f, k) == StoreStep(f, k)
           T == {m \in Nat : \E f : f = [k \in D |-> f[k]] /\ \A k \in D : k < m => f[k] = Step(f, k)}
<1>1. 0 \in T
  <2> DEFINE f == [k \in D |-> 0]
  <2>1. f = [k \in D |-> f[k]] /\ \A k \in D : ~ (k < 0)
    OBVIOUS
  <2> HIDE DEF f, Step
  <2> QED
    BY <2>1
<1>2. ASSUME NEW m \in Nat, m \in T PROVE m + 1 \in T
  <2>1. PICK f : f = [k \in D |-> f[k]] /\ \A k \in D : k < m => f[k] = Step(f, k)
    BY <1>2
  <2> DEFINE g == [k \in D |-> Step(f, k)]
  <2>2. \A k \in D : g[k] = Step(f, k)
    BY Zenon
  <2>3. \A k \in D : k < m => g[k] = f[k]
    <3> HIDE DEF Step, g
    <3> QED
      BY <2>1, <2>2
  <2>4. g = [k \in D |-> g[k]]
    OBVIOUS
  <2> HIDE DEF g
  <2>5. ASSUME NEW k \in D, k < m + 1 PROVE g[k] = Step(g, k)
    <3>1. CASE k = 0
      <4>1. Step(g, k) = Step(f, k)
        BY <3>1 DEF StoreStep
      <4> QED
        BY <4>1, <2>2
    <3>2. CASE k # 0
      <4>1. k - 1 \in D /\ k - 1 < m
        BY <2>5, <3>2
      <4>2. g[k - 1] = f[k - 1]
        BY <4>1, <2>3
      <4>3. Step(g, k) = Step(f, k)
        BY <4>2, <3>2, Zenon DEF StoreStep
      <4> QED
        BY <4>3, <2>2
    <3> QED
      BY <3>1, <3>2
  <2> HIDE DEF Step, D
  <2>6. \E h : h = [k \in D |-> h[k]] /\ \A k \in D : k < m + 1 => h[k] = Step(h, k)
    BY <2>4, <2>5, Zenon
  <2>7. m + 1 \in Nat
    OBVIOUS
  <2> QED
    BY <2>6, <2>7, Zenon
<1>3. n + 1 \in T
  <2> HIDE DEF T
  <2>1. n + 1 \in Nat
    OBVIOUS
  <2> QED
    BY <1>1, <1>2, <2>1, SetInduction
<1>4. PICK f : f = [k \in D |-> f[k]] /\ \A k \in D : k < n + 1 => f[k] = Step(f, k)
  BY <1>3
<1>5. f = [k \in D |-> Step(f, k)]
  <2> DEFINE g == [k \in D |-> Step(f, k)]
  <2>1. g = [k \in D |-> g[k]] /\ \A k \in D : g[k] = Step(f, k)
    BY Zenon
  <2> HIDE DEF g, Step
  <2>2. \A k \in D : k < n + 1
    OBVIOUS
  <2>3. \A k \in D : f[k] = g[k]
    BY <1>4, <2>1, <2>2
  <2>4. f = [k \in D |-> f[k]]
    BY <1>4
  <2>5. f = g
    BY <2>1, <2>3, <2>4
  <2> QED
    BY <2>5 DEF g
<1>6. After(n) = [k \in D |-> Step(After(n), k)]
  BY <1>5, Zenon DEF After, StoreStep
<1> HIDE DEF Step
<1>7. \A k \in D : After(n)[k] = Step(After(n), k)
  BY <1>6, Zenon
<1> QED
  BY <1>7 DEF Step

(* A product grows with its factor.                                        *)
LEMMA Multiples ==
  ASSUME NEW a \in Nat, NEW b \in Nat, a <= b, NEW m \in Nat
  PROVE  a * m <= b * m /\ a * m \in Nat /\ (a + 1) * m = a * m + m
OBVIOUS

(* n words, where there is room for as many.                               *)
LEMMA StoredWritten ==
  ASSUME Arguments, WellFormed, Written(posIn, posOut, strOut), NEW n \in Nat,
         posIn + n <= lenIn, \A k \in 0 .. n - 1 : In(posIn + k) # ESC, RoomFor(n)
  PROVE  /\ Written(posIn + n, Stored(n).pos, Stored(n).out)
         /\ Stored(n).pos \in Nat /\ Stored(n).pos <= posOut + n * MaxLength
<1> DEFINE f == After(n)
           P(k) == /\ Written(posIn + k, f[k].pos, f[k].out)
                   /\ f[k].pos \in Nat /\ f[k].pos <= posOut + k * MaxLength
           T == {k \in Nat : k <= n => P(k)}
<1>1. /\ MaxLength \in Nat /\ size \in Nat /\ lenIn \in Nat /\ posIn \in Nat /\ posOut \in Nat
  <2>1. posIn \in Cuts /\ posOut = Len(Text(posIn)) /\ Text(posIn) \in Seq(Byte)
    BY DEF Written, Decodes
  <2>2. posIn \in Nat
    BY <2>1, Numbers DEF CutAt
  <2>3. posOut \in Nat
    BY <2>1
  <2> QED
    BY <2>2, <2>3, Numbers
<1>2. \A k \in 0 .. n : f[k] = StoreStep(f, k)
  BY AfterExists
<1> HIDE DEF f
<1>3. 0 \in T
  <2>1. f[0] = [pos |-> posOut, out |-> strOut]
    BY <1>2 DEF StoreStep
  <2>2. f[0].pos = posOut /\ f[0].out = strOut
    BY <2>1
  <2>3. posIn + 0 = posIn /\ 0 * MaxLength = 0
    BY <1>1
  <2> QED
    BY <1>1, <2>2, <2>3
<1>4. ASSUME NEW k \in Nat, k \in T PROVE k + 1 \in T
  <2>1. SUFFICES ASSUME k + 1 <= n PROVE P(k + 1)
    BY <1>4
  <2>2. P(k) /\ k \in 0 .. n - 1
    BY <1>4, <2>1
  <2> DEFINE p == posIn + k
             q == f[k].pos
             o == f[k].out
             s == StoreWord([pos |-> q, out |-> o], In(p))
  <2>3. f[k + 1] = s
    <3>1. f[k + 1] = StoreWord(f[k], In(p))
      <4>1. k + 1 \in 0 .. n /\ k + 1 # 0 /\ k + 1 - 1 = k /\ posIn + (k + 1) - 1 = p
        BY <2>2, <1>1
      <4> HIDE DEF p
      <4> QED
        BY <4>1, <1>2 DEF StoreStep
    <3> QED
      BY <3>1 DEF StoreWord
  <2>4. p < lenIn /\ In(p) # ESC
    BY <2>2, <1>1
  <2>5. q + MaxLength <= size
    <3>1. (k + 1) * MaxLength <= n * MaxLength /\ (k + 1) * MaxLength = k * MaxLength + MaxLength
      BY <2>1, <1>1, Multiples
    <3>2. posOut + n * MaxLength <= size /\ q \in Nat /\ q <= posOut + k * MaxLength
      BY <2>2 DEF RoomFor
    <3>3. k * MaxLength \in Nat /\ n * MaxLength \in Nat
      BY <1>1
    <3> HIDE DEF q
    <3> QED
      BY <3>1, <3>2, <3>3, <1>1
  <2> HIDE DEF p, q, o, s
  <2>6. Written(p + 1, s.pos, s.out) /\ s.pos \in Nat /\ s.pos <= q + MaxLength
    <3>1. Written(p, q, o) /\ q \in Nat
      BY <2>2 DEF p, q, o
    <3> QED
      BY <3>1, <2>4, <2>5, WordStored DEF s
  <2>7. posIn + (k + 1) = p + 1
    BY <1>1 DEF p
  <2>8. s.pos <= posOut + (k + 1) * MaxLength
    <3>1. q \in Nat /\ q <= posOut + k * MaxLength
      BY <2>2 DEF q
    <3>2. (k + 1) * MaxLength = k * MaxLength + MaxLength /\ k * MaxLength \in Nat
      BY <1>1
    <3> QED
      BY <3>1, <3>2, <2>6, <1>1
  <2> QED
    BY <2>3, <2>6, <2>7, <2>8
<1> HIDE DEF T
<1>5. n \in T
  BY <1>3, <1>4, SetInduction
<1>6. P(n)
  BY <1>5 DEF T
<1> QED
  BY <1>6, StoredIs DEF f

--------------------------------------------------------------------------------
(* The arguments of a call stay, and with them what Written says.          *)
LEMMA WrittenStays ==
  ASSUME UNCHANGED arguments, NEW p, NEW q, NEW o, Written(p, q, o),
         p = posIn', q = posOut', o = strOut'
  PROVE  Written(posIn, posOut, strOut)'
<1>1. decoder' = decoder /\ strIn' = strIn /\ size' = size
  BY DEF arguments
<1>2. Cuts' = Cuts
  BY <1>1 DEF Cuts
<1>3. Text(posIn)' = Text(p)
  BY <1>1 DEF Text
<1> QED
  BY <1>1, <1>2, <1>3 DEF Written

LEMMA ArgumentsStay == ASSUME Arguments, UNCHANGED arguments PROVE Arguments'
BY DEF Arguments, arguments

(* The positions are numbers.                                              *)
LEMMA Positions ==
  ASSUME Arguments, WellFormed, Written(posIn, posOut, strOut)
  PROVE  posIn \in 0 .. lenIn /\ posOut \in Nat /\ posIn \in Cuts
<1>1. posIn \in Cuts /\ posOut = Len(Text(posIn)) /\ Text(posIn) \in Seq(Byte)
  BY DEF Written, Decodes
<1>2. posIn \in 0 .. lenIn
  BY <1>1, Numbers DEF CutAt, lenIn
<1> QED
  BY <1>1, <1>2

(* n codes, and n codes and an escape.                                     *)
LEMMA PutCodes ==
  ASSUME Arguments, WellFormed, Written(posIn, posOut, strOut), UNCHANGED arguments,
         NEW n \in Nat, posIn + n <= lenIn, \A k \in 0 .. n - 1 : In(posIn + k) # ESC, RoomFor(n),
         Put(n, FALSE)
  PROVE  /\ Written(posIn, posOut, strOut)'
         /\ posIn' = posIn + n /\ posOut' \in Nat /\ posOut' <= posOut + n * MaxLength
<1>1. /\ Written(posIn + n, Stored(n).pos, Stored(n).out)
      /\ Stored(n).pos \in Nat /\ Stored(n).pos <= posOut + n * MaxLength
  BY StoredWritten
<1>2. strOut' = Stored(n).out /\ posOut' = Stored(n).pos /\ posIn' = posIn + n
  BY DEF Put
<1>3. Written(posIn, posOut, strOut)'
  BY <1>1, <1>2, WrittenStays
<1> QED
  BY <1>1, <1>2, <1>3

LEMMA PutEscape ==
  ASSUME Arguments, WellFormed, Written(posIn, posOut, strOut), UNCHANGED arguments,
         NEW n \in Nat, posIn + n < lenIn, \A k \in 0 .. n - 1 : In(posIn + k) # ESC,
         In(posIn + n) = ESC, posOut + n * MaxLength < size,
         Put(n, TRUE)
  PROVE  /\ Written(posIn, posOut, strOut)'
         /\ posIn' = posIn + n + 2 /\ posOut' \in Nat /\ posOut' <= posOut + n * MaxLength + 1
<1> DEFINE p == posIn + n
           q == Stored(n).pos
           o == Stored(n).out
           u == [o EXCEPT ![q] = Escaped(p)]
<1>0. /\ posIn \in Nat /\ posOut \in Nat /\ lenIn \in Nat /\ size \in Nat /\ MaxLength \in Nat
      /\ n * MaxLength \in Nat
  BY Positions, Numbers
<1>1. Written(p, q, o) /\ q \in Nat /\ q <= posOut + n * MaxLength
  BY <1>0, StoredWritten DEF RoomFor
<1>2. strOut' = u /\ posOut' = q + 1 /\ posIn' = p + 2
  BY DEF Put, EscapeLength
<1>3. p < lenIn /\ In(p) = ESC
  OBVIOUS
<1> HIDE DEF p, q, o
<1>4. q < size
  BY <1>0, <1>1
<1>5. u = IF q < size THEN [o EXCEPT ![q] = Escaped(p)] ELSE o
  BY <1>4
<1> HIDE DEF u
<1>6. Written(p + 2, q + 1, u)
  BY <1>1, <1>3, <1>5, ByteStored
<1>7. Written(posIn, posOut, strOut)'
  BY <1>2, <1>6, WrittenStays
<1>8. posOut' \in Nat /\ posOut' <= posOut + n * MaxLength + 1
  BY <1>0, <1>1, <1>2
<1> QED
  BY <1>2, <1>7, <1>8 DEF p

--------------------------------------------------------------------------------
(* Each step preserves the invariant.                                      *)

LEMMA InitInv == ASSUME WellFormed PROVE Init => IInv
<1> SUFFICES ASSUME Init PROVE IInv
  OBVIOUS
<1>1. Arguments
  BY DEF Init, Arguments
<1>2. SubSeq(strIn, 1, 0) = <<>>
  BY <1>1, Numbers
<1>3. Decodes(decoder.symbol, <<>>, <<>>)
  BY DecodesNone
<1>4. Text(0) = <<>>
  BY <1>2, <1>3, DecodesIs DEF Text
<1>5. Decodes(decoder.symbol, SubSeq(strIn, 1, 0), Text(0)) /\ Len(Text(0)) = 0
  BY <1>2, <1>3, <1>4
<1>6. 0 \in Cuts
  BY <1>1, Numbers DEF CutAt
<1>7. /\ strOut \in [Index -> Int]
      /\ \A i \in Index : strOut[i] # Untouched => i \in 0 .. size - 1
      /\ posIn = 0 /\ posOut = 0
  <2>1. strOut = [i \in Index |-> Untouched]
    BY DEF Init
  <2>2. Untouched \in Int
    BY DEF Untouched
  <2> QED
    BY <2>1, <2>2 DEF Init
<1>8. Written(posIn, posOut, strOut)
  BY <1>5, <1>6, <1>7 DEF Written
<1>9. pc \in {"fast", "single", "slow"}
  BY DEF Init, Builds
<1> QED
  BY <1>1, <1>8, <1>9 DEF IInv

(* Four codes at once.                                                     *)
LEMMA FastPreserves == ASSUME WellFormed, IInv, FastPlain \/ FastEscape \/ FastEnd PROVE IInv'
<1>1. pc = "fast" /\ UNCHANGED arguments /\ Arguments /\ Written(posIn, posOut, strOut)
  BY DEF FastPlain, FastEscape, FastEnd, IInv
<1>2. /\ posIn \in Nat /\ posOut \in Nat /\ lenIn \in Nat /\ size \in Nat
      /\ MaxLength \in Nat /\ MaxLength >= 3
  BY <1>1, Positions, Numbers
<1>3. Arguments'
  BY <1>1, ArgumentsStay
<1>4. CASE FastPlain
  <2>1. /\ RoomFor(4) /\ posIn + 4 <= lenIn /\ Put(4, FALSE) /\ pc' = "fast"
        /\ \A k \in 0 .. 4 - 1 : In(posIn + k) # ESC
    BY <1>4, <1>1 DEF FastPlain, FastGoesOn, Escapes, Block
  <2>2. Written(posIn, posOut, strOut)'
    BY <1>1, <2>1, PutCodes
  <2> QED
    BY <1>3, <2>1, <2>2 DEF IInv
<1>5. CASE FastEscape
  <2> DEFINE n == Min(Escapes)
  <2>1. Escapes \in SUBSET Nat /\ Escapes # {}
    BY <1>5 DEF FastEscape, Escapes, Block
  <2>2. \E x \in Escapes : \A y \in Escapes : x <= y
    BY <2>1, LeastNat
  <2>3. n \in Escapes /\ \A y \in Escapes : n <= y
    BY <2>2 DEF Min
  <2>4. posOut + 4 * MaxLength <= size /\ posIn + 4 <= lenIn /\ Put(n, TRUE) /\ pc' = "fast"
    BY <1>5, <1>1 DEF FastEscape, FastGoesOn, RoomFor, Block
  <2> HIDE DEF n
  <2>5. n \in 0 .. 3 /\ In(posIn + n) = ESC
    BY <2>3 DEF Escapes, Block
  <2>6. \A k \in 0 .. n - 1 : In(posIn + k) # ESC
    <3>1. ASSUME NEW k \in 0 .. n - 1 PROVE k \notin Escapes
      BY <2>3, <2>5
    <3>2. \A k \in 0 .. n - 1 : k \in 0 .. Block - 1
      BY <2>5 DEF Block
    <3> QED
      BY <3>1, <3>2 DEF Escapes
  <2>7. posIn + n < lenIn /\ posOut + n * MaxLength < size /\ n \in Nat
    <3>1. n * MaxLength <= 3 * MaxLength /\ n * MaxLength \in Nat
      BY <2>5, <1>2, Multiples
    <3> QED
      BY <3>1, <1>2, <2>4, <2>5
  <2>8. Written(posIn, posOut, strOut)'
    BY <1>1, <2>4, <2>5, <2>6, <2>7, PutEscape
  <2> QED
    BY <1>3, <2>4, <2>8 DEF IInv
<1>6. CASE FastEnd
  <2>1. /\ ~ FastGoesOn /\ pc' = IF RoomFor(Block) THEN "tail" ELSE "slow"
        /\ posIn' = posIn /\ posOut' = posOut /\ strOut' = strOut
    BY <1>6 DEF FastEnd
  <2>2. Written(posIn, posOut, strOut)'
    BY <1>1, <2>1, WrittenStays
  <2>3. pc' = "tail" => RoomFor(Block)' /\ (posIn + Block > lenIn)'
    BY <1>1, <1>2, <2>1 DEF FastGoesOn, RoomFor, Block, lenIn, arguments
  <2> QED
    BY <1>3, <2>1, <2>2, <2>3 DEF IInv
<1> QED
  BY <1>4, <1>5, <1>6

(* The last three bytes.                                                   *)
LEMMA TailPreserves == ASSUME WellFormed, IInv, LastThree PROVE IInv'
<1>1. /\ pc' = "last" /\ UNCHANGED arguments /\ Arguments /\ Written(posIn, posOut, strOut)
      /\ posOut + 4 * MaxLength <= size /\ posIn + 4 > lenIn
  BY DEF LastThree, IInv, RoomFor, Block
<1>2. /\ posIn \in Nat /\ posOut \in Nat /\ lenIn \in Nat /\ size \in Nat
      /\ MaxLength \in Nat /\ MaxLength >= 3
  BY <1>1, Positions, Numbers
<1>3. Arguments' /\ lenIn' = lenIn /\ size' = size
  BY <1>1, ArgumentsStay DEF lenIn, arguments
<1>4. SUFFICES /\ Written(posIn, posOut, strOut)'
               /\ posOut' + MaxLength <= size /\ posIn' + 1 >= lenIn
  <2>1. ASSUME posOut' + MaxLength <= size PROVE RoomFor(1)'
    BY <2>1, <1>2, <1>3 DEF RoomFor
  <2>2. ASSUME posIn' + 1 >= lenIn PROVE (posIn + 1 >= lenIn)'
    BY <2>2, <1>3
  <2> QED
    BY <1>1, <1>3, <2>1, <2>2 DEF IInv
<1>9. \A a \in Nat : a <= posOut + 2 * MaxLength + 1 => a + MaxLength <= size
  BY <1>1, <1>2
<1>5. CASE posIn + 2 > lenIn /\ UNCHANGED <<posIn, posOut, strOut>>
  <2>1. posIn' = posIn /\ posOut' = posOut /\ strOut' = strOut
    BY <1>5
  <2>2. Written(posIn, posOut, strOut)'
    BY <1>1, <2>1, WrittenStays
  <2> QED
    BY <1>1, <1>2, <1>5, <2>1, <2>2
<1>6. CASE posIn + 2 <= lenIn /\ In(posIn) = ESC /\ Put(0, TRUE)
  <2>1. Put(0, TRUE)
    BY <1>6
  <2>2. /\ posIn + 0 < lenIn /\ posIn + 0 = posIn /\ posOut + 0 * MaxLength < size
        /\ \A k \in 0 .. 0 - 1 : In(posIn + k) # ESC
    BY <1>1, <1>2, <1>6
  <2>3. /\ Written(posIn, posOut, strOut)'
        /\ posIn' = posIn + 0 + 2 /\ posOut' \in Nat /\ posOut' <= posOut + 0 * MaxLength + 1
    BY <1>1, <1>6, <2>1, <2>2, PutEscape
  <2>4. \A a, b : b \in Nat /\ a = posIn + 0 + 2 /\ b <= posOut + 0 * MaxLength + 1
                   => b <= posOut + 2 * MaxLength + 1 /\ a + 1 >= lenIn
    BY <1>1, <1>2
  <2> QED
    BY <1>9, <2>3, <2>4
<1>7. CASE posIn + 2 <= lenIn /\ In(posIn) # ESC /\ In(posIn + 1) = ESC /\ Put(1, TRUE)
  <2>1. Put(1, TRUE)
    BY <1>7
  <2>2. /\ posIn + 1 < lenIn /\ posOut + 1 * MaxLength < size
        /\ \A k \in 0 .. 1 - 1 : k = 0 /\ posIn + k = posIn
    BY <1>1, <1>2, <1>7
  <2>3. \A k \in 0 .. 1 - 1 : In(posIn + k) # ESC
    BY <1>7, <2>2
  <2>4. /\ Written(posIn, posOut, strOut)'
        /\ posIn' = posIn + 1 + 2 /\ posOut' \in Nat /\ posOut' <= posOut + 1 * MaxLength + 1
    BY <1>1, <1>7, <2>1, <2>2, <2>3, PutEscape
  <2>5. \A a, b : b \in Nat /\ a = posIn + 1 + 2 /\ b <= posOut + 1 * MaxLength + 1
                   => b <= posOut + 2 * MaxLength + 1 /\ a + 1 >= lenIn
    BY <1>1, <1>2
  <2> QED
    BY <1>9, <2>4, <2>5
<1>8. CASE posIn + 2 <= lenIn /\ In(posIn) # ESC /\ In(posIn + 1) # ESC /\ Put(2, FALSE)
  <2>1. Put(2, FALSE)
    BY <1>8
  <2>2. /\ posIn + 2 <= lenIn /\ RoomFor(2)
        /\ \A k \in 0 .. 2 - 1 : (k = 0 /\ posIn + k = posIn) \/ k = 1
    BY <1>1, <1>2, <1>8 DEF RoomFor
  <2>3. \A k \in 0 .. 2 - 1 : In(posIn + k) # ESC
    BY <1>8, <2>2
  <2>4. /\ Written(posIn, posOut, strOut)'
        /\ posIn' = posIn + 2 /\ posOut' \in Nat /\ posOut' <= posOut + 2 * MaxLength
    BY <1>1, <2>1, <2>2, <2>3, PutCodes
  <2>5. \A a, b : b \in Nat /\ a = posIn + 2 /\ b <= posOut + 2 * MaxLength
                   => b <= posOut + 2 * MaxLength + 1 /\ a + 1 >= lenIn
    BY <1>1, <1>2
  <2> QED
    BY <1>9, <2>4, <2>5
<1> QED
  BY <1>5, <1>6, <1>7, <1>8 DEF LastThree

(* The last code is not an escape, behind which nothing would follow.      *)
LEMMA LastPreserves == ASSUME WellFormed, IInv, LastCode PROVE IInv'
<1>1. /\ pc' = "slow" /\ UNCHANGED arguments /\ Arguments /\ Written(posIn, posOut, strOut)
      /\ RoomFor(1) /\ posIn + 1 >= lenIn
  BY DEF LastCode, IInv
<1>2. posIn \in Nat /\ lenIn \in Nat /\ posIn \in Cuts
  BY <1>1, Positions, Numbers
<1>3. Arguments'
  BY <1>1, ArgumentsStay
<1>4. CASE posIn < lenIn
  <2>1. Put(1, FALSE)
    BY <1>4 DEF LastCode
  <2>2. ASSUME In(posIn) = ESC PROVE FALSE
    <3>1. posIn + 2 <= lenIn
      BY <1>1, <1>2, <1>4, <2>2, EscapeNext
    <3> QED
      BY <3>1, <1>1, <1>2
  <2>3. posIn + 1 <= lenIn /\ \A k \in 0 .. 1 - 1 : k = 0 /\ posIn + k = posIn
    BY <1>2, <1>4
  <2>4. \A k \in 0 .. 1 - 1 : In(posIn + k) # ESC
    BY <2>2, <2>3
  <2>5. Written(posIn, posOut, strOut)'
    BY <1>1, <2>1, <2>3, <2>4, PutCodes
  <2> QED
    BY <1>1, <1>3, <2>5 DEF IInv
<1>5. CASE ~ (posIn < lenIn)
  <2>1. posIn' = posIn /\ posOut' = posOut /\ strOut' = strOut
    BY <1>5 DEF LastCode
  <2>2. Written(posIn, posOut, strOut)'
    BY <1>1, <2>1, WrittenStays
  <2> QED
    BY <1>1, <1>3, <2>2 DEF IInv
<1> QED
  BY <1>4, <1>5

(* The loop of single codes.                                               *)
LEMMA SinglePreserves == ASSUME WellFormed, IInv, Single \/ SingleEnd PROVE IInv'
<1>1. /\ pc = "single" /\ UNCHANGED arguments /\ Arguments /\ Written(posIn, posOut, strOut)
      /\ pc' \in {"single", "slow"}
  BY DEF Single, SingleEnd, IInv
<1>2. /\ posIn \in Nat /\ posOut \in Nat /\ lenIn \in Nat /\ size \in Nat
      /\ MaxLength \in Nat /\ MaxLength >= 3
  BY <1>1, Positions, Numbers
<1>3. Arguments'
  BY <1>1, ArgumentsStay
<1>4. CASE Single /\ In(posIn) = ESC
  <2>1. Put(0, TRUE) /\ RoomFor(1) /\ posIn < lenIn
    BY <1>4 DEF Single
  <2>2. /\ posIn + 0 < lenIn /\ posIn + 0 = posIn /\ posOut + 0 * MaxLength < size
        /\ \A k \in 0 .. 0 - 1 : In(posIn + k) # ESC
    BY <1>2, <2>1 DEF RoomFor
  <2>3. Written(posIn, posOut, strOut)'
    BY <1>1, <1>4, <2>1, <2>2, PutEscape
  <2> QED
    BY <1>1, <1>3, <2>3 DEF IInv
<1>5. CASE Single /\ In(posIn) # ESC
  <2>1. Put(1, FALSE) /\ RoomFor(1) /\ posIn < lenIn
    BY <1>5 DEF Single
  <2>2. posIn + 1 <= lenIn /\ \A k \in 0 .. 1 - 1 : k = 0 /\ posIn + k = posIn
    BY <1>2, <2>1
  <2>3. \A k \in 0 .. 1 - 1 : In(posIn + k) # ESC
    BY <1>5, <2>2
  <2>4. Written(posIn, posOut, strOut)'
    BY <1>1, <2>1, <2>2, <2>3, PutCodes
  <2> QED
    BY <1>1, <1>3, <2>4 DEF IInv
<1>6. CASE SingleEnd
  <2>1. posIn' = posIn /\ posOut' = posOut /\ strOut' = strOut
    BY <1>6 DEF SingleEnd
  <2>2. Written(posIn, posOut, strOut)'
    BY <1>1, <2>1, WrittenStays
  <2> QED
    BY <1>1, <1>3, <2>2 DEF IInv
<1> QED
  BY <1>4, <1>5, <1>6

(* Byte by byte: what does not fit is counted only.                        *)
LEMMA SlowPreserves == ASSUME WellFormed, IInv, SlowCode \/ SlowEscape PROVE IInv'
<1>1. /\ pc = "slow" /\ pc' = "slow" /\ UNCHANGED arguments /\ Arguments
      /\ Written(posIn, posOut, strOut) /\ posIn < lenIn
  BY DEF SlowCode, SlowEscape, IInv
<1>2. /\ posIn \in Cuts /\ posOut \in Nat /\ size \in Nat /\ MaxLength \in Nat
      /\ Index \subseteq Int /\ \A i \in -1 .. size + MaxLength : i \in Index
  BY <1>1, Positions, Numbers
<1>3. Arguments'
  BY <1>1, ArgumentsStay
<1>4. SUFFICES Written(posIn, posOut, strOut)'
  BY <1>1, <1>3 DEF IInv
<1>5. CASE SlowEscape
  <2> DEFINE u == IF posOut < size THEN [strOut EXCEPT ![posOut] = Escaped(posIn)] ELSE strOut
  <2>1. /\ In(posIn) = ESC /\ strOut' = u /\ posOut' = posOut + 1 /\ posIn' = posIn + 2
    BY <1>5 DEF SlowEscape, EscapeLength
  <2>2. u = IF posOut < size THEN [strOut EXCEPT ![posOut] = Escaped(posIn)] ELSE strOut
    OBVIOUS
  <2> HIDE DEF u
  <2>3. Written(posIn + 2, posOut + 1, u)
    BY <1>1, <1>2, <2>1, <2>2, ByteStored
  <2> QED
    BY <1>1, <2>1, <2>3, WrittenStays
<1>6. CASE SlowCode
  <2> DEFINE c == In(posIn)
             x == decoder.symbol[c].symbol
             codes == <<c>>
             e == posOut + decoder.symbol[c].len
             u == [i \in Index |-> IF i \in posOut .. Min({e, size}) - 1
                                     THEN Word(c)[i - posOut + 1] ELSE strOut[i]]
  <2>1. c # ESC /\ strOut' = u /\ posOut' = e /\ posIn' = posIn + 1
    BY <1>6 DEF SlowCode
  <2>2. /\ ProperCode(decoder.symbol, c) /\ posIn + 1 \in Cuts
        /\ Decodes(decoder.symbol, codes, x) /\ Lengthens(strIn, posIn + 1, posIn, codes)
    BY <1>1, <1>2, <2>1, CodeNext
  <2>3. /\ x \in Seq(Byte) /\ Len(x) = decoder.symbol[c].len /\ Len(x) \in 1 .. MaxLength
        /\ \A j \in 1 .. MaxLength : Word(c)[j] \in Int
        /\ \A j \in 1 .. Len(x) : Word(c)[j] = x[j]
    BY <1>1, <2>2, WordOf
  <2>4. e = posOut + Len(x)
    BY <2>3
  <2>5. u = [i \in Index |-> IF i \in posOut .. Min({e, size}) - 1
                               THEN Word(c)[i - posOut + 1] ELSE strOut[i]]
    OBVIOUS
  <2> HIDE DEF c, x, codes, e, u
  <2>6. e \in Nat /\ Min({e, size}) = IF e <= size THEN e ELSE size
    <3>1. e \in Nat
      BY <1>2, <2>3, <2>4
    <3> QED
      BY <3>1, <1>2 DEF Min
  <2>7. \A i \in Index : u[i] = IF posOut <= i /\ i < e /\ i < size
                                  THEN Word(c)[i - posOut + 1] ELSE strOut[i]
    <3>1. \A i \in Index : i \in posOut .. Min({e, size}) - 1 <=> posOut <= i /\ i < e /\ i < size
      BY <1>2, <2>6
    <3> QED
      BY <2>5, <3>1
  <2>8. /\ strOut \in [Index -> Int]
        /\ \A i \in Index : strOut[i] # Untouched => i \in 0 .. size - 1
    BY <1>1 DEF Written
  <2>9. u \in [Index -> Int]
    <3>1. ASSUME NEW i \in Index PROVE u[i] \in Int
      <4>1. CASE posOut <= i /\ i < e /\ i < size
        <5> DEFINE j == i - posOut + 1
        <5>0. u[i] = Word(c)[j]
          BY <4>1, <2>7
        <5>1. j \in 1 .. MaxLength
          BY <4>1, <1>2, <2>3, <2>4
        <5> HIDE DEF j
        <5> QED
          BY <5>0, <5>1, <2>3
      <4>2. CASE ~ (posOut <= i /\ i < e /\ i < size)
        BY <4>2, <2>7, <2>8
      <4> QED
        BY <4>1, <4>2
    <3>2. u = [i \in Index |-> u[i]]
      BY <2>5
    <3> QED
      BY <3>1, <3>2
  <2>10. ASSUME NEW i \in Index, u[i] # Untouched PROVE i \in 0 .. size - 1
    <3>1. CASE posOut <= i /\ i < e /\ i < size
      BY <3>1, <1>2
    <3>2. CASE ~ (posOut <= i /\ i < e /\ i < size)
      BY <3>2, <2>7, <2>8, <2>10
    <3> QED
      BY <3>1, <3>2
  <2>11. ASSUME NEW i \in 0 .. posOut - 1, i < size PROVE u[i] = strOut[i]
    <3>1. i \in Index /\ ~ (posOut <= i)
      BY <1>2, <2>11
    <3> QED
      BY <3>1, <2>7
  <2>12. ASSUME NEW j \in 1 .. Len(x), posOut + j - 1 < size PROVE u[posOut + j - 1] = x[j]
    <3> DEFINE i == posOut + j - 1
    <3>1. i \in Index /\ posOut <= i /\ i < e /\ i < size /\ i - posOut + 1 = j
      BY <1>2, <2>3, <2>4, <2>12
    <3> HIDE DEF i
    <3>2. u[i] = x[j]
      BY <3>1, <2>3, <2>7
    <3> QED
      BY <3>2 DEF i
  <2>13. Adds(posOut, strOut, x, u)
    BY <2>9, <2>10, <2>11, <2>12 DEF Adds
  <2>14. Written(posIn + 1, e, u)
    BY <1>1, <2>2, <2>4, <2>13, WrittenNext
  <2> QED
    BY <1>1, <2>1, <2>14, WrittenStays
<1> QED
  BY <1>5, <1>6

(* At the end.                                                             *)
LEMMA ReturnPreserves == ASSUME WellFormed, IInv, Return PROVE IInv'
<1>1. /\ pc' = "returned" /\ UNCHANGED arguments /\ Arguments /\ Written(posIn, posOut, strOut)
      /\ posIn >= lenIn /\ posIn' = posIn /\ posOut' = posOut
      /\ strOut' = IF posOut >= size /\ decoder.zeroTerminated
                     THEN [strOut EXCEPT ![size - 1] = 0] ELSE strOut
  BY DEF Return, IInv
<1>2. /\ posIn = lenIn /\ posOut \in Nat /\ size \in Nat
      /\ MaxLength \in Nat /\ \A i \in -1 .. size + MaxLength : i \in Index
  BY <1>1, Positions, Numbers
<1>3. Arguments' /\ decoder' = decoder /\ strIn' = strIn /\ size' = size /\ Index' = Index
  BY <1>1, ArgumentsStay DEF arguments, Index
<1>4. /\ strOut \in [Index -> Int] /\ posOut = Len(Text(posIn))
      /\ \A i \in 0 .. posOut - 1 : i < size => strOut[i] = Text(posIn)[i + 1]
      /\ \A i \in Index : strOut[i] # Untouched => i \in 0 .. size - 1
  BY <1>1 DEF Written
<1> DEFINE z == posOut >= size /\ decoder.zeroTerminated
<1>5. size - 1 \in Index
  BY <1>2
<1>6. \A i \in Index : strOut'[i] = IF z /\ i = size - 1 THEN 0 ELSE strOut[i]
  BY <1>1, <1>4, <1>5
<1>7. Min({posOut, size}) = IF posOut <= size THEN posOut ELSE size
  BY <1>2 DEF Min
<1>8. \A i \in 0 .. Min({posOut, size}) - 1 :
        strOut'[i] = IF z /\ i = size - 1 THEN 0 ELSE Text(posIn)[i + 1]
  <2>1. ASSUME NEW i \in 0 .. Min({posOut, size}) - 1
        PROVE  i \in Index /\ i \in 0 .. posOut - 1 /\ i < size
    BY <1>2, <1>7
  <2> QED
    BY <2>1, <1>4, <1>6
<1>9. Faithful'
  <2>1. Decode(decoder.symbol, SubSeq(strIn, 1, posIn))' = Text(posIn)
    BY <1>1, <1>3 DEF Text
  <2>2. lenIn' = lenIn
    BY <1>3 DEF lenIn
  <2> DEFINE text == Text(posIn)
             closed == pc' = "returned" /\ decoder'.zeroTerminated /\ posOut' >= size'
  <2>3. closed <=> z
    BY <1>1, <1>3
  <2>4. posOut' = Len(text) /\ posIn' = lenIn' /\ Min({posOut', size'}) = Min({posOut, size})
    BY <1>1, <1>2, <1>3, <1>4, <2>2
  <2>5. \A i \in 0 .. Min({posOut', size'}) - 1 :
          strOut'[i] = IF closed /\ i = size' - 1 THEN 0 ELSE text[i + 1]
    <3> HIDE DEF text, closed, z
    <3> QED
      BY <1>3, <1>8, <2>3, <2>4 DEF text
  <2> HIDE DEF text
  <2> QED
    BY <2>1, <2>4, <2>5 DEF Faithful, text
<1>10. InBounds'
  <2>1. ASSUME size > 0 \/ ~ decoder.zeroTerminated, NEW i \in Index, strOut'[i] # Untouched
        PROVE  i \in 0 .. size - 1
    <3>1. CASE z /\ i = size - 1
      BY <3>1, <2>1, <1>2
    <3>2. CASE ~ (z /\ i = size - 1)
      BY <3>2, <2>1, <1>4, <1>6
    <3> QED
      BY <3>1, <3>2
  <2> QED
    BY <2>1, <1>3 DEF InBounds, Inside
<1> QED
  BY <1>1, <1>3, <1>9, <1>10 DEF IInv

LEMMA NextInv == ASSUME WellFormed PROVE IInv /\ [Next]_vars => IInv'
<1> SUFFICES ASSUME IInv, [Next]_vars PROVE IInv'
  OBVIOUS
<1>1. CASE UNCHANGED vars
  <2>1. UNCHANGED arguments /\ posIn' = posIn /\ posOut' = posOut /\ strOut' = strOut /\ pc' = pc
    BY <1>1 DEF vars, arguments
  <2>2. Arguments' /\ lenIn' = lenIn /\ size' = size /\ decoder' = decoder /\ strIn' = strIn
    BY <2>1, ArgumentsStay DEF IInv, lenIn, arguments
  <2>3. pc # "returned" => Written(posIn, posOut, strOut)'
    BY <2>1, WrittenStays DEF IInv
  <2>4. Faithful => Faithful'
    BY <2>1, <2>2 DEF Faithful
  <2>5. InBounds => InBounds'
    BY <2>1, <2>2 DEF InBounds, Inside, Index
  <2>6. (RoomFor(Block) => RoomFor(Block)') /\ (RoomFor(1) => RoomFor(1)')
    BY <2>1, <2>2 DEF RoomFor, Block
  <2> QED
    BY <2>1, <2>2, <2>3, <2>4, <2>5, <2>6 DEF IInv, Block
<1> QED
  BY <1>1, FastPreserves, TailPreserves, LastPreserves, SinglePreserves, SlowPreserves,
     ReturnPreserves DEF Next

--------------------------------------------------------------------------------
(* Whichever loop decodes a code, and wherever one loop hands over to the  *)
(* next, the output is the text of the codes read so far, cut to its size, *)
(* for every decoder, well-formed input, size and build.                   *)
THEOREM FaithfulAlways == ASSUME WellFormed PROVE Spec => []Faithful
<1>1. IInv => Faithful
  <2> SUFFICES ASSUME IInv, pc # "returned" PROVE Faithful
    BY DEF IInv
  <2>1. Written(posIn, posOut, strOut) /\ posOut \in Nat /\ size \in Nat
    BY Positions, Numbers DEF IInv
  <2>2. Min({posOut, size}) = IF posOut <= size THEN posOut ELSE size
    BY <2>1 DEF Min
  <2>3. \A i \in 0 .. Min({posOut, size}) - 1 : i \in 0 .. posOut - 1 /\ i < size
    BY <2>1, <2>2
  <2> QED
    BY <2>1, <2>3 DEF Written, Faithful, Text
<1> QED
  BY <1>1, InitInv, NextInv, PTL DEF Spec

(* And whole words are stored nowhere but in the output.                   *)
THEOREM InBoundsAlways == ASSUME WellFormed PROVE Spec => []InBounds
<1>1. IInv => InBounds
  BY DEF IInv, Written, InBounds, Inside
<1> QED
  BY <1>1, InitInv, NextInv, PTL DEF Spec

(* The inputs are what a compressor has written: codes that stand for a    *)
(* text, as WrittenAlways of CompressBulkProof says of its output.         *)
Compressed ==
  \A d \in Decoders : \A s \in Inputs(d) : \E text : Decodes(d.symbol, s, text)

(* The text is back, as far as there is room for it.                       *)
Restored ==
  \A text : pc = "returned" /\ Decodes(decoder.symbol, strIn, text) =>
    /\ posOut = Len(text)
    /\ \A i \in 0 .. Min({posOut, size}) - 1 :
         strOut[i] = IF decoder.zeroTerminated /\ posOut >= size /\ i = size - 1
                       THEN 0 ELSE text[i + 1]

(* What was compressed is restored: with the codes of a text as input,     *)
(* fsst_decompress returns its length and its bytes, in every build and    *)
(* for every size of the output.                                           *)
THEOREM RestoredAlways == ASSUME Compressed PROVE Spec => []Restored
<1>1. WellFormed
  BY DEF Compressed, WellFormed, Decodes
<1>2. Arguments /\ Faithful => Restored
  <2> SUFFICES ASSUME Arguments, Faithful, pc = "returned",
                      NEW text, Decodes(decoder.symbol, strIn, text)
               PROVE  /\ posOut = Len(text)
                      /\ \A i \in 0 .. Min({posOut, size}) - 1 :
                           strOut[i] = IF decoder.zeroTerminated /\ posOut >= size /\ i = size - 1
                                         THEN 0 ELSE text[i + 1]
    BY DEF Restored
  <2>1. strIn \in Seq(Nat) /\ posIn = Len(strIn)
    BY DEF Decodes, Faithful, lenIn
  <2>2. SubSeq(strIn, 1, posIn) = strIn
    BY <2>1
  <2>3. Decode(decoder.symbol, SubSeq(strIn, 1, posIn)) = text
    BY <2>2, DecodesIs
  <2> QED
    BY <2>3, Zenon DEF Faithful
<1>3. IInv => Arguments
  BY DEF IInv
<1> QED
  BY <1>1, <1>2, <1>3, FaithfulAlways, InitInv, NextInv, PTL DEF Spec

(* The decoder that fsst_import makes of the header of a finished table    *)
(* has under each of its codes an entry that fits a word.                  *)
THEOREM DecodersFit ==
  ASSUME NEW t, Ready(t), NSymbols(t) > 0, NEW u, u = FinalizeTable(t),
         NEW d, d = [zeroTerminated |-> u.zeroTerminated, symbol |-> ImportTable(ExportTable(u))],
         NEW c \in 0 .. NSymbols(u) - 1
  PROVE  ProperCode(d.symbol, c)
<1>1. u.symbols \in Seq(Symbol) /\ NSymbols(u) = NSymbols(t)
  BY FinalSymbols
<1>2. NSymbols(t) \in Nat /\ NSymbols(t) <= ESC /\ ESC \in Nat
  BY TableAssumption DEF Ready, Agrees, Shape, NSymbols, ESC, MaxSymbols
<1>3. c \in 0 .. ESC - 1 /\ c < NSymbols(t) /\ c + 1 \in 1 .. NSymbols(u)
  BY <1>1, <1>2
<1>4. u.symbols[c + 1] \in Symbol
  BY <1>1, <1>3, ElementType DEF NSymbols
<1>5. ImportTable(ExportTable(u))[c] = [len |-> Len(u.symbols[c + 1]), symbol |-> u.symbols[c + 1]]
  BY <1>3, ImportExact
<1>6. /\ d.symbol[c].len = Len(u.symbols[c + 1])
      /\ d.symbol[c].symbol = u.symbols[c + 1]
  BY <1>5
<1>7. u.symbols[c + 1] \in Seq(Byte) /\ Len(u.symbols[c + 1]) \in 1 .. MaxLength
  BY <1>4, SymbolIsSeq
<1> QED
  BY <1>3, <1>6, <1>7 DEF ProperCode
================================================================================
