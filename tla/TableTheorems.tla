----------------------------- MODULE TableTheorems ----------------------------
(***************************************************************************)
(* Facts about the operators of the symbol table, for every alphabet,      *)
(* length limit and hash function.  While a table is built, the three      *)
(* structures that findLongestSymbol probes agree with the list of         *)
(* symbols: each symbol is where it will be looked for, under its code,    *)
(* and nothing else is.  From this follow the longest match and the        *)
(* thoroughness of clear.  finalize gives the codes out once each, in the  *)
(* order the compressor relies on, and the lookups of the compressor find  *)
(* what findLongestSymbol found before.                                    *)
(* What fsst_import reads from what fsst_export wrote is the finished      *)
(* table's own map from codes to symbols. Decoding is compositional: a     *)
(* code, or an escape and its byte, decodes to the same bytes whatever     *)
(* follows; a lookup in a finished table makes the greedy choice, and what *)
(* it emits decodes to what it matched.                                    *)
(***************************************************************************)
EXTENDS SymbolTable, Decoding, FiniteSets, FiniteSetsExt, Functions,
        FiniteSetTheorems, WellFoundedInduction, TLAPS

--------------------------------------------------------------------------------
(* Induction over the numbers, and sums over finite sets.  The library's   *)
(* induction theorems have the property to be proved as a parameter; here  *)
(* it is the set of the numbers that have it.  A sum is defined by a       *)
(* recursive function, of which it is proved first that there is one.      *)

(* A set of numbers that is not empty has a least element.                 *)
LEMMA LeastNat ==
  ASSUME NEW T \in SUBSET Nat, T # {}
  PROVE  \E x \in T : \A y \in T : x <= y
<1> DEFINE R == {p \in Nat \X Nat : p[1] < p[2]}
<1>1. IsWellFoundedOn(R, Nat)
  BY NatLessThanWellFounded DEF OpToRel
<1>2. \A x, y \in Nat : <<x, y>> \in R <=> x < y
  OBVIOUS
<1> HIDE DEF R
<1>3. PICK x \in T : \A y \in T : ~ (<<y, x>> \in R)
  BY <1>1, WFMin
<1>4. ASSUME NEW y \in T PROVE x <= y
  <2>1. x \in Nat /\ y \in Nat /\ ~ (<<y, x>> \in R)
    BY <1>3
  <2>2. ~ (y < x)
    BY <2>1, <1>2
  <2> QED
    BY <2>1, <2>2
<1> QED
  BY <1>4

(* Induction over the numbers, for the set of those that have a property.  *)
LEMMA SetInduction ==
  ASSUME NEW T, 0 \in T, \A n \in Nat : n \in T => n + 1 \in T
  PROVE  \A n \in Nat : n \in T
<1> DEFINE B == Nat \ T
<1>1. ASSUME B # {} PROVE FALSE
  <2>1. PICK x \in B : \A y \in B : x <= y
    BY <1>1, LeastNat
  <2>2. x \in Nat /\ x # 0 /\ x - 1 \in Nat
    BY <2>1
  <2>3. x - 1 \in T
    <3>1. ~ (x - 1 \in B)
      BY <2>1, <2>2
    <3> QED
      BY <3>1, <2>2
  <2>4. x - 1 + 1 \in T
    BY <2>2, <2>3
  <2> QED
    BY <2>1, <2>2, <2>4
<1> QED
  BY <1>1

--------------------------------------------------------------------------------
(* The sum of a function over a finite set.                                *)
SumStep(fun, g, s) ==
  IF s = {} THEN 0 ELSE LET x == CHOOSE x \in s : TRUE IN fun[x] + g[s \ {x}]

IsSums(fun, g, S) == \A s \in SUBSET S : g[s] = SumStep(fun, g, s)

Sums(fun, S) == CHOOSE g : g = [s \in SUBSET S |-> SumStep(fun, g, s)]

(* The sum is the value of that function for the whole set.                *)
LEMMA SumIsSums ==
  ASSUME NEW fun, NEW S
  PROVE  SumFunctionOnSet(fun, S) = Sums(fun, S)[S]
BY Zenon DEF SumFunctionOnSet, FoldFunctionOnSet, MapThenFoldSet, Sums, SumStep

(* There is one such function at most.                                     *)
LEMMA SumsUnique ==
  ASSUME NEW fun, NEW S, IsFiniteSet(S), NEW g, NEW h, IsSums(fun, g, S), IsSums(fun, h, S)
  PROVE  \A s \in SUBSET S : g[s] = h[s]
<1> DEFINE T == {n \in Nat : \A s \in SUBSET S : Cardinality(s) = n => g[s] = h[s]}
<1>0. \A s \in SUBSET S : IsFiniteSet(s) /\ Cardinality(s) \in Nat
  BY FS_Subset, FS_CardinalityType
<1>1. 0 \in T
  BY <1>0, FS_EmptySet DEF SumStep, IsSums
<1>2. ASSUME NEW n \in Nat, n \in T PROVE n + 1 \in T
  <2>1. ASSUME NEW s \in SUBSET S, Cardinality(s) = n + 1 PROVE g[s] = h[s]
    <3> DEFINE c == CHOOSE x \in s : TRUE
    <3>1. s # {}
      BY <2>1, FS_EmptySet
    <3>2. c \in s /\ g[s] = fun[c] + g[s \ {c}] /\ h[s] = fun[c] + h[s \ {c}]
      BY <3>1 DEF SumStep, IsSums
    <3> HIDE DEF c
    <3>3. s \ {c} \in SUBSET S /\ Cardinality(s \ {c}) = n
      <4>1. c \in s /\ IsFiniteSet(s)
        BY <3>2, <1>0
      <4>2. Cardinality(s \ {c}) = Cardinality(s) - 1
        BY <4>1, FS_RemoveElement
      <4> QED
        BY <4>2, <2>1
    <3>4. g[s \ {c}] = h[s \ {c}]
      BY <3>3, <1>2
    <3> QED
      BY <3>2, <3>4
  <2> QED
    BY <2>1
<1>3. \A n \in Nat : n \in T
  <2> HIDE DEF T
  <2> QED
    BY <1>1, <1>2, SetInduction
<1> QED
  BY <1>3, <1>0

(* The function exists: it can be extended to sets with one more element.  *)
LEMMA SumsExist ==
  ASSUME NEW fun, NEW S, IsFiniteSet(S), \A x \in S : fun[x] \in Int
  PROVE  /\ Sums(fun, S) \in [SUBSET S -> Int]
         /\ IsSums(fun, Sums(fun, S), S)
<1> DEFINE T == {n \in Nat : \E g \in [SUBSET S -> Int] :
                   \A s \in SUBSET S : Cardinality(s) <= n => g[s] = SumStep(fun, g, s)}
<1>0. \A s \in SUBSET S : IsFiniteSet(s) /\ Cardinality(s) \in Nat /\ Cardinality(s) <= Cardinality(S)
  BY FS_Subset, FS_CardinalityType
<1>1. 0 \in T
  <2> DEFINE g == [s \in SUBSET S |-> 0]
  <2>1. \A s \in SUBSET S : Cardinality(s) <= 0 => s = {}
    BY <1>0, FS_EmptySet
  <2>2. g \in [SUBSET S -> Int] /\ \A s \in SUBSET S : Cardinality(s) <= 0 => g[s] = SumStep(fun, g, s)
    BY <2>1 DEF SumStep
  <2> QED
    BY <2>2
<1>2. ASSUME NEW n \in Nat, n \in T PROVE n + 1 \in T
  <2>1. PICK g \in [SUBSET S -> Int] :
           \A s \in SUBSET S : Cardinality(s) <= n => g[s] = SumStep(fun, g, s)
    BY <1>2
  <2> DEFINE h == [s \in SUBSET S |-> SumStep(fun, g, s)]
  <2>2. ASSUME NEW s \in SUBSET S, s # {}
        PROVE  /\ (CHOOSE x \in s : TRUE) \in s
               /\ s \ {CHOOSE x \in s : TRUE} \in SUBSET S
               /\ Cardinality(s \ {CHOOSE x \in s : TRUE}) = Cardinality(s) - 1
    BY <2>2, <1>0, FS_RemoveElement
  <2>3. h \in [SUBSET S -> Int]
    <3>1. \A s \in SUBSET S : SumStep(fun, g, s) \in Int
      BY <2>2 DEF SumStep
    <3> QED
      BY <3>1
  <2>4. ASSUME NEW s \in SUBSET S, Cardinality(s) <= n + 1 PROVE h[s] = SumStep(fun, h, s)
    <3>1. CASE s = {}
      BY <3>1 DEF SumStep
    <3>2. CASE s # {}
      <4> DEFINE r == s \ {CHOOSE x \in s : TRUE}
      <4>1. r \in SUBSET S /\ Cardinality(r) <= n
        BY <2>2, <2>4, <3>2, <1>0
      <4>2. h[r] = g[r]
        BY <4>1, <2>1
      <4> QED
        BY <4>2, <3>2 DEF SumStep
    <3> QED
      BY <3>1, <3>2
  <2> HIDE DEF h
  <2> QED
    BY <2>3, <2>4
<1>3. Cardinality(S) \in T
  <2> HIDE DEF T
  <2> QED
    BY <1>1, <1>2, SetInduction, FS_CardinalityType
<1>4. PICK g \in [SUBSET S -> Int] : IsSums(fun, g, S)
  BY <1>3, <1>0 DEF IsSums
<1>5. g = [s \in SUBSET S |-> SumStep(fun, g, s)]
  BY <1>4 DEF IsSums
<1>6. Sums(fun, S) = [s \in SUBSET S |-> SumStep(fun, Sums(fun, S), s)]
  BY <1>5, Zenon DEF Sums
<1>7. IsSums(fun, Sums(fun, S), S)
  BY <1>6, Zenon DEF IsSums
<1>8. \A s \in SUBSET S : Sums(fun, S)[s] = g[s]
  BY <1>4, <1>7, SumsUnique
<1>9. DOMAIN Sums(fun, S) = SUBSET S
  BY <1>6, Zenon
<1> QED
  BY <1>6, <1>7, <1>8, <1>9

--------------------------------------------------------------------------------
(* What follows is cited instead of the definition: a sum is a number.     *)
LEMMA SumType ==
  ASSUME NEW fun, NEW S, IsFiniteSet(S), \A x \in S : fun[x] \in Int
  PROVE  SumFunctionOnSet(fun, S) \in Int
<1>1. Sums(fun, S) \in [SUBSET S -> Int] /\ S \in SUBSET S
  BY SumsExist
<1> QED
  BY <1>1, SumIsSums

(* The empty sum.                                                          *)
LEMMA SumOfNone == ASSUME NEW fun PROVE SumFunctionOnSet(fun, {}) = 0
<1>1. IsFiniteSet({}) /\ {} \in SUBSET {}
  BY FS_EmptySet
<1>2. IsSums(fun, Sums(fun, {}), {})
  BY <1>1, SumsExist
<1> QED
  BY <1>1, <1>2, SumIsSums DEF SumStep, IsSums

(* The sum depends on the values of the function on the set.               *)
LEMMA SumEqual ==
  ASSUME NEW fun, NEW other, NEW S, IsFiniteSet(S),
         \A x \in S : fun[x] \in Int /\ other[x] = fun[x]
  PROVE  SumFunctionOnSet(fun, S) = SumFunctionOnSet(other, S)
<1>1. IsSums(fun, Sums(fun, S), S)
  BY SumsExist
<1>2. IsSums(fun, Sums(other, S), S)
  <2>1. IsSums(other, Sums(other, S), S)
    BY SumsExist
  <2>2. \A s \in SUBSET S : s # {} => (CHOOSE x \in s : TRUE) \in S
    OBVIOUS
  <2> QED
    BY <2>1, <2>2 DEF SumStep, IsSums
<1>3. Sums(fun, S)[S] = Sums(other, S)[S]
  BY <1>1, <1>2, SumsUnique
<1> QED
  BY <1>3, SumIsSums

(* An element is taken out.                                                *)
LEMMA SumWithout ==
  ASSUME NEW fun, NEW S, IsFiniteSet(S), \A x \in S : fun[x] \in Int, NEW x \in S
  PROVE  SumFunctionOnSet(fun, S) = fun[x] + SumFunctionOnSet(fun, S \ {x})
<1> DEFINE g == Sums(fun, S)
           T == {n \in Nat : \A s \in SUBSET S : Cardinality(s) = n =>
                   \A y \in s : g[s] = fun[y] + g[s \ {y}]}
<1>0. \A s \in SUBSET S : IsFiniteSet(s) /\ Cardinality(s) \in Nat
  BY FS_Subset, FS_CardinalityType
<1>1. g \in [SUBSET S -> Int] /\ IsSums(fun, g, S)
  BY SumsExist
<1> HIDE DEF g
<1>2. 0 \in T
  BY <1>0, FS_EmptySet
<1>3. ASSUME NEW n \in Nat, n \in T PROVE n + 1 \in T
  <2>1. ASSUME NEW s \in SUBSET S, Cardinality(s) = n + 1, NEW y \in s
        PROVE  g[s] = fun[y] + g[s \ {y}]
    <3> DEFINE c == CHOOSE z \in s : TRUE
    <3>1. c \in s /\ g[s] = fun[c] + g[s \ {c}]
      BY <1>1 DEF SumStep, IsSums
    <3> HIDE DEF c
    <3>2. CASE c = y
      BY <3>1, <3>2
    <3>3. CASE c # y
      <4>1. s \ {c} \in SUBSET S /\ Cardinality(s \ {c}) = n /\ y \in s \ {c}
        BY <3>1, <3>3, <2>1, <1>0, FS_RemoveElement
      <4>2. s \ {y} \in SUBSET S /\ Cardinality(s \ {y}) = n /\ c \in s \ {y}
        BY <3>1, <3>3, <2>1, <1>0, FS_RemoveElement
      <4>3. g[s \ {c}] = fun[y] + g[(s \ {c}) \ {y}]
        BY <4>1, <1>3
      <4>4. g[s \ {y}] = fun[c] + g[(s \ {y}) \ {c}]
        BY <4>2, <1>3
      <4>5. (s \ {c}) \ {y} = (s \ {y}) \ {c} /\ (s \ {c}) \ {y} \in SUBSET S
        OBVIOUS
      <4>6. /\ fun[y] \in Int /\ fun[c] \in Int
            /\ g[(s \ {c}) \ {y}] \in Int
        BY <3>1, <4>5, <1>1
      <4> DEFINE rest == g[(s \ {c}) \ {y}]
      <4>7. g[s] = fun[c] + (fun[y] + rest) /\ g[s \ {y}] = fun[c] + rest
        BY <3>1, <4>3, <4>4, <4>5
      <4> HIDE DEF rest
      <4> QED
        BY <4>7, <4>6 DEF rest
    <3> QED
      BY <3>2, <3>3
  <2> QED
    BY <2>1
<1>4. Cardinality(S) \in T
  <2> HIDE DEF T
  <2> QED
    BY <1>2, <1>3, <1>0, SetInduction
<1>5. g[S] = fun[x] + g[S \ {x}]
  BY <1>4
<1>6. g[S \ {x}] = Sums(fun, S \ {x})[S \ {x}]
  <2>1. IsFiniteSet(S \ {x}) /\ S \ {x} \in SUBSET (S \ {x})
    BY <1>0
  <2>2. IsSums(fun, Sums(fun, S \ {x}), S \ {x})
    BY <2>1, SumsExist
  <2>3. IsSums(fun, g, S \ {x})
    BY <1>1 DEF IsSums
  <2> QED
    BY <2>1, <2>2, <2>3, SumsUnique
<1> QED
  BY <1>5, <1>6, SumIsSums DEF g

(* An element is put in.                                                   *)
LEMMA SumWith ==
  ASSUME NEW fun, NEW S, IsFiniteSet(S), \A y \in S : fun[y] \in Int,
         NEW x, x \notin S, fun[x] \in Int
  PROVE  SumFunctionOnSet(fun, S \cup {x}) = fun[x] + SumFunctionOnSet(fun, S)
<1>1. IsFiniteSet(S \cup {x}) /\ (S \cup {x}) \ {x} = S
  BY FS_AddElement
<1> QED
  BY <1>1, SumWithout

(* A sum of numbers that are not negative is not negative.                 *)
LEMMA SumNat ==
  ASSUME NEW fun, NEW S, IsFiniteSet(S), \A x \in S : fun[x] \in Nat
  PROVE  SumFunctionOnSet(fun, S) \in Nat
<1> DEFINE g == Sums(fun, S)
           T == {n \in Nat : \A s \in SUBSET S : Cardinality(s) = n => g[s] \in Nat}
<1>0. \A s \in SUBSET S : IsFiniteSet(s) /\ Cardinality(s) \in Nat
  BY FS_Subset, FS_CardinalityType
<1>1. IsSums(fun, g, S)
  <2>1. \A x \in S : fun[x] \in Int
    OBVIOUS
  <2> QED
    BY <2>1, SumsExist
<1> HIDE DEF g
<1>2. 0 \in T
  BY <1>0, <1>1, FS_EmptySet DEF SumStep, IsSums
<1>3. ASSUME NEW n \in Nat, n \in T PROVE n + 1 \in T
  <2>1. ASSUME NEW s \in SUBSET S, Cardinality(s) = n + 1 PROVE g[s] \in Nat
    <3> DEFINE c == CHOOSE z \in s : TRUE
    <3>1. s # {}
      BY <2>1, FS_EmptySet
    <3>2. c \in s /\ g[s] = fun[c] + g[s \ {c}]
      BY <3>1, <1>1 DEF SumStep, IsSums
    <3> HIDE DEF c
    <3>3. s \ {c} \in SUBSET S /\ Cardinality(s \ {c}) = n
      BY <3>2, <2>1, <1>0, FS_RemoveElement
    <3>4. g[s \ {c}] \in Nat /\ fun[c] \in Nat
      BY <3>2, <3>3, <1>3
    <3> QED
      BY <3>2, <3>4
  <2> QED
    BY <2>1
<1>4. Cardinality(S) \in T
  <2> HIDE DEF T
  <2> QED
    BY <1>2, <1>3, <1>0, SetInduction
<1> QED
  BY <1>4, SumIsSums DEF g

(* The next term of a sum over the first numbers.                          *)
LEMMA SumNext ==
  ASSUME NEW fun, NEW n \in Nat, \A i \in 1 .. n + 1 : fun[i] \in Int
  PROVE  SumFunctionOnSet(fun, 1 .. n + 1) = fun[n + 1] + SumFunctionOnSet(fun, 1 .. n)
<1> DEFINE x == n + 1
           S == 1 .. n
<1>1. IsFiniteSet(S) /\ x \notin S /\ fun[x] \in Int /\ \A y \in S : fun[y] \in Int
  BY FS_Interval
<1>2. S \cup {x} = 1 .. n + 1
  OBVIOUS
<1> HIDE DEF x, S
<1>3. SumFunctionOnSet(fun, S \cup {x}) = fun[x] + SumFunctionOnSet(fun, S)
  BY <1>1, SumWith
<1> QED
  BY <1>2, <1>3 DEF x, S

(* The sum of zeros.                                                       *)
LEMMA SumOfZeros ==
  ASSUME NEW fun, NEW S, IsFiniteSet(S), \A x \in S : fun[x] = 0
  PROVE  SumFunctionOnSet(fun, S) = 0
<1> DEFINE g == Sums(fun, S)
           T == {n \in Nat : \A s \in SUBSET S : Cardinality(s) = n => g[s] = 0}
<1>0. \A s \in SUBSET S : IsFiniteSet(s) /\ Cardinality(s) \in Nat
  BY FS_Subset, FS_CardinalityType
<1>1. IsSums(fun, g, S)
  <2>1. \A x \in S : fun[x] \in Int
    OBVIOUS
  <2> QED
    BY <2>1, SumsExist
<1> HIDE DEF g
<1>2. 0 \in T
  BY <1>0, <1>1, FS_EmptySet DEF SumStep, IsSums
<1>3. ASSUME NEW n \in Nat, n \in T PROVE n + 1 \in T
  <2>1. ASSUME NEW s \in SUBSET S, Cardinality(s) = n + 1 PROVE g[s] = 0
    <3> DEFINE c == CHOOSE z \in s : TRUE
    <3>1. s # {}
      BY <2>1, FS_EmptySet
    <3>2. c \in s /\ g[s] = fun[c] + g[s \ {c}]
      BY <3>1, <1>1 DEF SumStep, IsSums
    <3> HIDE DEF c
    <3>3. s \ {c} \in SUBSET S /\ Cardinality(s \ {c}) = n
      <4>1. c \in s /\ IsFiniteSet(s)
        BY <3>2, <1>0
      <4>2. Cardinality(s \ {c}) = Cardinality(s) - 1
        BY <4>1, FS_RemoveElement
      <4> QED
        BY <4>2, <2>1
    <3>4. g[s \ {c}] = 0 /\ fun[c] = 0
      BY <3>2, <3>3, <1>3
    <3> QED
      BY <3>2, <3>4
  <2> QED
    BY <2>1
<1>4. Cardinality(S) \in T
  <2> HIDE DEF T
  <2> QED
    BY <1>2, <1>3, <1>0, SetInduction
<1> QED
  BY <1>4, SumIsSums DEF g

(* Two functions that differ in one place.                                 *)
LEMMA SumDiffers ==
  ASSUME NEW fun, NEW other, NEW S, IsFiniteSet(S), NEW x \in S,
         \A y \in S : fun[y] \in Int /\ other[y] \in Int,
         \A y \in S \ {x} : other[y] = fun[y]
  PROVE  SumFunctionOnSet(other, S) = SumFunctionOnSet(fun, S) + (other[x] - fun[x])
<1> DEFINE R == S \ {x}
           a == SumFunctionOnSet(fun, R)
           b == SumFunctionOnSet(other, R)
<1>1. IsFiniteSet(R) /\ \A y \in R : fun[y] \in Int /\ other[y] = fun[y]
  BY FS_RemoveElement
<1>2. a = b /\ a \in Int
  <2> HIDE DEF R
  <2> QED
    BY <1>1, SumEqual, SumType
<1>3. SumFunctionOnSet(fun, S) = fun[x] + a /\ SumFunctionOnSet(other, S) = other[x] + b
  BY SumWithout
<1> HIDE DEF a, b
<1> QED
  BY <1>2, <1>3

--------------------------------------------------------------------------------
(* Symbols and their prefixes.                                             *)

(* A symbol is a sequence of 1 .. MaxLength bytes.                         *)
LEMMA SymbolIsSeq ==
  ASSUME NEW s \in Symbol
  PROVE  /\ s \in Seq(Byte)
         /\ Len(s) \in 1 .. MaxLength
         /\ DOMAIN s = 1 .. Len(s)
         /\ \A i \in 1 .. Len(s) : s[i] \in Byte
<1>1. PICK n \in 1 .. MaxLength : s \in [1 .. n -> Byte]
  BY DEF Symbol
<1>2. n \in Nat /\ MaxLength \in Nat
  BY TableAssumption
<1>3. s \in Seq(Byte) /\ Len(s) = n
  BY <1>1, <1>2
<1> QED
  BY <1>1, <1>2, <1>3

(* The prefix relation, element by element.                                *)
LEMMA PrefixElements ==
  ASSUME NEW S, NEW p \in Seq(S), NEW s \in Seq(S)
  PROVE  IsPrefix(p, s) <=> Len(p) <= Len(s) /\ \A i \in 1 .. Len(p) : p[i] = s[i]
BY DEF IsPrefix

(* Symbols of one and two bytes are determined by them.                    *)
LEMMA ShortSymbols ==
  ASSUME NEW s \in Symbol
  PROVE  /\ Len(s) = 1 => s = <<s[1]>> /\ s[1] \in Byte
         /\ Len(s) >= 2 => First2(s) \in Byte \X Byte
         /\ Len(s) = 2 => s = First2(s)
BY SymbolIsSeq DEF First2

(* Every symbol has a bucket.                                              *)
LEMMA BucketType ==
  ASSUME NEW s \in Symbol
  PROVE  BucketOf(s) \in Bucket
<1>1. Key(s) \in [1 .. 3 -> Byte]
  BY SymbolIsSeq, TableAssumption DEF Key
<1> QED
  BY <1>1, TableAssumption DEF BucketOf

(* A prefix of three bytes or more lies in the same bucket.                *)
LEMMA PrefixBucket ==
  ASSUME NEW x \in Symbol, NEW s \in Symbol, IsPrefix(x, s), Len(x) >= 3
  PROVE  BucketOf(x) = BucketOf(s)
<1>1. Len(x) <= Len(s) /\ \A i \in 1 .. Len(x) : x[i] = s[i]
  BY SymbolIsSeq, PrefixElements
<1>2. \A i \in 1 .. 3 : i <= Len(x) /\ i <= Len(s) /\ x[i] = s[i]
  BY <1>1, SymbolIsSeq
<1>3. Key(x) = Key(s)
  BY <1>2 DEF Key
<1> QED
  BY <1>3 DEF BucketOf

--------------------------------------------------------------------------------
(* A table under construction.                                             *)

(* A table under construction has the types of its fields, as far as the   *)
(* proofs need them, and a new suffixLim.                                  *)
Shape(t) ==
  /\ t = [ byteCodes |-> t.byteCodes, shortCodes |-> t.shortCodes,
           hashTab |-> t.hashTab, symbols |-> t.symbols, lenHisto |-> t.lenHisto,
           suffixLim |-> CODE_MAX, terminator |-> t.terminator,
           zeroTerminated |-> t.zeroTerminated ]
  /\ t.symbols \in Seq(Symbol) /\ NSymbols(t) <= MaxSymbols
  /\ t.byteCodes = [b \in Byte |-> t.byteCodes[b]]
  /\ t.shortCodes = [p \in Byte \X Byte |-> t.shortCodes[p]]
  /\ t.hashTab = [k \in Bucket |-> t.hashTab[k]]

ByteEntry(b)    == b
ShortEntry(p)   == [code |-> p[1], len |-> 1]
CodeOf(i)       == CodeBase + i - 1

(* Every symbol is where it will be looked for.                            *)
Entered(t) ==
  \A i \in DOMAIN t.symbols :
    LET s == t.symbols[i]
    IN  /\ Len(s) = 1 => t.byteCodes[s[1]] = CodeOf(i)
        /\ Len(s) = 2 => t.shortCodes[First2(s)] = [code |-> CodeOf(i), len |-> 2]
        /\ Len(s) >= 3 => t.hashTab[BucketOf(s)] = [str |-> s, code |-> CodeOf(i)]

(* Every entry is that of a symbol or that of an unused place.             *)
Owned(t) ==
  /\ \A b \in Byte :
       \/ t.byteCodes[b] = ByteEntry(b)
       \/ \E i \in DOMAIN t.symbols :
            t.symbols[i] = <<b>> /\ t.byteCodes[b] = CodeOf(i)
  /\ \A p \in Byte \X Byte :
       \/ t.shortCodes[p] = ShortEntry(p)
       \/ \E i \in DOMAIN t.symbols :
            t.symbols[i] = p /\ t.shortCodes[p] = [code |-> CodeOf(i), len |-> 2]
  /\ \A k \in Bucket :
       \/ t.hashTab[k] = FreeSlot
       \/ \E i \in DOMAIN t.symbols :
            /\ Len(t.symbols[i]) >= 3 /\ BucketOf(t.symbols[i]) = k
            /\ t.hashTab[k] = [str |-> t.symbols[i], code |-> CodeOf(i)]

Agrees(t) == Shape(t) /\ Entered(t) /\ Owned(t)

(* The length histogram of an empty table is zero.                         *)
HistoEmpty(t) == NSymbols(t) = 0 => t.lenHisto = [l \in 1 .. MaxLength |-> 0]

--------------------------------------------------------------------------------
(* The operations keep the tables in agreement.                            *)

(* A new table agrees with its empty list.                                 *)
LEMMA EmptyAgrees ==
  ASSUME NEW terminator, NEW zeroTerminated
  PROVE  LET t == EmptyTable(terminator, zeroTerminated)
         IN  Agrees(t) /\ HistoEmpty(t)
<1> DEFINE t == EmptyTable(terminator, zeroTerminated)
<1>1. Shape(t)
  BY TableAssumption DEF Shape, EmptyTable, NSymbols, MaxSymbols
<1>2. Entered(t) /\ Owned(t) /\ HistoEmpty(t)
  BY DEF Entered, Owned, HistoEmpty, EmptyTable, NSymbols, ByteEntry, ShortEntry
<1> QED
  BY <1>1, <1>2 DEF Agrees

(* What an addition that is not refused writes.                            *)
LEMMA AddedFields ==
  ASSUME NEW t, NEW s, ~ Refused(t, s), NSymbols(t) \in Nat, CodeBase \in Nat
  PROVE  LET u    == AddSymbol(t, s)
             code == CodeOf(NSymbols(t) + 1)
         IN  /\ u.symbols = Append(t.symbols, s)
             /\ u.byteCodes = IF Len(s) = 1 THEN [t.byteCodes EXCEPT ![s[1]] = code]
                                            ELSE t.byteCodes
             /\ u.shortCodes = IF Len(s) = 2
                                 THEN [t.shortCodes EXCEPT ![First2(s)] =
                                         [code |-> code, len |-> 2]]
                                 ELSE t.shortCodes
             /\ u.hashTab = IF Len(s) >= 3
                              THEN [t.hashTab EXCEPT ![BucketOf(s)] =
                                      [str |-> s, code |-> code]]
                              ELSE t.hashTab
             /\ u.suffixLim = t.suffixLim
             /\ u = [ byteCodes |-> u.byteCodes, shortCodes |-> u.shortCodes,
                      hashTab |-> u.hashTab, symbols |-> u.symbols,
                      lenHisto |-> u.lenHisto, suffixLim |-> u.suffixLim,
                      terminator |-> u.terminator,
                      zeroTerminated |-> u.zeroTerminated ]
<1>1. CodeOf(NSymbols(t) + 1) = CodeBase + NSymbols(t)
  BY DEF CodeOf
<1> QED
  BY <1>1 DEF AddSymbol

(* add keeps the structures in agreement with the list.                    *)
LEMMA AddAgrees ==
  ASSUME NEW t, Agrees(t), NEW s \in Symbol,
         NSymbols(t) < MaxSymbols, s \notin Range(t.symbols)
  PROVE  Agrees(AddSymbol(t, s))
<1> DEFINE u == AddSymbol(t, s)
<1> USE DEF Agrees
<1>1. CASE Refused(t, s)
  BY <1>1 DEF AddSymbol
<1>2. CASE ~ Refused(t, s)
  <2>0. NSymbols(t) \in Nat /\ CodeBase \in Nat /\ t.suffixLim = CODE_MAX
    BY TableAssumption DEF Shape, NSymbols
  <2>1. /\ u.symbols = Append(t.symbols, s)
        /\ u.byteCodes = IF Len(s) = 1 THEN [t.byteCodes EXCEPT ![s[1]] = CodeOf(NSymbols(t) + 1)]
                                       ELSE t.byteCodes
        /\ u.shortCodes = IF Len(s) = 2
                            THEN [t.shortCodes EXCEPT ![First2(s)] =
                                    [code |-> CodeOf(NSymbols(t) + 1), len |-> 2]]
                            ELSE t.shortCodes
        /\ u.hashTab = IF Len(s) >= 3
                         THEN [t.hashTab EXCEPT ![BucketOf(s)] =
                                 [str |-> s, code |-> CodeOf(NSymbols(t) + 1)]]
                         ELSE t.hashTab
        /\ u.suffixLim = CODE_MAX
        /\ u = [ byteCodes |-> u.byteCodes, shortCodes |-> u.shortCodes,
                 hashTab |-> u.hashTab, symbols |-> u.symbols,
                 lenHisto |-> u.lenHisto, suffixLim |-> u.suffixLim,
                 terminator |-> u.terminator, zeroTerminated |-> u.zeroTerminated ]
    BY <1>2, <2>0, AddedFields
  <2> HIDE DEF u
  <2>2. /\ t.symbols \in Seq(Symbol)
        /\ u.symbols \in Seq(Symbol)
        /\ DOMAIN t.symbols = 1 .. NSymbols(t)
        /\ DOMAIN u.symbols = 1 .. NSymbols(t) + 1
        /\ \A i \in 1 .. NSymbols(t) : u.symbols[i] = t.symbols[i] /\ t.symbols[i] # s
        /\ \A i \in 1 .. NSymbols(t) : t.symbols[i] \in Symbol
        /\ u.symbols[NSymbols(t) + 1] = s
        /\ NSymbols(t) \in Nat
        /\ NSymbols(u) = NSymbols(t) + 1
    BY <2>1 DEF Shape, NSymbols, Range
  <2> DEFINE new == NSymbols(t) + 1
  <2>a. /\ u.byteCodes = [b \in Byte |-> u.byteCodes[b]]
        /\ \A b \in Byte : u.byteCodes[b] =
             IF Len(s) = 1 /\ b = s[1] THEN CodeOf(new) ELSE t.byteCodes[b]
    <3>1. t.byteCodes = [b \in Byte |-> t.byteCodes[b]]
      BY DEF Shape
    <3> QED
      BY <3>1, <2>1
  <2>b. /\ u.shortCodes = [p \in Byte \X Byte |-> u.shortCodes[p]]
        /\ \A p \in Byte \X Byte : u.shortCodes[p] =
             IF Len(s) = 2 /\ p = First2(s) THEN [code |-> CodeOf(new), len |-> 2]
                                           ELSE t.shortCodes[p]
    <3>1. t.shortCodes = [p \in Byte \X Byte |-> t.shortCodes[p]]
      BY DEF Shape
    <3> QED
      BY <3>1, <2>1
  <2>c. /\ u.hashTab = [k \in Bucket |-> u.hashTab[k]]
        /\ \A k \in Bucket : u.hashTab[k] =
             IF Len(s) >= 3 /\ k = BucketOf(s) THEN [str |-> s, code |-> CodeOf(new)]
                                              ELSE t.hashTab[k]
    <3>1. t.hashTab = [k \in Bucket |-> t.hashTab[k]]
      BY DEF Shape
    <3> QED
      BY <3>1, <2>1
  <2>3. Shape(u)
    <3>1. u = [ byteCodes |-> u.byteCodes, shortCodes |-> u.shortCodes,
                hashTab |-> u.hashTab, symbols |-> u.symbols,
                lenHisto |-> u.lenHisto, suffixLim |-> CODE_MAX,
                terminator |-> u.terminator, zeroTerminated |-> u.zeroTerminated ]
      BY <2>1
    <3>2. u.symbols \in Seq(Symbol) /\ NSymbols(u) <= MaxSymbols
      BY <2>2, TableAssumption DEF MaxSymbols
    <3> QED
      BY <2>a, <2>b, <2>c, <3>1, <3>2 DEF Shape
  <2>4. Entered(u)
    <3> SUFFICES ASSUME NEW i \in 1 .. NSymbols(t) + 1
                 PROVE  LET x == u.symbols[i]
                        IN  /\ Len(x) = 1 => u.byteCodes[x[1]] = CodeOf(i)
                            /\ Len(x) = 2 => u.shortCodes[First2(x)] =
                                               [code |-> CodeOf(i), len |-> 2]
                            /\ Len(x) >= 3 => u.hashTab[BucketOf(x)] =
                                               [str |-> x, code |-> CodeOf(i)]
      BY <2>2 DEF Entered
    <3>1. CASE i = NSymbols(t) + 1
      <4>1. u.symbols[i] = s /\ i = new
        BY <3>1, <2>2
      <4>2. Len(s) = 1 => u.byteCodes[s[1]] = CodeOf(i)
        BY <4>1, <2>a, ShortSymbols
      <4>3. Len(s) = 2 => u.shortCodes[First2(s)] = [code |-> CodeOf(i), len |-> 2]
        BY <4>1, <2>b, ShortSymbols, SymbolIsSeq
      <4>4. Len(s) >= 3 => u.hashTab[BucketOf(s)] = [str |-> s, code |-> CodeOf(i)]
        BY <4>1, <2>c, BucketType
      <4> QED
        BY <4>1, <4>2, <4>3, <4>4
    <3>2. CASE i \in 1 .. NSymbols(t)
      <4> DEFINE x == t.symbols[i]
      <4>1. x \in Symbol /\ x # s /\ u.symbols[i] = x /\ i \in DOMAIN t.symbols
        BY <3>2, <2>2
      <4> HIDE DEF x
      <4>2. /\ Len(x) = 1 => t.byteCodes[x[1]] = CodeOf(i)
            /\ Len(x) = 2 => t.shortCodes[First2(x)] = [code |-> CodeOf(i), len |-> 2]
            /\ Len(x) >= 3 => t.hashTab[BucketOf(x)] = [str |-> x, code |-> CodeOf(i)]
        BY <4>1 DEF Entered, x
      <4>3. Len(x) = 1 => u.byteCodes[x[1]] = CodeOf(i)
        <5>1. Len(x) = 1 /\ Len(s) = 1 => x[1] \in Byte /\ x[1] # s[1]
          BY <4>1, ShortSymbols
        <5>2. Len(x) = 1 => x[1] \in Byte
          BY <4>1, ShortSymbols
        <5> QED
          BY <5>1, <5>2, <4>2, <2>a
      <4>4. Len(x) = 2 => u.shortCodes[First2(x)] = [code |-> CodeOf(i), len |-> 2]
        <5>1. Len(x) = 2 /\ Len(s) = 2 => First2(x) # First2(s)
          BY <4>1, ShortSymbols
        <5>2. Len(x) = 2 => First2(x) \in Byte \X Byte
          BY <4>1, ShortSymbols
        <5> QED
          BY <5>1, <5>2, <4>2, <2>b
      <4>5. Len(x) >= 3 => u.hashTab[BucketOf(x)] = [str |-> x, code |-> CodeOf(i)]
        <5>1. Len(s) >= 3 => t.hashTab[BucketOf(s)] = FreeSlot
          BY <1>2 DEF Refused
        <5>2. Len(x) >= 3 => [str |-> x, code |-> CodeOf(i)] # FreeSlot
          BY <4>1, SymbolIsSeq DEF FreeSlot
        <5> QED
          BY <5>1, <5>2, <4>1, <4>2, <2>c, BucketType
      <4> QED
        BY <4>1, <4>3, <4>4, <4>5
    <3> QED
      BY <3>1, <3>2, <2>2
  <2>5. Owned(u)
    <3>0. /\ \A i \in DOMAIN t.symbols : i \in DOMAIN u.symbols /\ u.symbols[i] = t.symbols[i]
          /\ new \in DOMAIN u.symbols /\ u.symbols[new] = s
      BY <2>2
    <3>1. ASSUME NEW b \in Byte
          PROVE  \/ u.byteCodes[b] = ByteEntry(b)
                 \/ \E i \in DOMAIN u.symbols :
                      u.symbols[i] = <<b>> /\ u.byteCodes[b] = CodeOf(i)
      <4>1. CASE Len(s) = 1 /\ b = s[1]
        BY <4>1, <3>0, <2>a, ShortSymbols
      <4>2. CASE ~ (Len(s) = 1 /\ b = s[1])
        <5>1. u.byteCodes[b] = t.byteCodes[b]
          BY <4>2, <2>a
        <5>2. \/ t.byteCodes[b] = ByteEntry(b)
              \/ \E i \in DOMAIN t.symbols :
                   t.symbols[i] = <<b>> /\ t.byteCodes[b] = CodeOf(i)
          BY DEF Owned
        <5> QED
          BY <5>1, <5>2, <3>0
      <4> QED
        BY <4>1, <4>2
    <3>2. ASSUME NEW p \in Byte \X Byte
          PROVE  \/ u.shortCodes[p] = ShortEntry(p)
                 \/ \E i \in DOMAIN u.symbols :
                      u.symbols[i] = p /\ u.shortCodes[p] = [code |-> CodeOf(i), len |-> 2]
      <4>1. CASE Len(s) = 2 /\ p = First2(s)
        BY <4>1, <3>0, <2>b, ShortSymbols
      <4>2. CASE ~ (Len(s) = 2 /\ p = First2(s))
        <5>1. u.shortCodes[p] = t.shortCodes[p]
          BY <4>2, <2>b
        <5> QED
          BY <5>1, <3>0 DEF Owned
      <4> QED
        BY <4>1, <4>2
    <3>3. ASSUME NEW k \in Bucket
          PROVE  \/ u.hashTab[k] = FreeSlot
                 \/ \E i \in DOMAIN u.symbols :
                      /\ Len(u.symbols[i]) >= 3 /\ BucketOf(u.symbols[i]) = k
                      /\ u.hashTab[k] = [str |-> u.symbols[i], code |-> CodeOf(i)]
      <4>1. CASE Len(s) >= 3 /\ k = BucketOf(s)
        BY <4>1, <3>0, <2>c
      <4>2. CASE ~ (Len(s) >= 3 /\ k = BucketOf(s))
        <5>1. u.hashTab[k] = t.hashTab[k]
          BY <4>2, <2>c
        <5>2. \/ t.hashTab[k] = FreeSlot
              \/ \E i \in DOMAIN t.symbols :
                   /\ Len(t.symbols[i]) >= 3 /\ BucketOf(t.symbols[i]) = k
                   /\ t.hashTab[k] = [str |-> t.symbols[i], code |-> CodeOf(i)]
          BY DEF Owned
        <5> QED
          BY <5>1, <5>2, <3>0
      <4> QED
        BY <4>1, <4>2
    <3> QED
      BY <3>1, <3>2, <3>3 DEF Owned
  <2> QED
    BY <2>3, <2>4, <2>5 DEF u
<1> QED
  BY <1>1, <1>2

(* clear leaves nothing of a table that agrees with its symbols.           *)
LEMMA ClearAgrees ==
  ASSUME NEW t, Agrees(t)
  PROVE  ClearTable(t) = EmptyTable(t.terminator, t.zeroTerminated)
<1> DEFINE own == Range(t.symbols)
<1>1. \A i \in DOMAIN t.symbols : t.symbols[i] \in own
  BY DEF Range
<1>2. ASSUME NEW b \in Byte
      PROVE  (IF <<b>> \in own THEN b ELSE t.byteCodes[b]) = b
  BY <1>1 DEF Agrees, Owned, ByteEntry
<1>3. ASSUME NEW p \in Byte \X Byte
      PROVE  (IF p \in own THEN [code |-> p[1], len |-> 1] ELSE t.shortCodes[p])
               = [code |-> p[1], len |-> 1]
  BY <1>1 DEF Agrees, Owned, ShortEntry
<1>4. ASSUME NEW k \in Bucket
      PROVE  (IF \E s \in own : Len(s) >= 3 /\ BucketOf(s) = k
                THEN FreeSlot ELSE t.hashTab[k]) = FreeSlot
  <2>1. \/ t.hashTab[k] = FreeSlot
        \/ \E i \in DOMAIN t.symbols :
             Len(t.symbols[i]) >= 3 /\ BucketOf(t.symbols[i]) = k
    BY DEF Agrees, Owned
  <2> QED
    BY <1>1, <2>1
<1>5. t.suffixLim = CODE_MAX
  BY DEF Agrees, Shape
<1> QED
  BY <1>2, <1>3, <1>4, <1>5 DEF ClearTable, EmptyTable

(* A table without symbols is the empty one.                               *)
LEMMA NoSymbolsEmpty ==
  ASSUME NEW t, Agrees(t), HistoEmpty(t), NSymbols(t) = 0
  PROVE  t = EmptyTable(t.terminator, t.zeroTerminated)
<1>1. DOMAIN t.symbols = {} /\ t.symbols = <<>>
  BY DEF Agrees, Shape, NSymbols
<1>2. /\ \A b \in Byte : t.byteCodes[b] = b
      /\ \A p \in Byte \X Byte : t.shortCodes[p] = [code |-> p[1], len |-> 1]
      /\ \A k \in Bucket : t.hashTab[k] = FreeSlot
  BY <1>1 DEF Agrees, Owned, ByteEntry, ShortEntry
<1>3. t.lenHisto = [l \in 1 .. MaxLength |-> 0]
  BY DEF HistoEmpty
<1>4. /\ t.byteCodes = [b \in Byte |-> b]
      /\ t.shortCodes = [p \in Byte \X Byte |-> [code |-> p[1], len |-> 1]]
      /\ t.hashTab = [k \in Bucket |-> FreeSlot]
  BY <1>2 DEF Agrees, Shape
<1> QED
  BY <1>1, <1>3, <1>4 DEF EmptyTable, Agrees, Shape

--------------------------------------------------------------------------------
(* The lookup.                                                             *)

(* Agreement gives the longest match.                                      *)
LEMMA AgreesLongest ==
  ASSUME NEW t, Agrees(t), NEW s \in Symbol
  PROVE  LET match == SymbolOf(t, FindLongestSymbol(t, s))
         IN  /\ IsPrefix(match, s)
             /\ \A x \in Range(t.symbols) : IsPrefix(x, s) => Len(x) <= Len(match)
<1> DEFINE slot  == t.hashTab[BucketOf(s)]
           short == t.shortCodes[First2(s)]
           match == SymbolOf(t, FindLongestSymbol(t, s))
<1>1. /\ t.symbols \in Seq(Symbol) /\ CodeBase \in Nat \ {0}
      /\ \A i \in DOMAIN t.symbols : i \in Nat \ {0} /\ t.symbols[i] \in Symbol
  BY TableAssumption DEF Agrees, Shape
<1>2. \A i \in DOMAIN t.symbols :
        ~ isEscapeCode(CodeOf(i)) /\ SymbolOf(t, CodeOf(i)) = t.symbols[i]
  BY <1>1 DEF isEscapeCode, CodeOf, SymbolOf
<1>3. \A b \in Byte : isEscapeCode(b) /\ SymbolOf(t, b) = <<b>>
  BY TableAssumption DEF isEscapeCode, SymbolOf
<1>4. s[1] \in Byte /\ Len(s) \in Nat /\ Len(s) >= 1 /\ BucketOf(s) \in Bucket
  BY SymbolIsSeq, BucketType, TableAssumption
<1> DEFINE hit  == slot # FreeSlot /\ IsPrefix(slot.str, s)
           pair == Len(s) >= 2 /\ ~ isEscapeCode(short.code)
(* A symbol that is a prefix of the string is where it is looked for.      *)
<1>5. ASSUME NEW x \in Range(t.symbols), IsPrefix(x, s)
      PROVE  /\ Len(x) \in Nat /\ Len(x) <= Len(s)
             /\ Len(x) >= 3 => hit /\ slot.str = x
             /\ Len(x) = 2 => pair
  <2>1. PICK i \in DOMAIN t.symbols : x = t.symbols[i]
    BY DEF Range
  <2>2. x \in Symbol /\ x \in Seq(Byte) /\ s \in Seq(Byte) /\ Len(x) \in Nat
    BY <1>1, <2>1, SymbolIsSeq
  <2>3. Len(x) <= Len(s) /\ \A k \in 1 .. Len(x) : x[k] = s[k]
    BY <1>5, <2>2, PrefixElements
  <2>4. Len(x) >= 3 => hit /\ slot.str = x
    <3>1. Len(x) >= 3 => slot = [str |-> x, code |-> CodeOf(i)]
      BY <1>5, <2>1, <2>2, PrefixBucket DEF Agrees, Entered
    <3>2. [str |-> x, code |-> CodeOf(i)] # FreeSlot
      BY <2>2, SymbolIsSeq DEF FreeSlot
    <3> QED
      BY <1>5, <3>1, <3>2
  <2>5. Len(x) = 2 => pair
    <3>1. Len(x) = 2 => First2(x) = First2(s)
      BY <2>3 DEF First2
    <3>2. Len(x) = 2 => short = [code |-> CodeOf(i), len |-> 2]
      BY <2>1, <3>1 DEF Agrees, Entered
    <3> QED
      BY <1>2, <1>4, <2>2, <2>3, <3>2
  <2> QED
    BY <2>2, <2>3, <2>4, <2>5
<1>6. CASE hit
  <2>1. PICK j \in DOMAIN t.symbols :
          Len(t.symbols[j]) >= 3 /\ slot = [str |-> t.symbols[j], code |-> CodeOf(j)]
    BY <1>4, <1>6 DEF Agrees, Owned
  <2>2. match = slot.str /\ slot.str = t.symbols[j]
    BY <1>2, <1>6, <2>1 DEF FindLongestSymbol
  <2>3. Len(match) >= 3 /\ Len(match) \in Nat /\ IsPrefix(match, s)
    BY <1>1, <1>6, <2>1, <2>2, SymbolIsSeq
  <2>4. ASSUME NEW x \in Range(t.symbols), IsPrefix(x, s)
        PROVE  Len(x) <= Len(match)
    <3>1. Len(x) \in Nat /\ (Len(x) >= 3 => x = match)
      BY <1>5, <2>2, <2>4
    <3> HIDE DEF match
    <3> QED
      BY <2>3, <3>1
  <2> QED
    BY <2>3, <2>4
<1>7. CASE ~ hit /\ pair
  <2>1. First2(s) \in Byte \X Byte /\ First2(s)[1] = s[1]
    BY <1>7, ShortSymbols DEF First2
  <2>2. PICK j \in DOMAIN t.symbols :
          t.symbols[j] = First2(s) /\ short = [code |-> CodeOf(j), len |-> 2]
    <3>1. short # ShortEntry(First2(s))
      BY <1>3, <1>4, <1>7, <2>1 DEF ShortEntry
    <3>2. \/ short = ShortEntry(First2(s))
          \/ \E j \in DOMAIN t.symbols :
               t.symbols[j] = First2(s) /\ short = [code |-> CodeOf(j), len |-> 2]
      BY <2>1 DEF Agrees, Owned
    <3> QED
      BY <3>1, <3>2
  <2>3. match = First2(s)
    BY <1>2, <1>7, <2>2 DEF FindLongestSymbol
  <2>4. IsPrefix(First2(s), s)
    <3>1. First2(s) \in Seq(Byte) /\ s \in Seq(Byte) /\ Len(First2(s)) = 2
      BY <2>1, SymbolIsSeq DEF First2
    <3>2. Len(First2(s)) <= Len(s) /\ \A k \in 1 .. Len(First2(s)) : First2(s)[k] = s[k]
      BY <1>7, <3>1 DEF First2
    <3> QED
      BY <3>1, <3>2, PrefixElements
  <2>5. ASSUME NEW x \in Range(t.symbols), IsPrefix(x, s)
        PROVE  Len(x) <= 2
    BY <1>5, <1>7, <2>5
  <2> QED
    BY <2>3, <2>4, <2>5 DEF First2
<1>8. CASE ~ hit /\ ~ pair
  <2>1. match = SymbolOf(t, t.byteCodes[s[1]])
    BY <1>8 DEF FindLongestSymbol
  <2>2. match = <<s[1]>>
    <3>1. \/ t.byteCodes[s[1]] = s[1]
          \/ \E j \in DOMAIN t.symbols :
               t.symbols[j] = <<s[1]>> /\ t.byteCodes[s[1]] = CodeOf(j)
      BY <1>4 DEF Agrees, Owned, ByteEntry
    <3> QED
      BY <1>2, <1>3, <1>4, <2>1, <3>1
  <2>3. IsPrefix(<<s[1]>>, s)
    <3>1. <<s[1]>> \in Seq(Byte) /\ s \in Seq(Byte) /\ Len(<<s[1]>>) = 1
      BY <1>4, SymbolIsSeq
    <3>2. Len(<<s[1]>>) <= Len(s) /\ \A k \in 1 .. Len(<<s[1]>>) : <<s[1]>>[k] = s[k]
      BY <1>4, <3>1
    <3> QED
      BY <3>1, <3>2, PrefixElements
  <2>4. ASSUME NEW x \in Range(t.symbols), IsPrefix(x, s)
        PROVE  Len(x) <= 1
    <3> DEFINE n == Len(x)
    <3> HIDE DEF hit, pair
    <3>1. n \in Nat /\ ~ (n >= 3) /\ n # 2
      BY <1>5, <1>8, <2>4
    <3> HIDE DEF n
    <3>2. n <= 1
      BY <3>1
    <3> QED
      BY <3>2 DEF n
  <2> QED
    BY <2>2, <2>3, <2>4
<1> QED
  BY <1>6, <1>7, <1>8

--------------------------------------------------------------------------------
(* What finalize finds.                                                    *)

(* The parts of NewCode: the symbols that are given new codes, those of    *)
(* one length, and the two-byte symbols a longer one starts with.          *)
AllOfLen(t, len) == {i \in DOMAIN t.symbols : Len(t.symbols[i]) = len}
Moved(t)      == ZT(t) + 1 .. NSymbols(t)
OfLen(t, len) == {i \in Moved(t) : Len(t.symbols[i]) = len}
LongerThere(t)     == {i \in OfLen(t, 2) : HasLonger(t, i)}
Plain(t)      == OfLen(t, 2) \ LongerThere(t)
Rank(i, S)    == Cardinality({k \in S : k < i})

(* What finalize finds: a table in agreement with a true histogram, whose  *)
(* first symbol is the terminator and with no other across it.             *)
Counted(t) ==
  t.lenHisto = [l \in 1 .. MaxLength |-> Cardinality(AllOfLen(t, l))]

Terminated(t) ==
  /\ t.terminator \in Byte
  /\ t.zeroTerminated \in BOOLEAN
  /\ t.zeroTerminated => t.terminator = 0
  /\ t.symbols # <<>> => t.symbols[1] = <<t.terminator>>

Ready(t) == Agrees(t) /\ Counted(t) /\ Terminated(t)

--------------------------------------------------------------------------------
(* Ranks.                                                                  *)

(* The rank of a member is below the size of the set.                      *)
LEMMA RankType ==
  ASSUME NEW S \in SUBSET Nat, IsFiniteSet(S), NEW i \in S
  PROVE  Rank(i, S) \in Nat /\ Rank(i, S) < Cardinality(S) /\ Cardinality(S) \in Nat
<1> DEFINE B == {k \in S : k < i}
<1>1. B \in SUBSET S /\ B # S
  OBVIOUS
<1> HIDE DEF B
<1>2. IsFiniteSet(B) /\ Cardinality(B) <= Cardinality(S) /\ Cardinality(B) # Cardinality(S)
  BY <1>1, FS_Subset
<1>3. Cardinality(B) \in Nat /\ Cardinality(S) \in Nat
  BY <1>2, FS_CardinalityType
<1> QED
  BY <1>2, <1>3 DEF Rank, B

(* Ranks grow with the members.                                            *)
LEMMA RankOrder ==
  ASSUME NEW S \in SUBSET Nat, IsFiniteSet(S), NEW i \in S, NEW j \in S, i < j
  PROVE  Rank(i, S) < Rank(j, S)
<1> DEFINE A == {k \in S : k < i}
           B == {k \in S : k < j}
<1>1. A \in SUBSET B /\ i \in B /\ i \notin A /\ B \in SUBSET S
  <2>1. \A k \in S : k \in Nat
    OBVIOUS
  <2>2. (\A k \in A : k \in B) /\ \A k \in B : k \in S
    BY <2>1
  <2>3. i \in B /\ i \notin A
    BY <2>1
  <2> HIDE DEF A, B
  <2> QED
    BY <2>2, <2>3
<1> HIDE DEF A, B
<1>2. IsFiniteSet(B)
  BY <1>1, FS_Subset
<1>3. IsFiniteSet(A) /\ Cardinality(A) <= Cardinality(B) /\ Cardinality(A) # Cardinality(B)
  BY <1>1, <1>2, FS_Subset
<1>4. Cardinality(A) \in Nat /\ Cardinality(B) \in Nat
  BY <1>2, <1>3, FS_CardinalityType
<1> QED
  BY <1>3, <1>4 DEF Rank, A, B

(* The two halves of a finite set.                                         *)
LEMMA Halves ==
  ASSUME NEW S, IsFiniteSet(S), NEW A \in SUBSET S
  PROVE  /\ IsFiniteSet(A) /\ IsFiniteSet(S \ A)
         /\ Cardinality(A) \in Nat /\ Cardinality(S \ A) \in Nat /\ Cardinality(S) \in Nat
         /\ Cardinality(S) = Cardinality(A) + Cardinality(S \ A)
<1>1. IsFiniteSet(A) /\ IsFiniteSet(S \ A)
  BY FS_Subset
<1>2. /\ Cardinality(A) \in Nat /\ Cardinality(S \ A) \in Nat /\ Cardinality(S) \in Nat
  BY <1>1, FS_CardinalityType
<1>3. A \cup (S \ A) = S /\ A \cap (S \ A) = {}
  OBVIOUS
<1>4. Cardinality(S) = Cardinality(A) + Cardinality(S \ A) - Cardinality(A \cap (S \ A))
  BY <1>1, <1>3, FS_Union
<1>5. Cardinality({}) = 0
  BY FS_EmptySet
<1> QED
  BY <1>1, <1>2, <1>3, <1>4, <1>5

--------------------------------------------------------------------------------
(* The groups of codes.                                                    *)

(* The symbols of a table that finalize is given.                          *)
LEMMA SymbolsType ==
  ASSUME NEW t, Ready(t)
  PROVE  /\ NSymbols(t) \in Nat /\ NSymbols(t) <= MaxSymbols
         /\ DOMAIN t.symbols = 1 .. NSymbols(t)
         /\ ZT(t) \in {0, 1}
         /\ \A i \in 1 .. NSymbols(t) :
              t.symbols[i] \in Symbol /\ Len(t.symbols[i]) \in 1 .. MaxLength
         /\ Moved(t) \in SUBSET (1 .. NSymbols(t)) /\ Moved(t) \in SUBSET Nat
         /\ CodeBase \in Nat /\ CodeBase > 1 /\ MaxLength \in Nat /\ MaxLength >= 3
<1>1. t.symbols \in Seq(Symbol) /\ NSymbols(t) <= MaxSymbols
  BY DEF Ready, Agrees, Shape
<1>2. ZT(t) \in {0, 1}
  BY DEF ZT
<1>3. NSymbols(t) \in Nat /\ DOMAIN t.symbols = 1 .. NSymbols(t)
  BY <1>1 DEF NSymbols
<1>4. \A i \in 1 .. NSymbols(t) : t.symbols[i] \in Symbol
  BY <1>1, <1>3
<1>5. \A i \in 1 .. NSymbols(t) : Len(t.symbols[i]) \in 1 .. MaxLength
  BY <1>4, SymbolIsSeq
<1> QED
  BY <1>1, <1>2, <1>3, <1>4, <1>5, TableAssumption DEF Moved

(* The symbols of one length are finitely many.                            *)
LEMMA OfLenType ==
  ASSUME NEW t, Ready(t), NEW len
  PROVE  /\ OfLen(t, len) \in SUBSET Moved(t) /\ OfLen(t, len) \in SUBSET Nat
         /\ IsFiniteSet(OfLen(t, len)) /\ Cardinality(OfLen(t, len)) \in Nat
         /\ IsFiniteSet(Moved(t))
<1>1. OfLen(t, len) \in SUBSET Moved(t)
  BY DEF OfLen
<1>2. IsFiniteSet(1 .. NSymbols(t))
  <2>1. NSymbols(t) \in Int /\ 1 \in Int
    BY SymbolsType
  <2> QED
    BY <2>1, FS_Interval
<1>3. IsFiniteSet(Moved(t))
  BY <1>2, SymbolsType, FS_Subset
<1>4. IsFiniteSet(OfLen(t, len))
  BY <1>1, <1>3, FS_Subset
<1> QED
  BY <1>1, <1>3, <1>4, SymbolsType, FS_CardinalityType

(* The histogram counts the symbols that are moved, and symbol 0.          *)
LEMMA HistoType ==
  ASSUME NEW t, Ready(t), NSymbols(t) > 0
  PROVE  /\ \A len \in 2 .. MaxLength : t.lenHisto[len] = Cardinality(OfLen(t, len))
         /\ t.lenHisto[1] = Cardinality(OfLen(t, 1)) + ZT(t)
<1>1. \A len \in 1 .. MaxLength : t.lenHisto[len] = Cardinality(AllOfLen(t, len))
  BY DEF Ready, Counted
<1>2. Len(t.symbols[1]) = 1
  <2>1. t.symbols # <<>>
    BY DEF NSymbols
  <2> QED
    <3>1. t.symbols[1] = <<t.terminator>>
      BY <2>1 DEF Ready, Terminated
    <3> QED
      BY <3>1
<1>3. ASSUME NEW len \in 2 .. MaxLength PROVE t.lenHisto[len] = Cardinality(OfLen(t, len))
  <2>1. AllOfLen(t, len) = OfLen(t, len)
    <3>1. ASSUME NEW i \in AllOfLen(t, len) PROVE i \in Moved(t)
      <4>1. i \in 1 .. NSymbols(t) /\ Len(t.symbols[i]) = len
        BY SymbolsType DEF AllOfLen
      <4>2. i # 1
        <5>1. len # 1
          BY SymbolsType
        <5> QED
          BY <4>1, <1>2, <5>1
      <4> QED
        BY <4>1, <4>2, SymbolsType DEF Moved
    <3> QED
      BY <3>1, SymbolsType DEF OfLen, AllOfLen
  <2> QED
    <3>1. len \in 1 .. MaxLength
      BY SymbolsType
    <3> QED
      BY <2>1, <3>1, <1>1
<1>4. t.lenHisto[1] = Cardinality(OfLen(t, 1)) + ZT(t)
  <2>1. t.lenHisto[1] = Cardinality(AllOfLen(t, 1))
    <3>1. 1 \in 1 .. MaxLength
      BY SymbolsType
    <3> QED
      BY <3>1, <1>1
  <2>2. CASE ZT(t) = 0
    <3>1. AllOfLen(t, 1) = OfLen(t, 1)
      BY <2>2, SymbolsType DEF OfLen, Moved, AllOfLen
    <3> QED
      BY <3>1, <2>1, <2>2, OfLenType
  <2>3. CASE ZT(t) = 1
    <3>1. AllOfLen(t, 1) = OfLen(t, 1) \cup {1} /\ 1 \notin OfLen(t, 1)
      BY <2>3, <1>2, SymbolsType DEF OfLen, Moved, AllOfLen
    <3>2. Cardinality(OfLen(t, 1) \cup {1}) = Cardinality(OfLen(t, 1)) + 1
      BY <3>1, OfLenType, FS_AddElement
    <3> QED
      BY <3>1, <3>2, <2>1, <2>3
  <2> QED
    BY <2>2, <2>3, SymbolsType
<1> QED
  BY <1>3, <1>4

--------------------------------------------------------------------------------
(* GroupStart: the groups of two bytes and more follow one another, and    *)
(* the one-byte symbols follow them.                                       *)
LEMMA GroupOfTwo ==
  ASSUME NEW t, Ready(t), NSymbols(t) > 0
  PROVE  GroupStart(t, 2) = ZT(t)
<1>1. 2 .. 2 - 1 = {}
  OBVIOUS
<1>2. SumFunctionOnSet(t.lenHisto, 2 .. 2 - 1) = 0
  BY <1>1, SumOfNone
<1> QED
  BY <1>2, SymbolsType DEF GroupStart

(* Each group starts where the one before it ends.                         *)
LEMMA GroupNext ==
  ASSUME NEW t, Ready(t), NSymbols(t) > 0, NEW len \in 2 .. MaxLength
  PROVE  /\ GroupStart(t, len) \in Nat
         /\ GroupStart(t, len + 1) = GroupStart(t, len) + Cardinality(OfLen(t, len))
<1>1. len \in Nat /\ len >= 2 /\ MaxLength \in Nat /\ ZT(t) \in Nat
  BY SymbolsType
<1>2. \A l \in 2 .. len : t.lenHisto[l] \in Nat
  BY <1>1, HistoType, OfLenType
<1> DEFINE before == 2 .. len - 1
<1>3. IsFiniteSet(before) /\ len \notin before /\ before \cup {len} = 2 .. len
  <2>1. len - 1 \in Int /\ 2 \in Int
    BY <1>1
  <2>2. IsFiniteSet(2 .. len - 1)
    BY <2>1, FS_Interval
  <2>3. before \cup {len} = 2 .. len
    BY <1>1
  <2> QED
    BY <1>1, <2>2, <2>3
<1>4. \A l \in before : t.lenHisto[l] \in Nat
  BY <1>1, <1>2
<1>5. /\ SumFunctionOnSet(t.lenHisto, before) \in Nat
      /\ SumFunctionOnSet(t.lenHisto, 2 .. len) = t.lenHisto[len] + SumFunctionOnSet(t.lenHisto, before)
  <2>1. t.lenHisto[len] \in Int /\ \A l \in before : t.lenHisto[l] \in Int
    BY <1>1, <1>2, <1>4
  <2> HIDE DEF before
  <2>2. SumFunctionOnSet(t.lenHisto, before) \in Nat
    BY <1>3, <1>4, SumNat
  <2>3. SumFunctionOnSet(t.lenHisto, before \cup {len}) = t.lenHisto[len] + SumFunctionOnSet(t.lenHisto, before)
    BY <1>3, <2>1, SumWith
  <2> QED
    BY <1>3, <2>2, <2>3
<1>6. /\ GroupStart(t, len) = ZT(t) + SumFunctionOnSet(t.lenHisto, 2 .. len - 1)
      /\ GroupStart(t, len + 1) = ZT(t) + SumFunctionOnSet(t.lenHisto, 2 .. len)
  <2>1. len # 1 /\ len + 1 # 1 /\ len + 1 - 1 = len
    BY <1>1
  <2> QED
    BY <2>1 DEF GroupStart
<1>7. t.lenHisto[len] = Cardinality(OfLen(t, len)) /\ Cardinality(OfLen(t, len)) \in Nat
  BY HistoType, OfLenType
<1> QED
  BY <1>1, <1>5, <1>6, <1>7

(* All that starts before a group.                                         *)
Between(t, len) == {i \in Moved(t) : Len(t.symbols[i]) \in 2 .. len - 1}

(* A group starts behind all shorter symbols of two bytes and more.        *)
LEMMA GroupCounts ==
  ASSUME NEW t, Ready(t), NSymbols(t) > 0
  PROVE  \A len \in 2 .. MaxLength + 1 : GroupStart(t, len) = ZT(t) + Cardinality(Between(t, len))
<1> DEFINE T == {n \in Nat : n + 2 <= MaxLength + 1 =>
                   GroupStart(t, n + 2) = ZT(t) + Cardinality(Between(t, n + 2))}
<1>1. 0 \in T
  <2>1. Between(t, 2) = {}
    BY DEF Between
  <2>2. Cardinality(Between(t, 2)) = 0
    BY <2>1, FS_EmptySet
  <2>3. GroupStart(t, 0 + 2) = ZT(t) + Cardinality(Between(t, 0 + 2))
    BY <2>2, GroupOfTwo, SymbolsType
  <2> QED
    BY <2>3
<1>2. ASSUME NEW n \in Nat, n \in T PROVE n + 1 \in T
  <2>1. SUFFICES ASSUME n + 3 <= MaxLength + 1
                 PROVE  GroupStart(t, n + 3) = ZT(t) + Cardinality(Between(t, n + 3))
    <3>1. n + 1 + 2 = n + 3
      OBVIOUS
    <3> QED
      BY <3>1
  <2>2. n + 2 \in 2 .. MaxLength /\ n + 2 + 1 = n + 3 /\ n + 2 <= MaxLength + 1
    BY <2>1, SymbolsType
  <2>3. GroupStart(t, n + 2) = ZT(t) + Cardinality(Between(t, n + 2))
    BY <2>2, <1>2
  <2>4. GroupStart(t, n + 3) = GroupStart(t, n + 2) + Cardinality(OfLen(t, n + 2))
    BY <2>2, GroupNext
  <2>5. /\ Between(t, n + 3) \in SUBSET Moved(t)
        /\ Between(t, n + 2) \in SUBSET Between(t, n + 3)
        /\ Between(t, n + 3) \ Between(t, n + 2) = OfLen(t, n + 2)
    <3>1. \A i \in Moved(t) : Len(t.symbols[i]) \in Nat
      BY SymbolsType
    <3> QED
      BY <3>1 DEF Between, OfLen
  <2>6. IsFiniteSet(Between(t, n + 3))
    BY <2>5, OfLenType, FS_Subset
  <2>7. /\ Cardinality(Between(t, n + 2)) \in Nat /\ Cardinality(OfLen(t, n + 2)) \in Nat
        /\ Cardinality(Between(t, n + 3)) = Cardinality(Between(t, n + 2)) + Cardinality(OfLen(t, n + 2))
    BY <2>5, <2>6, Halves
  <2> QED
    BY <2>3, <2>4, <2>7, SymbolsType
<1>3. \A n \in Nat : n \in T
  <2> HIDE DEF T
  <2> QED
    BY <1>1, <1>2, SetInduction
<1>4. ASSUME NEW len \in 2 .. MaxLength + 1
      PROVE  GroupStart(t, len) = ZT(t) + Cardinality(Between(t, len))
  <2>1. len - 2 \in Nat /\ len - 2 + 2 = len /\ len <= MaxLength + 1
    BY SymbolsType
  <2> QED
    BY <2>1, <1>3
<1> QED
  BY <1>4

(* The one-byte symbols follow the longest ones.                           *)
LEMMA ByteGroup ==
  ASSUME NEW t, Ready(t), NSymbols(t) > 0
  PROVE  /\ GroupStart(t, 1) = ByteLim(t)
         /\ ByteLim(t) = GroupStart(t, MaxLength + 1)
         /\ ByteLim(t) \in Nat
         /\ ByteLim(t) + Cardinality(OfLen(t, 1)) = NSymbols(t)
<1>1. GroupStart(t, 1) = ByteLim(t)
  BY DEF GroupStart
<1>2. ByteLim(t) = NSymbols(t) - Cardinality(OfLen(t, 1))
  <2>1. /\ t.lenHisto[1] = Cardinality(OfLen(t, 1)) + ZT(t)
        /\ Cardinality(OfLen(t, 1)) \in Nat /\ ZT(t) \in Nat /\ NSymbols(t) \in Nat
    BY HistoType, OfLenType, SymbolsType
  <2> QED
    BY <2>1 DEF ByteLim
<1>3. Moved(t) \ OfLen(t, 1) = Between(t, MaxLength + 1)
  <2>1. \A i \in Moved(t) : Len(t.symbols[i]) \in 1 .. MaxLength /\ MaxLength \in Nat
    BY SymbolsType
  <2>2. ASSUME NEW i \in Moved(t)
        PROVE  Len(t.symbols[i]) # 1 <=> Len(t.symbols[i]) \in 2 .. (MaxLength + 1) - 1
    <3> DEFINE n == Len(t.symbols[i])
    <3>1. n \in 1 .. MaxLength /\ MaxLength \in Nat
      BY <2>1
    <3> HIDE DEF n
    <3>2. n # 1 <=> n \in 2 .. (MaxLength + 1) - 1
      BY <3>1
    <3> QED
      BY <3>2 DEF n
  <2>3. \A i : i \in OfLen(t, 1) <=> i \in Moved(t) /\ Len(t.symbols[i]) = 1
    BY DEF OfLen
  <2>4. \A i : i \in Between(t, MaxLength + 1) <=>
                i \in Moved(t) /\ Len(t.symbols[i]) \in 2 .. (MaxLength + 1) - 1
    BY DEF Between
  <2> QED
    BY <2>2, <2>3, <2>4
<1>4. Cardinality(Moved(t)) = NSymbols(t) - ZT(t)
  <2>1. NSymbols(t) \in Nat /\ ZT(t) \in {0, 1} /\ ZT(t) + 1 \in Int
    BY SymbolsType
  <2> DEFINE a == ZT(t) + 1
             b == NSymbols(t)
  <2>2. a \in Int /\ b \in Int /\ a <= b + 1
    BY <2>1
  <2> HIDE DEF a, b
  <2>3. Cardinality(a .. b) = IF a > b THEN 0 ELSE b - a + 1
    BY <2>2, FS_Interval
  <2>4. Cardinality(a .. b) = b - a + 1
    BY <2>2, <2>3
  <2> QED
    BY <2>1, <2>4 DEF Moved, a, b
<1>5. /\ Cardinality(Moved(t)) = Cardinality(OfLen(t, 1)) + Cardinality(Between(t, MaxLength + 1))
      /\ Cardinality(Between(t, MaxLength + 1)) \in Nat
  BY <1>3, OfLenType, Halves
<1>6. GroupStart(t, MaxLength + 1) = ZT(t) + Cardinality(Between(t, MaxLength + 1))
  <2>1. MaxLength + 1 \in 2 .. MaxLength + 1
    BY SymbolsType
  <2> QED
    BY <2>1, GroupCounts
<1>7. ZT(t) \in {0, 1} /\ Cardinality(OfLen(t, 1)) \in Nat /\ NSymbols(t) \in Nat
  BY SymbolsType, OfLenType
<1> QED
  BY <1>1, <1>2, <1>4, <1>5, <1>6, <1>7

(* No group starts before an earlier one ends.                             *)
LEMMA GroupOrder ==
  ASSUME NEW t, Ready(t), NSymbols(t) > 0,
         NEW l \in 2 .. MaxLength, NEW m \in 2 .. MaxLength + 1, l < m
  PROVE  /\ GroupStart(t, l) \in Nat /\ GroupStart(t, m) \in Nat
         /\ GroupStart(t, l) + Cardinality(OfLen(t, l)) <= GroupStart(t, m)
<1>1. l \in Nat /\ m \in Nat /\ MaxLength \in Nat /\ l + 1 \in 2 .. MaxLength + 1
  BY SymbolsType
<1>2. /\ GroupStart(t, l + 1) = ZT(t) + Cardinality(Between(t, l + 1))
      /\ GroupStart(t, m) = ZT(t) + Cardinality(Between(t, m))
  BY <1>1, GroupCounts
<1>3. /\ GroupStart(t, l) \in Nat
      /\ GroupStart(t, l + 1) = GroupStart(t, l) + Cardinality(OfLen(t, l))
  BY GroupNext
<1>4. Between(t, m) \in SUBSET Moved(t)
  BY DEF Between
<1>5. IsFiniteSet(Between(t, m)) /\ Cardinality(Between(t, m)) \in Nat
  BY <1>4, OfLenType, FS_Subset, FS_CardinalityType
<1>6. Between(t, l + 1) \in SUBSET Between(t, m)
  <2>1. \A n \in Nat : n \in 2 .. (l + 1) - 1 => n \in 2 .. m - 1
    BY <1>1
  <2>2. \A i \in Moved(t) : Len(t.symbols[i]) \in Nat
    BY SymbolsType
  <2> QED
    BY <2>1, <2>2 DEF Between
<1>7. Cardinality(Between(t, l + 1)) <= Cardinality(Between(t, m))
      /\ Cardinality(Between(t, l + 1)) \in Nat
  BY <1>5, <1>6, FS_Subset, FS_CardinalityType
<1> QED
  BY <1>2, <1>3, <1>5, <1>7, SymbolsType

--------------------------------------------------------------------------------
(* The new codes.                                                          *)
SuffixLim(t) == ZT(t) + Cardinality(Plain(t))

(* Where the codes of a length lie.                                        *)
InGroup(t, len, c) ==
  /\ c \in Nat
  /\ GroupStart(t, len) <= c
  /\ c < GroupStart(t, len) + Cardinality(OfLen(t, len))

(* The new code of a symbol, by its length.                                *)
LEMMA NewCodeOf ==
  ASSUME NEW t, NEW i \in DOMAIN t.symbols
  PROVE  /\ i \notin Moved(t) => NewCode(t)[i] = 0
         /\ i \in LongerThere(t) => NewCode(t)[i] = GroupStart(t, 3) - 1 - Rank(i, LongerThere(t))
         /\ i \in Moved(t) \ LongerThere(t) =>
              NewCode(t)[i] = GroupStart(t, Len(t.symbols[i]))
                                + Rank(i, OfLen(t, Len(t.symbols[i])) \ LongerThere(t))
<1>1. LongerThere(t) \in SUBSET Moved(t)
  BY DEF LongerThere, OfLen
<1>2. NewCode(t)[i] =
        IF i \notin Moved(t) THEN 0
        ELSE IF i \in LongerThere(t) THEN FromBack(t, Rank(i, LongerThere(t)))
        ELSE GroupStart(t, Len(t.symbols[i]))
               + Rank(i, OfLen(t, Len(t.symbols[i])) \ LongerThere(t))
  BY DEF NewCode, Moved, OfLen, LongerThere, Rank
<1> QED
  BY <1>1, <1>2 DEF FromBack

(* The two-byte symbols are those with and those without a longer one.     *)
LEMMA LongerType ==
  ASSUME NEW t, Ready(t)
  PROVE  /\ LongerThere(t) \in SUBSET OfLen(t, 2) /\ LongerThere(t) \in SUBSET Nat
         /\ IsFiniteSet(LongerThere(t)) /\ IsFiniteSet(Plain(t))
         /\ Cardinality(LongerThere(t)) \in Nat /\ Cardinality(Plain(t)) \in Nat
         /\ Cardinality(OfLen(t, 2)) = Cardinality(LongerThere(t))
                                        + Cardinality(Plain(t))
<1>1. LongerThere(t) \in SUBSET OfLen(t, 2)
  BY DEF LongerThere
<1> QED
  BY <1>1, OfLenType, Halves DEF Plain

(* A code lies in the group of its length, and in its part of that group.  *)
LEMMA CodeRange ==
  ASSUME NEW t, Ready(t), NSymbols(t) > 0, NEW i \in Moved(t)
  PROVE  /\ InGroup(t, Len(t.symbols[i]), NewCode(t)[i])
         /\ i \in LongerThere(t) => NewCode(t)[i] >= SuffixLim(t)
         /\ i \in OfLen(t, 2) /\ i \notin LongerThere(t) => NewCode(t)[i] < SuffixLim(t)
<1> DEFINE len  == Len(t.symbols[i])
           code == NewCode(t)[i]
<1>1. i \in DOMAIN t.symbols /\ len \in 1 .. MaxLength /\ i \in OfLen(t, len)
  BY SymbolsType DEF OfLen
<1>2. GroupStart(t, len) \in Nat
  <2>1. CASE len = 1
    BY <2>1, ByteGroup
  <2>2. CASE len # 1
    <3>1. len \in 1 .. MaxLength /\ len # 1
      BY <1>1, <2>2
    <3> HIDE DEF len
    <3>2. len \in 2 .. MaxLength
      BY <3>1, SymbolsType
    <3> QED
      BY <3>2, GroupNext
  <2> QED
    BY <2>1, <2>2
<1>3. 2 \in 2 .. MaxLength
  BY SymbolsType
<1>4. GroupStart(t, 3) = ZT(t) + Cardinality(OfLen(t, 2)) /\ GroupStart(t, 2) = ZT(t)
  BY <1>3, GroupOfTwo, GroupNext
<1>5. CASE i \in LongerThere(t)
  <2>1. /\ Rank(i, LongerThere(t)) \in Nat /\ Rank(i, LongerThere(t)) < Cardinality(LongerThere(t))
    BY <1>5, LongerType, RankType
  <2>2. code = GroupStart(t, 3) - 1 - Rank(i, LongerThere(t))
    BY <1>1, <1>5, NewCodeOf
  <2>3. len = 2
    BY <1>5 DEF LongerThere, OfLen
  <2>4. GroupStart(t, len) = ZT(t) /\ OfLen(t, len) = OfLen(t, 2)
    BY <2>3, <1>4
  <2> HIDE DEF len, code
  <2>5. /\ code \in Nat /\ GroupStart(t, len) <= code
        /\ code < GroupStart(t, len) + Cardinality(OfLen(t, len))
        /\ code >= SuffixLim(t)
    <3>1. ZT(t) \in Nat
      BY SymbolsType
    <3>2. code = ZT(t) + Cardinality(OfLen(t, 2)) - 1 - Rank(i, LongerThere(t))
      BY <2>1, <2>2, <1>4, <3>1, OfLenType
    <3> QED
      BY <2>1, <2>4, <3>1, <3>2, LongerType DEF SuffixLim
  <2> QED
    BY <2>5, <1>5 DEF InGroup, len, code
<1>6. CASE i \notin LongerThere(t)
  <2> DEFINE G == OfLen(t, len) \ LongerThere(t)
  <2>1. i \in G /\ G \in SUBSET Nat /\ G \in SUBSET OfLen(t, len) /\ IsFiniteSet(G)
    BY <1>1, <1>6, OfLenType, FS_Subset
  <2>2. code = GroupStart(t, len) + Rank(i, G)
    BY <1>1, <1>6, NewCodeOf
  <2> HIDE DEF G
  <2>3. Rank(i, G) \in Nat /\ Rank(i, G) < Cardinality(G) /\ Cardinality(G) \in Nat
    BY <2>1, RankType
  <2>4. Cardinality(G) <= Cardinality(OfLen(t, len)) /\ Cardinality(OfLen(t, len)) \in Nat
    BY <2>1, OfLenType, FS_Subset
  <2>5. i \in OfLen(t, 2) => code < SuffixLim(t)
    <3>1. SUFFICES ASSUME i \in OfLen(t, 2) PROVE code < SuffixLim(t)
      OBVIOUS
    <3>2. len = 2
      BY <3>1 DEF OfLen
    <3>3. code = ZT(t) + Rank(i, G) /\ G = Plain(t)
      BY <2>2, <3>2, <1>4 DEF G, Plain
    <3> HIDE DEF code
    <3> QED
      BY <3>3, <2>3, SymbolsType DEF SuffixLim
  <2> HIDE DEF len, code
  <2>6. InGroup(t, len, code)
    BY <1>2, <2>2, <2>3, <2>4 DEF InGroup
  <2> QED
    BY <2>5, <2>6, <1>6 DEF len, code
<1> QED
  BY <1>5, <1>6

(* The order of the groups: by length, one byte last.                      *)
Earlier(l, m) == l # 1 /\ (m = 1 \/ l < m)

(* Codes of different groups are in the order of the groups.               *)
LEMMA GroupsApart ==
  ASSUME NEW t, Ready(t), NSymbols(t) > 0,
         NEW l \in 1 .. MaxLength, NEW m \in 1 .. MaxLength, Earlier(l, m),
         NEW c, NEW d, InGroup(t, l, c), InGroup(t, m, d)
  PROVE  c < d
<1> DEFINE place == IF m = 1 THEN MaxLength + 1 ELSE m
<1>1. l \in Nat /\ m \in Nat /\ MaxLength \in Nat /\ l # 1 /\ (m = 1 \/ l < m)
  BY SymbolsType DEF Earlier
<1>2. l \in 2 .. MaxLength /\ place \in 2 .. MaxLength + 1 /\ l < place
  BY <1>1
<1>3. GroupStart(t, m) = GroupStart(t, place)
  BY <1>1, ByteGroup
<1> HIDE DEF place
<1>4. /\ GroupStart(t, l) \in Nat /\ GroupStart(t, place) \in Nat
      /\ GroupStart(t, l) + Cardinality(OfLen(t, l)) <= GroupStart(t, place)
  BY <1>2, GroupOrder
<1>5. /\ c \in Nat /\ d \in Nat
      /\ c < GroupStart(t, l) + Cardinality(OfLen(t, l)) /\ GroupStart(t, place) <= d
  BY <1>3 DEF InGroup
<1>6. Cardinality(OfLen(t, l)) \in Nat
  BY OfLenType
<1> QED
  BY <1>4, <1>5, <1>6

(* The codes are in the order of the lengths.                              *)
LEMMA CodeOrder ==
  ASSUME NEW t, Ready(t), NSymbols(t) > 0, NEW i \in Moved(t), NEW j \in Moved(t),
         Earlier(Len(t.symbols[i]), Len(t.symbols[j]))
  PROVE  NewCode(t)[i] < NewCode(t)[j]
<1>1. /\ Len(t.symbols[i]) \in 1 .. MaxLength /\ Len(t.symbols[j]) \in 1 .. MaxLength
  BY SymbolsType
<1>2. /\ InGroup(t, Len(t.symbols[i]), NewCode(t)[i])
      /\ InGroup(t, Len(t.symbols[j]), NewCode(t)[j])
  BY CodeRange
<1> QED
  BY <1>1, <1>2, GroupsApart

(* Codes start at zero; only a symbol 0 that stays in its place has it     *)
(* when strings are zero-terminated.                                       *)
LEMMA CodeBound ==
  ASSUME NEW t, Ready(t), NSymbols(t) > 0, NEW i \in DOMAIN t.symbols
  PROVE  /\ NewCode(t)[i] \in 0 .. NSymbols(t) - 1
         /\ i \in Moved(t) <=> NewCode(t)[i] >= ZT(t)
         /\ i \notin Moved(t) => i = 1 /\ ZT(t) = 1
<1>1. i \in 1 .. NSymbols(t) /\ NSymbols(t) \in Nat /\ ZT(t) \in {0, 1}
  BY SymbolsType
<1>2. CASE i \notin Moved(t)
  <2>1. i = 1 /\ ZT(t) = 1
    BY <1>1, <1>2 DEF Moved
  <2>2. NewCode(t)[i] = 0
    BY <1>2, NewCodeOf
  <2> QED
    BY <2>1, <2>2, <1>1, <1>2
<1>3. CASE i \in Moved(t)
  <2> DEFINE len  == Len(t.symbols[i])
             code == NewCode(t)[i]
  <2>1. len \in 1 .. MaxLength /\ InGroup(t, len, code)
    BY <1>1, <1>3, SymbolsType, CodeRange
  <2>2. ByteLim(t) \in Nat /\ GroupStart(t, 1) = ByteLim(t)
        /\ ByteLim(t) = ZT(t) + Cardinality(Between(t, MaxLength + 1))
        /\ ByteLim(t) + Cardinality(OfLen(t, 1)) = NSymbols(t)
    <3>1. MaxLength + 1 \in 2 .. MaxLength + 1
      BY SymbolsType
    <3> QED
      BY <3>1, ByteGroup, GroupCounts
  <2>3. \A l : Between(t, l) \in SUBSET Moved(t)
    BY DEF Between
  <2>4. \A l : Cardinality(Between(t, l)) \in Nat
    BY <2>3, OfLenType, FS_Subset, FS_CardinalityType
  <2>5. Cardinality(OfLen(t, 1)) \in Nat
    BY OfLenType
  <2> HIDE DEF len, code
  <2>6. CASE len = 1
    BY <2>1, <2>2, <2>4, <2>5, <2>6, <1>1, <1>3 DEF InGroup, code
  <2>7. CASE len # 1
    <3>1. len \in 2 .. MaxLength /\ MaxLength + 1 \in 2 .. MaxLength + 1
          /\ len < MaxLength + 1 /\ len \in 2 .. MaxLength + 1
      BY <2>1, <2>7, SymbolsType
    <3>2. GroupStart(t, len) + Cardinality(OfLen(t, len)) <= ByteLim(t)
      BY <3>1, GroupOrder, ByteGroup
    <3>3. GroupStart(t, len) = ZT(t) + Cardinality(Between(t, len))
      BY <3>1, GroupCounts
    <3>4. Cardinality(OfLen(t, len)) \in Nat
      BY OfLenType
    <3> QED
      BY <2>1, <2>2, <2>4, <2>5, <3>2, <3>3, <3>4, <1>1, <1>3 DEF InGroup, code
  <2> QED
    BY <2>6, <2>7
<1> QED
  BY <1>2, <1>3

(* No code is given out twice.                                             *)
LEMMA CodesDistinct ==
  ASSUME NEW t, Ready(t), NSymbols(t) > 0,
         NEW i \in DOMAIN t.symbols, NEW j \in DOMAIN t.symbols, i # j
  PROVE  NewCode(t)[i] # NewCode(t)[j]
<1>0. \A k \in DOMAIN t.symbols : NewCode(t)[k] \in Int /\ k \in Nat
  BY CodeBound, SymbolsType
<1>1. CASE i \notin Moved(t) \/ j \notin Moved(t)
  <2>1. i \in Moved(t) \/ j \in Moved(t)
    BY CodeBound
  <2> QED
    BY <2>1, <1>1, CodeBound
<1>2. CASE i \in Moved(t) /\ j \in Moved(t) /\ Len(t.symbols[i]) # Len(t.symbols[j])
  <2>1. Len(t.symbols[i]) \in Nat /\ Len(t.symbols[j]) \in Nat
    BY SymbolsType
  <2>2. \/ Earlier(Len(t.symbols[i]), Len(t.symbols[j]))
        \/ Earlier(Len(t.symbols[j]), Len(t.symbols[i]))
    BY <1>2, <2>1 DEF Earlier
  <2>3. NewCode(t)[i] < NewCode(t)[j] \/ NewCode(t)[j] < NewCode(t)[i]
    BY <1>2, <2>2, CodeOrder
  <2> QED
    BY <2>3, <1>0
<1>3. CASE i \in Moved(t) /\ j \in Moved(t) /\ Len(t.symbols[i]) = Len(t.symbols[j])
  <2> DEFINE len == Len(t.symbols[i])
  <2>1. i \in OfLen(t, len) /\ j \in OfLen(t, len) /\ len \in 1 .. MaxLength
    BY <1>3, SymbolsType DEF OfLen
  <2>2. CASE i \in LongerThere(t) /\ j \in LongerThere(t)
    <3>1. Rank(i, LongerThere(t)) \in Nat /\ Rank(j, LongerThere(t)) \in Nat
      BY <2>2, LongerType, RankType
    <3>2. Rank(i, LongerThere(t)) # Rank(j, LongerThere(t))
      <4> DEFINE G == LongerThere(t)
      <4>1. G \in SUBSET Nat /\ IsFiniteSet(G) /\ i \in G /\ j \in G
        BY <2>2, LongerType
      <4> HIDE DEF G
      <4>2. Rank(i, G) < Rank(j, G) \/ Rank(j, G) < Rank(i, G)
        BY <4>1, <1>0, RankOrder
      <4> QED
        BY <4>2, <3>1 DEF G
    <3>3. /\ NewCode(t)[i] = GroupStart(t, 3) - 1 - Rank(i, LongerThere(t))
          /\ NewCode(t)[j] = GroupStart(t, 3) - 1 - Rank(j, LongerThere(t))
      BY <2>2, NewCodeOf
    <3>4. GroupStart(t, 3) \in Int
      <4>1. 2 \in 2 .. MaxLength
        BY SymbolsType
      <4> QED
        BY <4>1, GroupNext, OfLenType
    <3> QED
      BY <3>1, <3>2, <3>3, <3>4
  <2>3. CASE i \notin LongerThere(t) /\ j \notin LongerThere(t)
    <3> DEFINE G == OfLen(t, len) \ LongerThere(t)
    <3>1. i \in G /\ j \in G /\ G \in SUBSET Nat /\ IsFiniteSet(G)
      BY <2>1, <2>3, OfLenType, FS_Subset
    <3>2. /\ NewCode(t)[i] = GroupStart(t, len) + Rank(i, G)
          /\ NewCode(t)[j] = GroupStart(t, len) + Rank(j, G)
      BY <1>3, <2>3, NewCodeOf
    <3> HIDE DEF G
    <3>3. Rank(i, G) \in Nat /\ Rank(j, G) \in Nat
      BY <3>1, RankType
    <3>4. Rank(i, G) # Rank(j, G)
      BY <3>1, <3>3, <1>0, RankOrder
    <3>5. GroupStart(t, len) \in Int
      <4>1. CASE len = 1
        BY <4>1, ByteGroup
      <4>2. CASE len # 1
        <5>1. len \in 2 .. MaxLength
          <6> HIDE DEF len
          <6> QED
            BY <2>1, <4>2, SymbolsType
        <5> QED
          BY <5>1, GroupNext
      <4> QED
        BY <4>1, <4>2
    <3> HIDE DEF len
    <3> QED
      BY <3>2, <3>3, <3>4, <3>5
  <2>4. CASE (i \in LongerThere(t)) # (j \in LongerThere(t))
    <3>1. len = 2
      BY <2>4, <1>3 DEF LongerThere, OfLen
    <3>2. \/ NewCode(t)[i] < SuffixLim(t) /\ NewCode(t)[j] >= SuffixLim(t)
          \/ NewCode(t)[j] < SuffixLim(t) /\ NewCode(t)[i] >= SuffixLim(t)
      BY <3>1, <2>1, <2>4, <1>3, CodeRange
    <3>3. SuffixLim(t) \in Int
      <4>1. Cardinality(Plain(t)) \in Nat /\ ZT(t) \in Nat
        BY LongerType, SymbolsType
      <4> QED
        BY <4>1 DEF SuffixLim
    <3> QED
      BY <3>2, <3>3, <1>0
  <2> QED
    BY <2>2, <2>3, <2>4
<1> QED
  BY <1>1, <1>2, <1>3

(* Every code below the number of symbols is given to one symbol.          *)
LEMMA CodesOnto ==
  ASSUME NEW t, Ready(t), NSymbols(t) > 0, NEW c \in 0 .. NSymbols(t) - 1
  PROVE  \E i \in DOMAIN t.symbols : NewCode(t)[i] = c
<1> DEFINE D == 1 .. NSymbols(t)
           R == 0 .. NSymbols(t) - 1
<1>1. NSymbols(t) \in Nat /\ DOMAIN t.symbols = D
  BY SymbolsType
<1>2. /\ IsFiniteSet(D) /\ Cardinality(D) = NSymbols(t)
      /\ IsFiniteSet(R) /\ Cardinality(R) = NSymbols(t)
  <2>1. NSymbols(t) \in Int /\ NSymbols(t) - 1 \in Int /\ 0 \in Int /\ 1 \in Int
    BY <1>1
  <2>2. Cardinality(D) = IF 1 > NSymbols(t) THEN 0 ELSE NSymbols(t) - 1 + 1
    BY <2>1, FS_Interval
  <2>3. Cardinality(R) = IF 0 > NSymbols(t) - 1 THEN 0 ELSE NSymbols(t) - 1 - 0 + 1
    BY <2>1, FS_Interval
  <2> QED
    BY <2>1, <2>2, <2>3, <1>1, FS_Interval
<1>3. NewCode(t) \in [D -> R]
  <2>1. DOMAIN NewCode(t) = D /\ NewCode(t) = [i \in D |-> NewCode(t)[i]]
    BY <1>1 DEF NewCode
  <2>2. \A i \in D : NewCode(t)[i] \in R
    BY <1>1, CodeBound
  <2> HIDE DEF D, R
  <2> QED
    BY <2>1, <2>2
<1>4. \A i, j \in D : NewCode(t)[i] = NewCode(t)[j] => i = j
  BY <1>1, CodesDistinct
<1> HIDE DEF D, R
<1>5. NewCode(t) \in Injection(D, R)
  BY <1>3, <1>4 DEF Injection, IsInjective
<1>6. NewCode(t) \in Surjection(D, R)
  BY <1>2, <1>5, FS_Injection
<1>7. c \in R
  BY DEF R
<1> QED
  BY <1>1, <1>6, <1>7 DEF Surjection

--------------------------------------------------------------------------------
(* The finished table.                                                     *)

(* No symbol is in the table twice.                                        *)
LEMMA SymbolsDistinct ==
  ASSUME NEW t, Agrees(t),
         NEW i \in DOMAIN t.symbols, NEW j \in DOMAIN t.symbols, t.symbols[i] = t.symbols[j]
  PROVE  i = j
<1> DEFINE s == t.symbols[i]
<1>1. /\ t.symbols \in Seq(Symbol) /\ i \in Nat /\ j \in Nat /\ s \in Symbol
      /\ CodeBase \in Nat
  BY TableAssumption DEF Agrees, Shape
<1>2. Len(s) \in Nat /\ Len(s) >= 1
  BY <1>1, SymbolIsSeq, TableAssumption
<1>3. Len(s) = 1 \/ Len(s) = 2 \/ Len(s) >= 3
  <2> DEFINE n == Len(s)
  <2>1. n \in Nat /\ n >= 1
    BY <1>2
  <2> HIDE DEF n
  <2>2. n = 1 \/ n = 2 \/ n >= 3
    BY <2>1
  <2> QED
    BY <2>2 DEF n
<1>4. /\ Len(s) = 1 => t.byteCodes[s[1]] = CodeOf(i)
      /\ Len(s) = 2 => t.shortCodes[First2(s)] = [code |-> CodeOf(i), len |-> 2]
      /\ Len(s) >= 3 => t.hashTab[BucketOf(s)] = [str |-> s, code |-> CodeOf(i)]
  BY DEF Agrees, Entered
<1>5. /\ Len(s) = 1 => t.byteCodes[s[1]] = CodeOf(j)
      /\ Len(s) = 2 => t.shortCodes[First2(s)] = [code |-> CodeOf(j), len |-> 2]
      /\ Len(s) >= 3 => t.hashTab[BucketOf(s)] = [str |-> s, code |-> CodeOf(j)]
  BY DEF Agrees, Entered
<1> HIDE DEF s
<1>6. CodeOf(i) = CodeOf(j)
  <2>1. \A a, b : [code |-> a, len |-> 2] = [code |-> b, len |-> 2] => a = b
    <3>1. \A a : [code |-> a, len |-> 2].code = a
      OBVIOUS
    <3> QED
      BY <3>1
  <2>2. \A a, b : [str |-> s, code |-> a] = [str |-> s, code |-> b] => a = b
    <3>1. \A a : [str |-> s, code |-> a].code = a
      OBVIOUS
    <3> QED
      BY <3>1
  <2> QED
    BY <1>3, <1>4, <1>5, <2>1, <2>2
<1> QED
  BY <1>1, <1>6 DEF CodeOf

(* A table of which finalize has rewritten these fields.                   *)
Rewritten(u, t, a, b, c, d, e) ==
  u = [t EXCEPT !.symbols = a, !.byteCodes = b, !.shortCodes = c, !.hashTab = d,
                !.suffixLim = e]

(* What such a record holds.                                               *)
LEMMA ExceptFields ==
  ASSUME NEW t, Shape(t), NEW a, NEW b, NEW c, NEW d, NEW e, NEW u,
         Rewritten(u, t, a, b, c, d, e)
  PROVE  /\ u.symbols = a /\ u.byteCodes = b /\ u.shortCodes = c /\ u.hashTab = d
         /\ u.suffixLim = e /\ u.lenHisto = t.lenHisto
         /\ u.terminator = t.terminator /\ u.zeroTerminated = t.zeroTerminated
<1> DEFINE fields == {"byteCodes", "shortCodes", "hashTab", "symbols", "lenHisto",
                      "suffixLim", "terminator", "zeroTerminated"}
           r == [ byteCodes |-> t.byteCodes, shortCodes |-> t.shortCodes,
                  hashTab |-> t.hashTab, symbols |-> t.symbols, lenHisto |-> t.lenHisto,
                  suffixLim |-> CODE_MAX, terminator |-> t.terminator,
                  zeroTerminated |-> t.zeroTerminated ]
<1>1. DOMAIN r = fields
  OBVIOUS
<1>2. t = r
  BY DEF Shape
<1>3. DOMAIN t = fields
  BY <1>1, <1>2
<1>4. t = [x \in DOMAIN t |-> t[x]]
  BY <1>3 DEF Shape
<1> QED
  BY <1>3, <1>4, Zenon DEF Rewritten

(* What finalize writes.                                                   *)
FinalByteCodes(t) ==
  [b \in Byte |-> IF isEscapeCode(t.byteCodes[b]) THEN CODE_MASK
                  ELSE NewCode(t)[t.byteCodes[b] - CodeBase + 1]]

(* The fields of the finished table.                                       *)
LEMMA FinalFields ==
  ASSUME NEW t, Shape(t)
  PROVE  LET u   == FinalizeTable(t)
             new == NewCode(t)
         IN  /\ u.symbols = MoveSymbols(t, new)
             /\ u.byteCodes = FinalByteCodes(t)
             /\ u.shortCodes = [p \in Byte \X Byte |->
                                  IF isEscapeCode(t.shortCodes[p].code)
                                    THEN [code |-> FinalByteCodes(t)[p[1]], len |-> 1]
                                    ELSE [code |-> new[t.shortCodes[p].code - CodeBase + 1],
                                          len  |-> t.shortCodes[p].len]]
             /\ u.hashTab = [k \in Bucket |->
                               IF t.hashTab[k] = FreeSlot THEN FreeSlot
                               ELSE [str  |-> MoveSymbols(t, new)
                                                [new[t.hashTab[k].code - CodeBase + 1] + 1],
                                     code |-> new[t.hashTab[k].code - CodeBase + 1]]]
             /\ u.suffixLim = ZT(t) + Cardinality({i \in ZT(t) + 1 .. NSymbols(t) :
                                  Len(t.symbols[i]) = 2 /\ ~ HasLonger(t, i)})
             /\ u.lenHisto = t.lenHisto
             /\ u.terminator = t.terminator /\ u.zeroTerminated = t.zeroTerminated
<1> DEFINE new == NewCode(t)
           a == MoveSymbols(t, new)
           b == FinalByteCodes(t)
           c == [p \in Byte \X Byte |->
                   IF isEscapeCode(t.shortCodes[p].code)
                     THEN [code |-> FinalByteCodes(t)[p[1]], len |-> 1]
                     ELSE [code |-> new[t.shortCodes[p].code - CodeBase + 1],
                           len  |-> t.shortCodes[p].len]]
           d == [k \in Bucket |->
                   IF t.hashTab[k] = FreeSlot THEN FreeSlot
                   ELSE [str  |-> MoveSymbols(t, new)[new[t.hashTab[k].code - CodeBase + 1] + 1],
                         code |-> new[t.hashTab[k].code - CodeBase + 1]]]
           e == ZT(t) + Cardinality({i \in ZT(t) + 1 .. NSymbols(t) :
                                       Len(t.symbols[i]) = 2 /\ ~ HasLonger(t, i)})
<1>1. FinalizeTable(t) = [t EXCEPT !.symbols = a, !.byteCodes = b, !.shortCodes = c,
                                   !.hashTab = d, !.suffixLim = e]
  BY Zenon DEF FinalizeTable, FinalByteCodes
<1> HIDE DEF a, b, c, d, e
<1> DEFINE u == FinalizeTable(t)
<1>2. /\ u.symbols = a /\ u.byteCodes = b /\ u.shortCodes = c /\ u.hashTab = d
      /\ u.suffixLim = e /\ u.lenHisto = t.lenHisto
      /\ u.terminator = t.terminator /\ u.zeroTerminated = t.zeroTerminated
  <2> HIDE DEF u
  <2>1. Rewritten(u, t, a, b, c, d, e)
    BY <1>1, Zenon DEF u, Rewritten
  <2> QED
    BY <2>1, ExceptFields
<1> QED
  BY <1>2, Zenon DEF a, b, c, d, e

(* Every symbol is found under its new code.                               *)
LEMMA FinalSymbols ==
  ASSUME NEW t, Ready(t), NSymbols(t) > 0
  PROVE  LET u == FinalizeTable(t)
         IN  /\ u.symbols \in Seq(Symbol) /\ NSymbols(u) = NSymbols(t)
             /\ DOMAIN u.symbols = DOMAIN t.symbols
             /\ \A i \in DOMAIN t.symbols : u.symbols[NewCode(t)[i] + 1] = t.symbols[i]
             /\ Range(u.symbols) = Range(t.symbols)
<1> DEFINE new == NewCode(t)
           D   == DOMAIN t.symbols
           us  == MoveSymbols(t, new)
<1>1. /\ D = 1 .. NSymbols(t) /\ NSymbols(t) \in Nat
      /\ \A i \in D : t.symbols[i] \in Symbol
  BY SymbolsType
<1>2. \A i \in D : new[i] \in 0 .. NSymbols(t) - 1 /\ new[i] + 1 \in D
  BY <1>1, CodeBound
<1>3. \A c \in D : c - 1 \in 0 .. NSymbols(t) - 1 /\ c - 1 + 1 = c
  BY <1>1
<1>4. \A i, j \in D : new[i] = new[j] => i = j
  BY CodesDistinct
<1>5. DOMAIN us = D
  BY DEF MoveSymbols
<1>6. ASSUME NEW i \in D PROVE us[new[i] + 1] = t.symbols[i]
  <2> DEFINE c == new[i] + 1
             from == {k \in D : new[k] = c - 1}
  <2>1. c \in D /\ c - 1 = new[i]
    BY <1>2, <1>6
  <2>2. from = {i}
    BY <2>1, <1>4
  <2>3. i <= i
    BY <1>1
  <2>4. (CHOOSE k \in from : \A l \in from : l <= k) = i
    BY <2>2, <2>3
  <2>5. us[c] = IF from = {} THEN <<c - 1>>
                ELSE t.symbols[CHOOSE k \in from : \A l \in from : l <= k]
    BY <2>1 DEF MoveSymbols
  <2> QED
    BY <2>2, <2>4, <2>5
<1>7. ASSUME NEW c \in D PROVE \E i \in D : us[c] = t.symbols[i] /\ new[i] + 1 = c
  <2>1. PICK i \in D : new[i] = c - 1
    BY <1>3, CodesOnto
  <2>2. new[i] + 1 = c
    BY <2>1, <1>3
  <2> QED
    BY <2>2, <1>6
<1> HIDE DEF us, new, D
<1>8. us = [c \in D |-> us[c]]
  BY <1>5 DEF us, MoveSymbols, D
<1>9. us \in [1 .. NSymbols(t) -> Symbol]
  BY <1>1, <1>7, <1>8
<1>10. us \in Seq(Symbol) /\ Len(us) = NSymbols(t)
  BY <1>9, <1>1
<1>11. Range(us) = Range(t.symbols)
  <2>1. \A x : x \in Range(us) <=> \E c \in D : us[c] = x
    BY <1>5 DEF Range
  <2>2. \A x : x \in Range(t.symbols) <=> \E c \in D : t.symbols[c] = x
    BY DEF Range, D
  <2>3. \A c \in D : \E i \in D : us[c] = t.symbols[i]
    BY <1>7
  <2>4. \A i \in D : \E c \in D : us[c] = t.symbols[i]
    BY <1>6, <1>2
  <2>5. \A x : x \in Range(us) <=> x \in Range(t.symbols)
    BY <2>1, <2>2, <2>3, <2>4, Zenon
  <2> QED
    BY <2>5, Zenon DEF Range
<1>12. FinalizeTable(t).symbols = us
  <2>1. Shape(t)
    BY DEF Ready, Agrees
  <2> QED
    BY <2>1, FinalFields DEF us, new
<1> QED
  BY <1>5, <1>6, <1>10, <1>11, <1>12 DEF NSymbols, D, new

(* The limits of the finished table, and what finalize leaves alone.       *)
LEMMA FinalLimits ==
  ASSUME NEW t, Ready(t), NSymbols(t) > 0
  PROVE  LET u == FinalizeTable(t)
         IN  /\ u.suffixLim = SuffixLim(t) /\ ByteLim(u) = ByteLim(t) /\ ZT(u) = ZT(t)
             /\ u.terminator = t.terminator /\ u.zeroTerminated = t.zeroTerminated
             /\ SuffixLim(t) \in Nat /\ ByteLim(t) \in Nat
<1> DEFINE u == FinalizeTable(t)
           S == {i \in ZT(t) + 1 .. NSymbols(t) : Len(t.symbols[i]) = 2 /\ ~ HasLonger(t, i)}
<1>1. /\ u.suffixLim = ZT(t) + Cardinality(S) /\ u.lenHisto = t.lenHisto
      /\ u.terminator = t.terminator /\ u.zeroTerminated = t.zeroTerminated
  <2>1. Shape(t)
    BY DEF Ready, Agrees
  <2> HIDE DEF u
  <2>2. u = FinalizeTable(t)
    BY DEF u
  <2> QED
    BY <2>1, <2>2, FinalFields
<1>2. S = Plain(t)
  BY DEF OfLen, LongerThere, Moved, Plain
<1>3. NSymbols(u) = NSymbols(t)
  BY FinalSymbols
<1> HIDE DEF u, S
<1>4. ByteLim(u) = ByteLim(t) /\ ZT(u) = ZT(t)
  BY <1>1, <1>3 DEF ByteLim, ZT
<1>5. u.suffixLim = SuffixLim(t)
  BY <1>1, <1>2 DEF SuffixLim
<1>6. SuffixLim(t) \in Nat
  <2>1. Cardinality(Plain(t)) \in Nat /\ ZT(t) \in Nat
    BY LongerType, SymbolsType
  <2> QED
    BY <2>1 DEF SuffixLim
<1> QED
  BY <1>1, <1>4, <1>5, <1>6, ByteGroup DEF u

(* A two-byte symbol has a longer one exactly if three bytes or more start *)
(* with it.                                                                *)
LEMMA LongerIs ==
  ASSUME NEW t, Ready(t), NEW i \in Moved(t), Len(t.symbols[i]) = 2
  PROVE  i \in LongerThere(t) <=>
           \E x \in Range(t.symbols) : Len(x) > 2 /\ First2(x) = First2(t.symbols[i])
<1>1. /\ i \in DOMAIN t.symbols /\ i \in OfLen(t, 2) /\ Agrees(t)
      /\ \A k \in DOMAIN t.symbols : t.symbols[k] \in Symbol
      /\ \A k \in DOMAIN t.symbols : Len(t.symbols[k]) \in Nat
  <2>1. DOMAIN t.symbols = 1 .. NSymbols(t) /\ Moved(t) \in SUBSET (1 .. NSymbols(t))
    BY SymbolsType
  <2>2. \A k \in DOMAIN t.symbols : t.symbols[k] \in Symbol /\ Len(t.symbols[k]) \in 1 .. MaxLength
    BY <2>1, SymbolsType
  <2>3. i \in OfLen(t, 2) /\ Agrees(t)
    BY DEF OfLen, Ready
  <2> QED
    BY <2>1, <2>2, <2>3
<1>2. i \in LongerThere(t) <=> HasLonger(t, i)
  BY <1>1 DEF LongerThere
<1>3. ASSUME HasLonger(t, i)
      PROVE  \E x \in Range(t.symbols) : Len(x) > 2 /\ First2(x) = First2(t.symbols[i])
  <2>1. PICK k \in DOMAIN t.symbols \ {i} :
           Len(t.symbols[k]) > 1 /\ First2(t.symbols[k]) = First2(t.symbols[i])
    BY <1>3 DEF HasLonger
  <2>2. Len(t.symbols[k]) # 2
    <3>1. SUFFICES ASSUME Len(t.symbols[k]) = 2 PROVE FALSE
      OBVIOUS
    <3>2. t.symbols[k] = t.symbols[i]
      <4>1. \A j \in DOMAIN t.symbols : Len(t.symbols[j]) = 2 =>
              t.symbols[j] = First2(t.symbols[j])
        BY <1>1, ShortSymbols
      <4> QED
        BY <4>1, <3>1, <2>1, <1>1
    <3>3. k \in DOMAIN t.symbols /\ k # i
      BY <2>1
    <3>4. k = i
      BY <3>2, <3>3, <1>1, SymbolsDistinct
    <3> QED
      BY <3>3, <3>4
  <2>3. Len(t.symbols[k]) > 2
    <3> DEFINE n == Len(t.symbols[k])
    <3>1. n \in Nat /\ n > 1 /\ n # 2
      BY <2>1, <2>2, <1>1
    <3> HIDE DEF n
    <3>2. n > 2
      BY <3>1
    <3> QED
      BY <3>2 DEF n
  <2>4. t.symbols[k] \in Range(t.symbols)
    BY <2>1 DEF Range
  <2> QED
    BY <2>1, <2>3, <2>4
<1>4. ASSUME NEW x \in Range(t.symbols), Len(x) > 2, First2(x) = First2(t.symbols[i])
      PROVE  HasLonger(t, i)
  <2>1. PICK k \in DOMAIN t.symbols : t.symbols[k] = x
    BY DEF Range
  <2>2. k # i
    <3>1. Len(x) # Len(t.symbols[i])
      BY <2>1, <1>1, <1>4
    <3> QED
      BY <2>1, <3>1
  <2>3. Len(x) > 1
    BY <2>1, <1>4, <1>1
  <2> QED
    BY <2>1, <2>2, <2>3, <1>4 DEF HasLonger
<1> QED
  BY <1>2, <1>3, <1>4

(* The codes of the symbols of two bytes and more lie below byteLim, and   *)
(* those of one and of three bytes and more not below suffixLim.           *)
LEMMA CodeLimits ==
  ASSUME NEW t, Ready(t), NSymbols(t) > 0, NEW i \in Moved(t)
  PROVE  /\ NewCode(t)[i] < ByteLim(t) <=> Len(t.symbols[i]) > 1
         /\ NewCode(t)[i] < SuffixLim(t) <=> Len(t.symbols[i]) = 2 /\ i \notin LongerThere(t)
<1> DEFINE len  == Len(t.symbols[i])
           code == NewCode(t)[i]
<1>1. len \in 1 .. MaxLength /\ InGroup(t, len, code) /\ MaxLength \in Nat /\ MaxLength >= 3
  BY SymbolsType, CodeRange
<1>2. /\ ByteLim(t) \in Nat /\ GroupStart(t, 1) = ByteLim(t)
      /\ ByteLim(t) = GroupStart(t, MaxLength + 1) /\ GroupStart(t, 2) = ZT(t)
  BY ByteGroup, GroupOfTwo
<1>3. /\ Cardinality(Plain(t)) \in Nat /\ ZT(t) \in Nat
      /\ Cardinality(OfLen(t, 2)) \in Nat
      /\ Cardinality(Plain(t)) <= Cardinality(OfLen(t, 2))
  <2>1. /\ Cardinality(LongerThere(t)) \in Nat /\ Cardinality(Plain(t)) \in Nat
        /\ Cardinality(OfLen(t, 2)) = Cardinality(LongerThere(t)) + Cardinality(Plain(t))
    BY LongerType
  <2> QED
    BY <2>1, SymbolsType
<1>4. \A l : Cardinality(OfLen(t, l)) \in Nat
  BY OfLenType
<1>5. len = 2 => i \in OfLen(t, 2)
  BY DEF OfLen
<1>6. i \in LongerThere(t) => len = 2 /\ code >= SuffixLim(t)
  <2>1. i \in LongerThere(t) => i \in OfLen(t, 2)
    BY DEF LongerThere
  <2> QED
    BY <2>1, CodeRange DEF OfLen
<1>7. len = 2 /\ i \notin LongerThere(t) => code < SuffixLim(t)
  BY <1>5, CodeRange
<1> HIDE DEF len, code
<1>8. \A m \in 3 .. MaxLength + 1 : SuffixLim(t) <= GroupStart(t, m) /\ GroupStart(t, m) \in Nat
  <2>1. ASSUME NEW m \in 3 .. MaxLength + 1
        PROVE  SuffixLim(t) <= GroupStart(t, m) /\ GroupStart(t, m) \in Nat
    <3>1. 2 \in 2 .. MaxLength /\ m \in 2 .. MaxLength + 1 /\ 2 < m
      BY <1>1
    <3>2. /\ GroupStart(t, 2) + Cardinality(OfLen(t, 2)) <= GroupStart(t, m)
          /\ GroupStart(t, m) \in Nat
      BY <3>1, GroupOrder
    <3> QED
      BY <3>2, <1>2, <1>3 DEF SuffixLim
  <2> QED
    BY <2>1
<1>9. \A m \in 2 .. MaxLength : GroupStart(t, m) + Cardinality(OfLen(t, m)) <= ByteLim(t)
  <2>1. ASSUME NEW m \in 2 .. MaxLength
        PROVE  GroupStart(t, m) + Cardinality(OfLen(t, m)) <= ByteLim(t)
    <3>1. MaxLength + 1 \in 2 .. MaxLength + 1 /\ m < MaxLength + 1
      BY <1>1
    <3> QED
      BY <3>1, <1>2, GroupOrder
  <2> QED
    BY <2>1
<1>10. SuffixLim(t) <= ByteLim(t) /\ SuffixLim(t) \in Nat
  <2>1. MaxLength + 1 \in 3 .. MaxLength + 1
    BY <1>1
  <2> QED
    BY <2>1, <1>2, <1>3, <1>8 DEF SuffixLim
<1>11. /\ code \in Nat /\ GroupStart(t, len) <= code
       /\ code < GroupStart(t, len) + Cardinality(OfLen(t, len))
  BY <1>1 DEF InGroup
<1>12. CASE len = 1
  BY <1>12, <1>2, <1>6, <1>10, <1>11 DEF len, code
<1>13. CASE len = 2
  <2>1. len \in 2 .. MaxLength
    BY <1>13, <1>1
  <2>2. code < ByteLim(t)
    BY <2>1, <1>9, <1>11, <1>2, <1>3, <1>4, <1>13
  <2>3. code < SuffixLim(t) <=> i \notin LongerThere(t)
    BY <1>6, <1>7, <1>10, <1>11, <1>13
  <2> QED
    BY <2>2, <2>3, <1>13 DEF len, code
<1>14. CASE len # 1 /\ len # 2
  <2>1. len \in 2 .. MaxLength /\ len \in 3 .. MaxLength + 1
    BY <1>14, <1>1
  <2>2. GroupStart(t, len) \in Nat
    BY <2>1, <1>8
  <2>3. code < ByteLim(t) /\ len > 1
    BY <2>1, <2>2, <1>9, <1>11, <1>2, <1>4
  <2>4. ~ (code < SuffixLim(t))
    BY <2>1, <2>2, <1>8, <1>10, <1>11
  <2> QED
    BY <2>3, <2>4, <1>14 DEF len, code
<1> QED
  BY <1>12, <1>13, <1>14

(* The order of the codes in a finished table.                             *)
LEMMA FinalLayout ==
  ASSUME NEW t, Ready(t), NSymbols(t) > 0, NEW u, u = FinalizeTable(t),
         NEW c \in ZT(u) .. NSymbols(u) - 1
  PROVE  LET s == u.symbols[c + 1]
             longer == \E x \in Range(u.symbols) :
                         Len(x) > 2 /\ Len(s) >= 2 /\ First2(x) = First2(s)
         IN  /\ c < u.suffixLim <=> Len(s) = 2 /\ ~ longer
             /\ c < ByteLim(u) <=> Len(s) > 1
             /\ c + 1 < ByteLim(u) => Len(s) <= Len(u.symbols[c + 2])
             /\ ZT(u) = 1 => u.symbols[1] = <<0>>
<1>1. /\ u.suffixLim = SuffixLim(t) /\ ByteLim(u) = ByteLim(t) /\ ZT(u) = ZT(t)
      /\ SuffixLim(t) \in Nat /\ ByteLim(t) \in Nat
  BY FinalLimits
<1>2. /\ NSymbols(u) = NSymbols(t) /\ DOMAIN u.symbols = DOMAIN t.symbols
      /\ \A i \in DOMAIN t.symbols : u.symbols[NewCode(t)[i] + 1] = t.symbols[i]
      /\ Range(u.symbols) = Range(t.symbols)
  BY FinalSymbols
<1>3. /\ NSymbols(t) \in Nat /\ ZT(t) \in {0, 1}
      /\ \A i \in DOMAIN t.symbols : Len(t.symbols[i]) \in 1 .. MaxLength /\ MaxLength \in Nat
  BY SymbolsType
<1>4. \A d \in ZT(t) .. NSymbols(t) - 1 : \E i \in Moved(t) :
        i \in DOMAIN t.symbols /\ NewCode(t)[i] = d /\ u.symbols[d + 1] = t.symbols[i]
  <2>1. ASSUME NEW d \in ZT(t) .. NSymbols(t) - 1
        PROVE  \E i \in Moved(t) :
                 i \in DOMAIN t.symbols /\ NewCode(t)[i] = d /\ u.symbols[d + 1] = t.symbols[i]
    <3>1. d \in 0 .. NSymbols(t) - 1 /\ d >= ZT(t)
      BY <1>3
    <3>2. PICK i \in DOMAIN t.symbols : NewCode(t)[i] = d
      BY <3>1, CodesOnto
    <3>3. i \in Moved(t)
      BY <3>1, <3>2, CodeBound
    <3> QED
      BY <3>2, <3>3, <1>2
  <2> QED
    BY <2>1
<1>5. PICK i \in Moved(t) :
        i \in DOMAIN t.symbols /\ NewCode(t)[i] = c /\ u.symbols[c + 1] = t.symbols[i]
  BY <1>1, <1>2, <1>4
<1> DEFINE s == t.symbols[i]
           longer == \E x \in Range(u.symbols) :
                       Len(x) > 2 /\ Len(s) >= 2 /\ First2(x) = First2(s)
<1>6. c < u.suffixLim <=> Len(s) = 2 /\ ~ longer
  <2>1. c < u.suffixLim <=> Len(s) = 2 /\ i \notin LongerThere(t)
    BY <1>1, <1>5, CodeLimits
  <2>2. Len(s) = 2 => (i \in LongerThere(t) <=> longer)
    <3>1. SUFFICES ASSUME Len(s) = 2 PROVE i \in LongerThere(t) <=> longer
      OBVIOUS
    <3>2. i \in LongerThere(t) <=> \E x \in Range(t.symbols) : Len(x) > 2 /\ First2(x) = First2(s)
      BY <3>1, LongerIs
    <3>3. Len(s) >= 2
      BY <3>1
    <3> QED
      BY <3>2, <3>3, <1>2
  <2> QED
    BY <2>1, <2>2
<1>7. c < ByteLim(u) <=> Len(s) > 1
  BY <1>1, <1>5, CodeLimits
<1>8. c + 1 < ByteLim(u) => Len(s) <= Len(u.symbols[c + 2])
  <2>1. SUFFICES ASSUME c + 1 < ByteLim(t) PROVE Len(s) <= Len(u.symbols[c + 2])
    BY <1>1
  <2>2. c \in Nat /\ c + 1 \in ZT(t) .. NSymbols(t) - 1 /\ c + 1 + 1 = c + 2
    <3>1. ByteLim(t) <= NSymbols(t)
      <4>1. Cardinality(OfLen(t, 1)) \in Nat
        BY OfLenType
      <4> QED
        BY <4>1, <1>1, <1>3, ByteGroup
    <3> QED
      BY <3>1, <2>1, <1>1, <1>2, <1>3
  <2>3. PICK j \in Moved(t) :
          j \in DOMAIN t.symbols /\ NewCode(t)[j] = c + 1 /\ u.symbols[c + 2] = t.symbols[j]
    BY <2>2, <1>4
  <2>4. Len(t.symbols[j]) > 1
    BY <2>1, <2>3, CodeLimits
  <2> DEFINE li == Len(t.symbols[i])
             lj == Len(t.symbols[j])
  <2>5. li \in Nat /\ lj \in Nat /\ lj > 1
    BY <2>3, <2>4, <1>3, <1>5
  <2>6. ~ (c + 1 < c)
    BY <2>2
  <2>7. ~ Earlier(lj, li)
    BY <2>3, <2>6, <1>5, CodeOrder
  <2> HIDE DEF li, lj
  <2>8. li <= lj
    BY <2>5, <2>7 DEF Earlier
  <2> QED
    BY <2>8, <2>3 DEF li, lj
<1>9. ZT(u) = 1 => u.symbols[1] = <<0>>
  <2>1. SUFFICES ASSUME ZT(t) = 1 PROVE u.symbols[1] = <<0>>
    BY <1>1
  <2>2. 1 \in DOMAIN t.symbols /\ 1 \notin Moved(t)
    BY <2>1, <1>3, SymbolsType DEF Moved
  <2>3. NewCode(t)[1] = 0
    BY <2>2, NewCodeOf
  <2>4. u.symbols[0 + 1] = t.symbols[1]
    BY <2>2, <2>3, <1>2
  <2>5. t.symbols[1] = <<0>>
    <3>1. t.symbols # <<>>
      BY DEF NSymbols
    <3>2. t.zeroTerminated
      BY <2>1 DEF ZT
    <3> QED
      BY <3>1, <3>2 DEF Ready, Terminated
  <2> QED
    BY <2>4, <2>5
<1> QED
  BY <1>5, <1>6, <1>7, <1>8, <1>9

--------------------------------------------------------------------------------
(* The lookups of the compressor.                                          *)

(* The escape bit and the byte of a code below the code of an escape, and  *)
(* of the code of an escaped byte.                                         *)
LEMMA CodeBits ==
  /\ \A c \in 0 .. CodeBase - 1 : EscapeBit(c) = 0 /\ CodeByte(c) = c
  /\ EscapeBit(CODE_MASK) = 1 /\ CodeByte(CODE_MASK) = ESC
<1>1. CodeBase \in Nat /\ CodeBase > 1
  BY TableAssumption
<1>2. ASSUME NEW b \in Nat, b > 1
      PROVE  (2 * b - 1) \div b = 1 /\ (2 * b - 1) % b = b - 1
  BY <1>2
<1>3. ASSUME NEW b \in Nat, b > 1, NEW c \in 0 .. b - 1
      PROVE  c \div b = 0 /\ c % b = c
  BY <1>3
<1> QED
  BY <1>1, <1>2, <1>3 DEF EscapeBit, CodeByte, CODE_MASK, ESC

(* The index of a code, and the new code of a symbol.                      *)
LEMMA NewCodeType ==
  ASSUME NEW t, Ready(t), NSymbols(t) > 0, NEW i \in DOMAIN t.symbols
  PROVE  /\ CodeOf(i) - CodeBase + 1 = i /\ ~ isEscapeCode(CodeOf(i))
         /\ SymbolOf(t, CodeOf(i)) = t.symbols[i]
         /\ NewCode(t)[i] \in Nat /\ EscapeBit(NewCode(t)[i]) = 0
<1>1. /\ i \in 1 .. NSymbols(t) /\ CodeBase \in Nat /\ NSymbols(t) \in Nat
      /\ NSymbols(t) <= MaxSymbols
  BY SymbolsType
<1>2. CodeOf(i) - CodeBase + 1 = i /\ ~ isEscapeCode(CodeOf(i))
  BY <1>1 DEF CodeOf, isEscapeCode
<1>3. NewCode(t)[i] \in 0 .. CodeBase - 1
  BY <1>1, CodeBound DEF MaxSymbols
<1> QED
  BY <1>2, <1>3, CodeBits DEF SymbolOf

(* The slots that finalize leaves in the hash table.                       *)
LEMMA FinalSlot ==
  ASSUME NEW t, Ready(t), NSymbols(t) > 0, NEW u, u = FinalizeTable(t), NEW k \in Bucket
  PROVE  \/ t.hashTab[k] = FreeSlot /\ u.hashTab[k] = FreeSlot
         \/ \E i \in DOMAIN t.symbols :
              /\ Len(t.symbols[i]) >= 3 /\ BucketOf(t.symbols[i]) = k
              /\ t.hashTab[k] = [str |-> t.symbols[i], code |-> CodeOf(i)]
              /\ u.hashTab[k] = [str |-> t.symbols[i], code |-> NewCode(t)[i]]
              /\ t.hashTab[k] # FreeSlot /\ u.hashTab[k] # FreeSlot
<1>1. /\ Shape(t) /\ Owned(t)
  BY DEF Ready, Agrees
<1>2. u.hashTab = [l \in Bucket |->
                     IF t.hashTab[l] = FreeSlot THEN FreeSlot
                     ELSE [str  |-> MoveSymbols(t, NewCode(t))
                                      [NewCode(t)[t.hashTab[l].code - CodeBase + 1] + 1],
                           code |-> NewCode(t)[t.hashTab[l].code - CodeBase + 1]]]
      /\ u.symbols = MoveSymbols(t, NewCode(t))
  BY <1>1, FinalFields
<1>3. u.hashTab[k] = IF t.hashTab[k] = FreeSlot THEN FreeSlot
                     ELSE [str  |-> u.symbols[NewCode(t)[t.hashTab[k].code - CodeBase + 1] + 1],
                           code |-> NewCode(t)[t.hashTab[k].code - CodeBase + 1]]
  BY <1>2
<1>4. CASE t.hashTab[k] = FreeSlot
  BY <1>3, <1>4
<1>5. ASSUME NEW i \in DOMAIN t.symbols,
             Len(t.symbols[i]) >= 3, BucketOf(t.symbols[i]) = k,
             t.hashTab[k] = [str |-> t.symbols[i], code |-> CodeOf(i)]
      PROVE  /\ u.hashTab[k] = [str |-> t.symbols[i], code |-> NewCode(t)[i]]
             /\ t.hashTab[k] # FreeSlot /\ u.hashTab[k] # FreeSlot
  <2>1. t.symbols[i] # <<>>
    <3>1. Len(<<>>) = 0
      OBVIOUS
    <3> QED
      BY <3>1, <1>5
  <2>2. \A a, b : [str |-> a, code |-> b].str = a /\ [str |-> a, code |-> b].code = b
    OBVIOUS
  <2>3. \A b : [str |-> t.symbols[i], code |-> b] # FreeSlot
    BY <2>1, <2>2 DEF FreeSlot
  <2>4. t.hashTab[k].code - CodeBase + 1 = i
    BY <2>2, <1>5, NewCodeType
  <2>5. u.symbols[NewCode(t)[i] + 1] = t.symbols[i]
    BY FinalSymbols
  <2> QED
    BY <2>3, <2>4, <2>5, <1>3, <1>5
<1> QED
  BY <1>1, <1>4, <1>5 DEF Owned

(* The bytes and the pairs.                                                *)
LEMMA FinalByte ==
  ASSUME NEW t, Ready(t), NSymbols(t) > 0, NEW b \in Byte
  PROVE  \/ /\ isEscapeCode(t.byteCodes[b]) /\ SymbolOf(t, t.byteCodes[b]) = <<b>>
            /\ FinalByteCodes(t)[b] = CODE_MASK /\ <<b>> \notin Range(t.symbols)
         \/ \E i \in DOMAIN t.symbols :
              /\ t.symbols[i] = <<b>> /\ t.byteCodes[b] = CodeOf(i)
              /\ FinalByteCodes(t)[b] = NewCode(t)[i]
<1>1. Shape(t) /\ Entered(t) /\ Owned(t)
  BY DEF Ready, Agrees
<1>2. FinalByteCodes(t)[b] = IF isEscapeCode(t.byteCodes[b]) THEN CODE_MASK
                             ELSE NewCode(t)[t.byteCodes[b] - CodeBase + 1]
  BY DEF FinalByteCodes
<1>3. CASE t.byteCodes[b] = ByteEntry(b)
  <2>1. b < CodeBase
    BY TableAssumption
  <2>2. isEscapeCode(t.byteCodes[b]) /\ SymbolOf(t, t.byteCodes[b]) = <<b>>
    BY <2>1, <1>3 DEF isEscapeCode, SymbolOf, ByteEntry
  <2>3. ASSUME NEW i \in DOMAIN t.symbols, t.symbols[i] = <<b>> PROVE FALSE
    <3>1. t.byteCodes[b] = CodeOf(i)
      <4>1. Len(t.symbols[i]) = 1 /\ t.symbols[i][1] = b
        BY <2>3
      <4> QED
        BY <4>1, <1>1 DEF Entered
    <3> QED
      BY <3>1, <2>2, NewCodeType
  <2>4. <<b>> \notin Range(t.symbols)
    BY <2>3 DEF Range
  <2> QED
    BY <2>2, <2>4, <1>2
<1>4. ASSUME NEW i \in DOMAIN t.symbols, t.symbols[i] = <<b>>, t.byteCodes[b] = CodeOf(i)
      PROVE  FinalByteCodes(t)[b] = NewCode(t)[i]
  BY <1>2, <1>4, NewCodeType
<1> QED
  BY <1>1, <1>3, <1>4 DEF Owned

(* The entry of a pair: that of its first byte, or of a symbol.            *)
LEMMA FinalPair ==
  ASSUME NEW t, Ready(t), NSymbols(t) > 0, NEW u, u = FinalizeTable(t), NEW p \in Byte \X Byte
  PROVE  \/ /\ isEscapeCode(t.shortCodes[p].code)
            /\ u.shortCodes[p] = [code |-> FinalByteCodes(t)[p[1]], len |-> 1]
         \/ \E i \in DOMAIN t.symbols :
              /\ t.symbols[i] = p /\ t.shortCodes[p].code = CodeOf(i)
              /\ u.shortCodes[p] = [code |-> NewCode(t)[i], len |-> 2]
<1>1. Shape(t) /\ Owned(t)
  BY DEF Ready, Agrees
<1>2. u.shortCodes = [q \in Byte \X Byte |->
                        IF isEscapeCode(t.shortCodes[q].code)
                          THEN [code |-> FinalByteCodes(t)[q[1]], len |-> 1]
                          ELSE [code |-> NewCode(t)[t.shortCodes[q].code - CodeBase + 1],
                                len  |-> t.shortCodes[q].len]]
  BY <1>1, FinalFields
<1>3. u.shortCodes[p] = IF isEscapeCode(t.shortCodes[p].code)
                          THEN [code |-> FinalByteCodes(t)[p[1]], len |-> 1]
                          ELSE [code |-> NewCode(t)[t.shortCodes[p].code - CodeBase + 1],
                                len  |-> t.shortCodes[p].len]
  BY <1>2
<1>4. CASE t.shortCodes[p] = ShortEntry(p)
  <2>1. t.shortCodes[p].code = p[1] /\ p[1] < CodeBase
    <3>1. p[1] \in Byte
      OBVIOUS
    <3>2. \A b \in Byte : b < CodeBase
      BY TableAssumption
    <3> QED
      BY <3>1, <3>2, <1>4 DEF ShortEntry
  <2> QED
    BY <2>1, <1>3 DEF isEscapeCode
<1>5. ASSUME NEW i \in DOMAIN t.symbols, t.symbols[i] = p,
             t.shortCodes[p] = [code |-> CodeOf(i), len |-> 2]
      PROVE  /\ t.shortCodes[p].code = CodeOf(i)
             /\ u.shortCodes[p] = [code |-> NewCode(t)[i], len |-> 2]
  <2>1. t.shortCodes[p].code = CodeOf(i) /\ t.shortCodes[p].len = 2
    BY <1>5
  <2> QED
    BY <2>1, <1>3, NewCodeType
<1> QED
  BY <1>1, <1>4, <1>5 DEF Owned

(* No symbol of two bytes or more contains the terminator.                 *)
NoneAcross(t) ==
  \A s \in Range(t.symbols) : Len(s) >= 2 => \A i \in 1 .. Len(s) : s[i] # t.terminator

(* The first n bytes of a word, and a word that a symbol starts.           *)
LEMMA FirstBytes ==
  ASSUME NEW word \in [1 .. MaxLength -> Byte], NEW n \in 1 .. MaxLength
  PROVE  /\ word \in Symbol /\ Len(word) = MaxLength
         /\ SubSeq(word, 1, n) \in Symbol /\ Len(SubSeq(word, 1, n)) = n
         /\ \A i \in 1 .. n : SubSeq(word, 1, n)[i] = word[i]
         /\ MaxLength \in Nat /\ MaxLength >= 3 /\ n \in Nat /\ n >= 1
<1>1. MaxLength \in Nat /\ MaxLength >= 3 /\ n \in Nat /\ n >= 1 /\ n <= MaxLength
  BY TableAssumption
<1>2. word \in Symbol
  <2>1. MaxLength \in 1 .. MaxLength
    BY <1>1
  <2> QED
    BY <2>1 DEF Symbol
<1>3. word \in Seq(Byte) /\ Len(word) = MaxLength
  BY <1>1
<1> DEFINE s == SubSeq(word, 1, n)
<1>4. s \in Seq(Byte) /\ Len(s) = n /\ \A i \in 1 .. n : s[i] = word[i]
  BY <1>1, <1>3
<1> HIDE DEF s
<1>5. s \in [1 .. n -> Byte]
  BY <1>1, <1>4
<1>6. s \in Symbol
  BY <1>5 DEF Symbol
<1> QED
  BY <1>1, <1>2, <1>3, <1>4, <1>6 DEF s

(* A symbol the word starts with does not reach across the terminator.     *)
LEMMA NotAcross ==
  ASSUME NEW t, Ready(t), NoneAcross(t), NEW i \in DOMAIN t.symbols,
         NEW word \in [1 .. MaxLength -> Byte], NEW n \in 1 .. MaxLength,
         n < MaxLength => word[n + 1] = t.terminator, Len(t.symbols[i]) >= 2
  PROVE  IsPrefix(t.symbols[i], word) <=> IsPrefix(t.symbols[i], SubSeq(word, 1, n))
<1> DEFINE x == t.symbols[i]
           s == SubSeq(word, 1, n)
<1>1. /\ word \in Symbol /\ Len(word) = MaxLength /\ s \in Symbol /\ Len(s) = n
      /\ \A k \in 1 .. n : s[k] = word[k]
      /\ MaxLength \in Nat /\ n \in Nat /\ n >= 1 /\ n <= MaxLength
  BY FirstBytes
<1>2. x \in Symbol /\ x \in Range(t.symbols) /\ Len(x) \in Nat /\ Len(x) >= 2
      /\ Len(x) <= MaxLength
  <2>1. x \in Range(t.symbols)
    BY DEF Range
  <2>2. x \in Symbol /\ Len(x) \in 1 .. MaxLength /\ MaxLength \in Nat
    BY SymbolsType
  <2>3. Len(x) >= 2
    OBVIOUS
  <2> HIDE DEF x
  <2> QED
    BY <2>1, <2>2, <2>3
<1>3. \A k \in 1 .. Len(x) : x[k] # t.terminator
  BY <1>2 DEF NoneAcross
<1>4. x \in Seq(Byte) /\ s \in Seq(Byte) /\ word \in Seq(Byte)
  BY <1>1, <1>2, SymbolIsSeq
<1> HIDE DEF x, s
<1>0. \A q \in Seq(Byte) :
        IsPrefix(x, q) <=> Len(x) <= Len(q) /\ \A k \in 1 .. Len(x) : x[k] = q[k]
  BY <1>4, PrefixElements
<1>5. IsPrefix(x, word) <=> Len(x) <= Len(word) /\ \A k \in 1 .. Len(x) : x[k] = word[k]
  BY <1>0, <1>4
<1>6. IsPrefix(x, s) <=> Len(x) <= Len(s) /\ \A k \in 1 .. Len(x) : x[k] = s[k]
  BY <1>0, <1>4
<1>7. ASSUME IsPrefix(x, word) PROVE IsPrefix(x, s)
  <2>1. Len(x) <= n
    <3>1. SUFFICES ASSUME Len(x) > n PROVE FALSE
      BY <1>1, <1>2
    <3>2. n + 1 \in 1 .. Len(x) /\ n < MaxLength
      BY <3>1, <1>1, <1>2
    <3> QED
      BY <3>2, <1>3, <1>5, <1>7
  <2>2. \A k \in 1 .. Len(x) : x[k] = s[k]
    <3>1. \A k \in 1 .. Len(x) : k \in 1 .. n
      BY <2>1, <1>1, <1>2
    <3> QED
      BY <3>1, <1>1, <1>5, <1>7
  <2> QED
    BY <2>1, <2>2, <1>1, <1>6
<1>8. ASSUME IsPrefix(x, s) PROVE IsPrefix(x, word)
  <2>1. Len(x) <= n /\ \A k \in 1 .. Len(x) : k \in 1 .. n /\ x[k] = s[k]
    BY <1>1, <1>2, <1>6, <1>8
  <2> QED
    BY <2>1, <1>1, <1>2, <1>5
<1> QED
  BY <1>7, <1>8 DEF x, s

(* What a lookup in the finished table has to return.                      *)
SameMatch(t, u, found, code, b) ==
  LET match == SymbolOf(t, code)
  IN  /\ found.len = Len(match)
      /\ IF EscapeBit(found.code) = 1
           THEN /\ CodeByte(found.code) = ESC
                /\ match = <<b>> /\ match \notin Range(u.symbols)
           ELSE u.symbols[found.code + 1] = match

(* An entry with the code and the length of a symbol is right.             *)
LEMMA SymbolFound ==
  ASSUME NEW t, Ready(t), NSymbols(t) > 0, NEW u, u = FinalizeTable(t), NEW b,
         NEW i \in DOMAIN t.symbols, NEW len, len = Len(t.symbols[i])
  PROVE  SameMatch(t, u, [code |-> NewCode(t)[i], len |-> len], CodeOf(i), b)
<1> DEFINE found == [code |-> NewCode(t)[i], len |-> len]
<1>1. found.code = NewCode(t)[i] /\ found.len = len
  OBVIOUS
<1>2. SymbolOf(t, CodeOf(i)) = t.symbols[i] /\ EscapeBit(NewCode(t)[i]) # 1
  BY NewCodeType
<1>3. u.symbols[NewCode(t)[i] + 1] = t.symbols[i]
  BY FinalSymbols
<1> HIDE DEF found
<1>4. SameMatch(t, u, found, CodeOf(i), b)
  BY <1>1, <1>2, <1>3 DEF SameMatch
<1> QED
  BY <1>4 DEF found

(* The entry of a single byte is right.                                    *)
LEMMA ByteFound ==
  ASSUME NEW t, Ready(t), NSymbols(t) > 0, NEW u, u = FinalizeTable(t), NEW b \in Byte
  PROVE  SameMatch(t, u, [code |-> FinalByteCodes(t)[b], len |-> 1], t.byteCodes[b], b)
<1>1. CASE /\ isEscapeCode(t.byteCodes[b]) /\ SymbolOf(t, t.byteCodes[b]) = <<b>>
           /\ FinalByteCodes(t)[b] = CODE_MASK /\ <<b>> \notin Range(t.symbols)
  <2> DEFINE found == [code |-> FinalByteCodes(t)[b], len |-> 1]
  <2>1. found.code = CODE_MASK /\ found.len = 1 /\ Len(<<b>>) = 1
    BY <1>1
  <2>2. EscapeBit(CODE_MASK) = 1 /\ CodeByte(CODE_MASK) = ESC
    BY CodeBits
  <2>3. Range(u.symbols) = Range(t.symbols)
    BY FinalSymbols
  <2> HIDE DEF found
  <2>4. SameMatch(t, u, found, t.byteCodes[b], b)
    BY <2>1, <2>2, <2>3, <1>1 DEF SameMatch
  <2> QED
    BY <2>4 DEF found
<1>2. ASSUME NEW i \in DOMAIN t.symbols, t.symbols[i] = <<b>>, t.byteCodes[b] = CodeOf(i),
             FinalByteCodes(t)[b] = NewCode(t)[i]
      PROVE  SameMatch(t, u, [code |-> FinalByteCodes(t)[b], len |-> 1], t.byteCodes[b], b)
  <2>1. 1 = Len(t.symbols[i])
    BY <1>2
  <2> QED
    BY <2>1, <1>2, SymbolFound
<1> QED
  BY <1>1, <1>2, FinalByte

(* The lookup of a word finds what findLongestSymbol found for its first n *)
(* bytes.                                                                  *)
LEMMA LookupPreserved ==
  ASSUME NEW t, Ready(t), NSymbols(t) > 0, NoneAcross(t), NEW u, u = FinalizeTable(t),
         NEW word \in [1 .. MaxLength -> Byte], NEW n \in 1 .. MaxLength,
         n < MaxLength => word[n + 1] = t.terminator
  PROVE  SameMatch(t, u, FinalLookup(u, word),
                   FindLongestSymbol(t, SubSeq(word, 1, n)), word[1])
<1> DEFINE s  == SubSeq(word, 1, n)
           k  == BucketOf(word)
           ks == BucketOf(s)
           p  == First2(word)
<1>1. /\ word \in Symbol /\ Len(word) = MaxLength /\ s \in Symbol /\ Len(s) = n
      /\ \A i \in 1 .. n : s[i] = word[i]
      /\ MaxLength \in Nat /\ MaxLength >= 3 /\ n \in Nat /\ n >= 1 /\ n <= MaxLength
  BY FirstBytes
<1>2. k \in Bucket /\ ks \in Bucket
  BY <1>1, BucketType
<1>3. /\ \A i \in DOMAIN t.symbols : t.symbols[i] \in Symbol /\ Len(t.symbols[i]) \in Nat
      /\ Owned(t) /\ Entered(t)
  <2>1. Owned(t) /\ Entered(t)
    BY DEF Ready, Agrees
  <2>2. \A i \in DOMAIN t.symbols : t.symbols[i] \in Symbol
    BY SymbolsType
  <2> QED
    BY <2>1, <2>2, SymbolIsSeq
<1>4. s[1] = word[1] /\ word[1] \in Byte /\ p = <<word[1], word[2]>> /\ p \in Byte \X Byte
  <2>1. 1 \in 1 .. n /\ 1 \in 1 .. MaxLength /\ 2 \in 1 .. MaxLength
    BY <1>1
  <2> QED
    BY <2>1, <1>1 DEF First2
<1>5. n >= 2 => First2(s) = p
  BY <1>1, <1>4 DEF First2
(* A symbol of three bytes or more is a prefix of both or of neither.      *)
<1>6. ASSUME NEW i \in DOMAIN t.symbols, Len(t.symbols[i]) >= 3
      PROVE  /\ IsPrefix(t.symbols[i], word) <=> IsPrefix(t.symbols[i], s)
             /\ IsPrefix(t.symbols[i], word) =>
                  BucketOf(t.symbols[i]) = k /\ BucketOf(t.symbols[i]) = ks
  <2>1. Len(t.symbols[i]) >= 2
    BY <1>3, <1>6
  <2>2. IsPrefix(t.symbols[i], word) <=> IsPrefix(t.symbols[i], s)
    BY <2>1, NotAcross
  <2>3. IsPrefix(t.symbols[i], word) => BucketOf(t.symbols[i]) = BucketOf(word)
    BY <1>1, <1>3, <1>6, PrefixBucket
  <2>4. IsPrefix(t.symbols[i], s) => BucketOf(t.symbols[i]) = BucketOf(s)
    BY <1>1, <1>3, <1>6, PrefixBucket
  <2> QED
    BY <2>2, <2>3, <2>4
<1> HIDE DEF s, k, ks, p
<1>7. CASE HashMatch(u, word)
  <2>1. u.hashTab[k] # FreeSlot /\ IsPrefix(u.hashTab[k].str, word)
    BY <1>7 DEF HashMatch, k
  <2>2. PICK i \in DOMAIN t.symbols :
           /\ Len(t.symbols[i]) >= 3 /\ BucketOf(t.symbols[i]) = k
           /\ t.hashTab[k] = [str |-> t.symbols[i], code |-> CodeOf(i)]
           /\ u.hashTab[k] = [str |-> t.symbols[i], code |-> NewCode(t)[i]]
           /\ t.hashTab[k] # FreeSlot
    BY <2>1, <1>2, FinalSlot
  <2>3. /\ u.hashTab[k].str = t.symbols[i] /\ u.hashTab[k].code = NewCode(t)[i]
        /\ t.hashTab[k].str = t.symbols[i] /\ t.hashTab[k].code = CodeOf(i)
    BY <2>2
  <2>4. IsPrefix(t.symbols[i], s) /\ k = ks
    BY <2>1, <2>2, <2>3, <1>6
  <2>5. FindLongestSymbol(t, s) = CodeOf(i)
    BY <2>2, <2>3, <2>4 DEF FindLongestSymbol, ks
  <2>6. FinalLookup(u, word) = [code |-> NewCode(t)[i], len |-> Len(t.symbols[i])]
    BY <2>3, <1>7 DEF FinalLookup, k
  <2>7. SameMatch(t, u, [code |-> NewCode(t)[i], len |-> Len(t.symbols[i])],
                  CodeOf(i), word[1])
    BY SymbolFound
  <2> QED
    BY <2>5, <2>6, <2>7 DEF s
<1>8. CASE ~ HashMatch(u, word)
  <2>1. FinalLookup(u, word) = u.shortCodes[p]
    BY <1>8 DEF FinalLookup, p
  <2>2. ~ (t.hashTab[ks] # FreeSlot /\ IsPrefix(t.hashTab[ks].str, s))
    <3>1. SUFFICES ASSUME t.hashTab[ks] # FreeSlot, IsPrefix(t.hashTab[ks].str, s)
                   PROVE  FALSE
      OBVIOUS
    <3>2. PICK i \in DOMAIN t.symbols :
             /\ Len(t.symbols[i]) >= 3
             /\ t.hashTab[ks] = [str |-> t.symbols[i], code |-> CodeOf(i)]
             /\ u.hashTab[ks] = [str |-> t.symbols[i], code |-> NewCode(t)[i]]
             /\ u.hashTab[ks] # FreeSlot
      BY <3>1, <1>2, FinalSlot
    <3>3. t.hashTab[ks].str = t.symbols[i] /\ u.hashTab[ks].str = t.symbols[i]
      BY <3>2
    <3>4. IsPrefix(t.symbols[i], word) /\ k = ks
      BY <3>1, <3>2, <3>3, <1>6
    <3> QED
      BY <3>2, <3>3, <3>4, <1>8 DEF HashMatch, k
  <2>3. FindLongestSymbol(t, s) =
          IF n >= 2 /\ ~ isEscapeCode(t.shortCodes[First2(s)].code)
            THEN t.shortCodes[First2(s)].code ELSE t.byteCodes[word[1]]
    BY <2>2, <1>1, <1>4 DEF FindLongestSymbol, ks
  <2>4. ASSUME isEscapeCode(t.shortCodes[p].code),
               u.shortCodes[p] = [code |-> FinalByteCodes(t)[p[1]], len |-> 1]
        PROVE  SameMatch(t, u, FinalLookup(u, word), FindLongestSymbol(t, s), word[1])
    <3>1. FindLongestSymbol(t, s) = t.byteCodes[word[1]]
      BY <2>3, <2>4, <1>5
    <3>2. p[1] = word[1]
      BY <1>4
    <3>3. SameMatch(t, u, [code |-> FinalByteCodes(t)[word[1]], len |-> 1],
                    t.byteCodes[word[1]], word[1])
      BY <1>4, ByteFound
    <3> QED
      BY <2>1, <2>4, <3>1, <3>2, <3>3
  <2>5. ASSUME NEW i \in DOMAIN t.symbols,
               t.symbols[i] = p, t.shortCodes[p].code = CodeOf(i),
               u.shortCodes[p] = [code |-> NewCode(t)[i], len |-> 2]
        PROVE  SameMatch(t, u, FinalLookup(u, word), FindLongestSymbol(t, s), word[1])
    <3>1. Len(p) = 2 /\ p[2] = word[2]
      BY <1>4
    <3>2. n >= 2
      <4>1. SUFFICES ASSUME n = 1 PROVE FALSE
        BY <1>1
      <4>2. word[2] = t.terminator
        BY <4>1, <1>1
      <4>3. p \in Range(t.symbols)
        BY <2>5 DEF Range
      <4> QED
        BY <3>1, <4>2, <4>3 DEF NoneAcross
    <3>3. FindLongestSymbol(t, s) = CodeOf(i)
      BY <2>3, <2>5, <3>2, <1>5, NewCodeType
    <3>4. SameMatch(t, u, [code |-> NewCode(t)[i], len |-> 2], CodeOf(i), word[1])
      <4>1. 2 = Len(t.symbols[i])
        BY <2>5, <3>1
      <4> QED
        BY <4>1, SymbolFound
    <3> QED
      BY <2>1, <2>5, <3>3, <3>4
  <2>6. \/ /\ isEscapeCode(t.shortCodes[p].code)
           /\ u.shortCodes[p] = [code |-> FinalByteCodes(t)[p[1]], len |-> 1]
        \/ \E i \in DOMAIN t.symbols :
             /\ t.symbols[i] = p /\ t.shortCodes[p].code = CodeOf(i)
             /\ u.shortCodes[p] = [code |-> NewCode(t)[i], len |-> 2]
    BY <1>4, FinalPair
  <2>7. SameMatch(t, u, FinalLookup(u, word), FindLongestSymbol(t, s), word[1])
    BY <2>4, <2>5, <2>6
  <2> QED
    BY <2>7 DEF s
<1> QED
  BY <1>7, <1>8

--------------------------------------------------------------------------------
(* Tables that finalize may be given.                                      *)
LEMMA EmptyReady ==
  ASSUME NEW terminator \in Byte, NEW zeroTerminated \in BOOLEAN,
         zeroTerminated => terminator = 0
  PROVE  Ready(EmptyTable(terminator, zeroTerminated))
<1> DEFINE t == EmptyTable(terminator, zeroTerminated)
<1>1. /\ t.symbols = <<>> /\ t.lenHisto = [l \in 1 .. MaxLength |-> 0]
      /\ t.terminator = terminator /\ t.zeroTerminated = zeroTerminated
  BY DEF EmptyTable
<1>2. Agrees(t)
  BY EmptyAgrees
<1> HIDE DEF t
<1>3. \A l : AllOfLen(t, l) = {}
  BY <1>1 DEF AllOfLen
<1>4. Counted(t)
  BY <1>1, <1>3, FS_EmptySet DEF Counted
<1>5. Terminated(t)
  BY <1>1 DEF Terminated
<1> QED
  BY <1>2, <1>4, <1>5 DEF Ready, t

(* add leaves a table that finalize may be given.                          *)
LEMMA AddReady ==
  ASSUME NEW t, Ready(t), NSymbols(t) < MaxSymbols, NEW s \in Symbol,
         s \notin Range(t.symbols), NSymbols(t) = 0 => s = <<t.terminator>>
  PROVE  Ready(AddSymbol(t, s))
<1> DEFINE u == AddSymbol(t, s)
<1>0. s \notin Range(t.symbols) /\ (NSymbols(t) = 0 => s = <<t.terminator>>)
  OBVIOUS
<1>1. CASE Refused(t, s)
  <2>1. u = t
    BY <1>1 DEF AddSymbol
  <2> QED
    BY <2>1
<1>2. CASE ~ Refused(t, s)
  <2>1. Agrees(u)
    BY <1>0, AddAgrees DEF Ready
  <2>2. /\ u.symbols = Append(t.symbols, s)
        /\ u.lenHisto = [t.lenHisto EXCEPT ![Len(s)] = t.lenHisto[Len(s)] + 1]
        /\ u.terminator = t.terminator /\ u.zeroTerminated = t.zeroTerminated
    BY <1>2 DEF AddSymbol
  <2>3. /\ t.symbols \in Seq(Symbol) /\ NSymbols(t) \in Nat /\ DOMAIN t.symbols = 1 .. NSymbols(t)
        /\ Len(s) \in 1 .. MaxLength /\ Len(t.symbols) = NSymbols(t)
    BY SymbolsType, SymbolIsSeq DEF Ready, Agrees, Shape, NSymbols
  <2>4. /\ DOMAIN u.symbols = 1 .. NSymbols(t) + 1
        /\ \A i \in 1 .. NSymbols(t) : u.symbols[i] = t.symbols[i]
        /\ u.symbols[NSymbols(t) + 1] = s
    BY <2>2, <2>3
  <2> HIDE DEF u
  <2>5. \A l : AllOfLen(t, l) \in SUBSET (1 .. NSymbols(t))
    BY <2>3 DEF AllOfLen
  <2>6. \A l : IsFiniteSet(AllOfLen(t, l)) /\ Cardinality(AllOfLen(t, l)) \in Nat
    <3>1. NSymbols(t) \in Int /\ 1 \in Int
      BY <2>3
    <3>2. IsFiniteSet(1 .. NSymbols(t))
      BY <3>1, FS_Interval
    <3> QED
      BY <2>5, <3>2, FS_Subset, FS_CardinalityType
  <2>7. ASSUME NEW l \in 1 .. MaxLength, l # Len(s)
        PROVE  AllOfLen(u, l) = AllOfLen(t, l)
    <3>1. \A i : i \in AllOfLen(u, l) <=> i \in 1 .. NSymbols(t) + 1 /\ Len(u.symbols[i]) = l
      BY <2>4 DEF AllOfLen
    <3>2. \A i : i \in AllOfLen(t, l) <=> i \in 1 .. NSymbols(t) /\ Len(t.symbols[i]) = l
      BY <2>3 DEF AllOfLen
    <3>3. \A i \in 1 .. NSymbols(t) + 1 : i \in 1 .. NSymbols(t) \/ i = NSymbols(t) + 1
      BY <2>3
    <3>4. \A i \in 1 .. NSymbols(t) : i \in 1 .. NSymbols(t) + 1
      BY <2>3
    <3>5. \A i : i \in AllOfLen(u, l) <=> i \in AllOfLen(t, l)
      BY <3>1, <3>2, <3>3, <3>4, <2>4, <2>7
    <3> QED
      BY <3>5 DEF AllOfLen
  <2>8. AllOfLen(u, Len(s)) = AllOfLen(t, Len(s)) \cup {NSymbols(t) + 1}
        /\ NSymbols(t) + 1 \notin AllOfLen(t, Len(s))
    <3>1. \A i : i \in AllOfLen(u, Len(s)) <=>
                   i \in 1 .. NSymbols(t) + 1 /\ Len(u.symbols[i]) = Len(s)
      BY <2>4 DEF AllOfLen
    <3>2. \A i : i \in AllOfLen(t, Len(s)) <=> i \in 1 .. NSymbols(t) /\ Len(t.symbols[i]) = Len(s)
      BY <2>3 DEF AllOfLen
    <3>3. /\ \A i \in 1 .. NSymbols(t) + 1 : i \in 1 .. NSymbols(t) \/ i = NSymbols(t) + 1
          /\ \A i \in 1 .. NSymbols(t) : i \in 1 .. NSymbols(t) + 1
          /\ NSymbols(t) + 1 \in 1 .. NSymbols(t) + 1 /\ NSymbols(t) + 1 \notin 1 .. NSymbols(t)
      BY <2>3
    <3>4. \A i : i \in AllOfLen(u, Len(s)) <=> i \in AllOfLen(t, Len(s)) \/ i = NSymbols(t) + 1
      BY <3>1, <3>2, <3>3, <2>4
    <3>5. NSymbols(t) + 1 \notin AllOfLen(t, Len(s))
      BY <3>2, <3>3
    <3>6. AllOfLen(u, Len(s)) = AllOfLen(t, Len(s)) \cup {NSymbols(t) + 1}
      <4> DEFINE A == AllOfLen(u, Len(s))
                 B == AllOfLen(t, Len(s))
      <4>1. \A i : i \in A <=> i \in B \/ i = NSymbols(t) + 1
        BY <3>4
      <4> HIDE DEF A, B
      <4>2. \A i : i \in A <=> i \in B \cup {NSymbols(t) + 1}
        BY <4>1
      <4>3. A \in SUBSET (B \cup {NSymbols(t) + 1}) /\ B \cup {NSymbols(t) + 1} \in SUBSET A
        BY <4>2
      <4> QED
        BY <4>3 DEF A, B
    <3> QED
      BY <3>5, <3>6
  <2>9. \A l \in 1 .. MaxLength : u.lenHisto[l] = Cardinality(AllOfLen(u, l))
    <3>1. /\ \A l \in 1 .. MaxLength : t.lenHisto[l] = Cardinality(AllOfLen(t, l))
          /\ DOMAIN t.lenHisto = 1 .. MaxLength
      BY DEF Ready, Counted
    <3>2. Cardinality(AllOfLen(u, Len(s))) = Cardinality(AllOfLen(t, Len(s))) + 1
      <4> DEFINE B == AllOfLen(t, Len(s))
      <4>1. IsFiniteSet(B) /\ NSymbols(t) + 1 \notin B
        BY <2>6, <2>8
      <4> HIDE DEF B
      <4>2. Cardinality(B \cup {NSymbols(t) + 1}) = Cardinality(B) + 1
        BY <4>1, FS_AddElement
      <4> QED
        BY <4>2, <2>8 DEF B
    <3>3. \A l \in 1 .. MaxLength :
            u.lenHisto[l] = IF l = Len(s) THEN t.lenHisto[l] + 1 ELSE t.lenHisto[l]
      BY <2>2, <2>3, <3>1
    <3>4. t.lenHisto[Len(s)] = Cardinality(AllOfLen(t, Len(s)))
      BY <2>3, <3>1
    <3> QED
      BY <2>7, <3>1, <3>2, <3>3, <3>4
  <2>10. Counted(u)
    <3>1. u.lenHisto = [l \in 1 .. MaxLength |-> u.lenHisto[l]]
      <4>1. DOMAIN t.lenHisto = 1 .. MaxLength
        BY DEF Ready, Counted
      <4> QED
        BY <2>2, <4>1
    <3> QED
      BY <2>9, <3>1 DEF Counted
  <2>11. Terminated(u)
    <3>1. u.symbols[1] = <<t.terminator>>
      <4>1. CASE NSymbols(t) = 0
        BY <4>1, <2>4, <1>0
      <4>2. CASE NSymbols(t) # 0
        <5>1. 1 \in 1 .. NSymbols(t)
          BY <4>2, <2>3
        <5>2. t.symbols # <<>>
          BY <4>2 DEF NSymbols
        <5> QED
          BY <5>1, <5>2, <2>4 DEF Ready, Terminated
      <4> QED
        BY <4>1, <4>2
    <3> QED
      BY <3>1, <2>2 DEF Ready, Terminated
  <2> QED
    BY <2>1, <2>10, <2>11 DEF Ready, u
<1> QED
  BY <1>1, <1>2

--------------------------------------------------------------------------------
(* The runs of the importer are the groups of finalize.                    *)
LEMMA RunsAreGroups ==
  ASSUME NEW t, Ready(t), NSymbols(t) > 0, NEW u, u = FinalizeTable(t),
         NEW buf, buf = ExportTable(u), NEW len \in 1 .. MaxLength
  PROVE  /\ RunLength(buf, len) = Cardinality(OfLen(t, len))
         /\ RunStart(buf, len) = GroupStart(t, len)
<1>1. buf.lenHisto = t.lenHisto /\ buf.zeroTerminated = t.zeroTerminated
  BY FinalFields DEF ExportTable, Ready, Agrees
<1>2. /\ t.zeroTerminated \in BOOLEAN /\ MaxLength \in Nat /\ MaxLength >= 3
      /\ ZT(t) = IF buf.zeroTerminated THEN 1 ELSE 0
  BY <1>1, TableAssumption DEF Ready, Terminated, ZT
<1>3. \A l \in 1 .. MaxLength : RunLength(buf, l) = Cardinality(OfLen(t, l))
  <2>1. t.lenHisto[1] = Cardinality(OfLen(t, 1)) + ZT(t) /\ Cardinality(OfLen(t, 1)) \in Nat
    BY HistoType, OfLenType
  <2>2. RunLength(buf, 1) = Cardinality(OfLen(t, 1))
    BY <2>1, <1>1, <1>2 DEF RunLength
  <2>3. ASSUME NEW l \in 2 .. MaxLength PROVE RunLength(buf, l) = Cardinality(OfLen(t, l))
    BY <1>1, HistoType DEF RunLength
  <2> QED
    BY <2>2, <2>3
<1>4. \A l \in 2 .. MaxLength : RunLength(buf, l) = t.lenHisto[l] /\ t.lenHisto[l] \in Int
  BY <1>3, HistoType, OfLenType
<1>5. ASSUME NEW last \in 1 .. MaxLength
      PROVE  SumFunctionOnSet([l \in 2 .. last |-> RunLength(buf, l)], 2 .. last)
               = SumFunctionOnSet(t.lenHisto, 2 .. last)
  <2> DEFINE f == [l \in 2 .. last |-> RunLength(buf, l)]
             h == t.lenHisto
  <2>1. IsFiniteSet(2 .. last)
    <3>1. 2 \in Int /\ last \in Int
      BY <1>2
    <3> QED
      BY <3>1, FS_Interval
  <2>2. \A x \in 2 .. last : f[x] \in Int /\ h[x] = f[x]
    BY <1>2, <1>4
  <2> HIDE DEF f, h
  <2>3. SumFunctionOnSet(f, 2 .. last) = SumFunctionOnSet(h, 2 .. last)
    BY <2>1, <2>2, SumEqual
  <2> QED
    BY <2>3 DEF f, h
<1>6. CASE len = 1
  <2>1. RunStart(buf, len) = ZT(t) + SumFunctionOnSet(t.lenHisto, 2 .. MaxLength)
    BY <1>2, <1>5, <1>6 DEF RunStart
  <2>2. GroupStart(t, MaxLength + 1) = ZT(t) + SumFunctionOnSet(t.lenHisto, 2 .. MaxLength)
    <3>1. (MaxLength + 1) - 1 = MaxLength /\ MaxLength + 1 # 1
      BY <1>2
    <3> QED
      BY <3>1 DEF GroupStart
  <2>3. GroupStart(t, 1) = GroupStart(t, MaxLength + 1)
    BY ByteGroup
  <2> QED
    BY <2>1, <2>2, <2>3, <1>3, <1>6
<1>7. CASE len # 1
  <2>1. len - 1 \in 1 .. MaxLength
    BY <1>2, <1>7
  <2>2. RunStart(buf, len) = ZT(t) + SumFunctionOnSet(t.lenHisto, 2 .. len - 1)
    BY <1>2, <1>5, <1>7, <2>1 DEF RunStart
  <2> QED
    BY <2>2, <1>3, <1>7 DEF GroupStart
<1> QED
  BY <1>6, <1>7

(* Which run a code is in.                                                 *)
LEMMA RunOf ==
  ASSUME NEW t, Ready(t), NSymbols(t) > 0, NEW u, u = FinalizeTable(t),
         NEW buf, buf = ExportTable(u), NEW c \in Nat, NEW len \in 1 .. MaxLength
  PROVE  InRun(buf, c, len) <=>
           c \in ZT(t) .. NSymbols(t) - 1 /\ len = Len(u.symbols[c + 1])
<1>1. InRun(buf, c, len) <=> InGroup(t, len, c)
  BY RunsAreGroups DEF InRun, InGroup
<1>2. /\ NSymbols(t) \in Nat /\ ZT(t) \in {0, 1} /\ MaxLength \in Nat /\ MaxLength >= 3
      /\ \A l : Cardinality(OfLen(t, l)) \in Nat
      /\ GroupStart(t, 1) = ByteLim(t) /\ ByteLim(t) = GroupStart(t, MaxLength + 1)
      /\ ByteLim(t) \in Nat /\ ByteLim(t) + Cardinality(OfLen(t, 1)) = NSymbols(t)
  BY SymbolsType, OfLenType, ByteGroup
<1>3. \A l \in 2 .. MaxLength + 1 : GroupStart(t, l) >= ZT(t)
  <2>1. ASSUME NEW l \in 2 .. MaxLength + 1 PROVE GroupStart(t, l) >= ZT(t)
    <3>1. GroupStart(t, l) = ZT(t) + Cardinality(Between(t, l))
      BY GroupCounts
    <3>2. IsFiniteSet(Moved(t)) /\ Between(t, l) \in SUBSET Moved(t)
      BY OfLenType DEF Between
    <3>3. Cardinality(Between(t, l)) \in Nat
      BY <3>2, FS_Subset, FS_CardinalityType
    <3> QED
      BY <3>1, <3>3, <1>2
  <2> QED
    BY <2>1
<1>4. ASSUME InGroup(t, len, c) PROVE c \in ZT(t) .. NSymbols(t) - 1
  <2>1. CASE len = 1
    <3>1. MaxLength + 1 \in 2 .. MaxLength + 1
      BY <1>2
    <3>2. ByteLim(t) >= ZT(t)
      BY <3>1, <1>2, <1>3
    <3> QED
      BY <2>1, <3>2, <1>2, <1>4 DEF InGroup
  <2>2. CASE len # 1
    <3>1. len \in 2 .. MaxLength /\ MaxLength + 1 \in 2 .. MaxLength + 1 /\ len < MaxLength + 1
          /\ len \in 2 .. MaxLength + 1
      BY <2>2, <1>2
    <3>2. GroupStart(t, len) + Cardinality(OfLen(t, len)) <= ByteLim(t) /\ GroupStart(t, len) \in Nat
      BY <3>1, <1>2, GroupOrder
    <3>3. GroupStart(t, len) >= ZT(t)
      BY <3>1, <1>3
    <3> DEFINE g == GroupStart(t, len)
               k == Cardinality(OfLen(t, len))
               k1 == Cardinality(OfLen(t, 1))
    <3>4. /\ g \in Nat /\ k \in Nat /\ k1 \in Nat /\ g >= ZT(t) /\ g + k <= ByteLim(t)
          /\ ByteLim(t) + k1 = NSymbols(t) /\ g <= c /\ c < g + k
      BY <3>2, <3>3, <1>2, <1>4 DEF InGroup
    <3> HIDE DEF g, k, k1
    <3> QED
      BY <3>4, <1>2
  <2> QED
    BY <2>1, <2>2
<1>5. ASSUME c \in ZT(t) .. NSymbols(t) - 1
      PROVE  Len(u.symbols[c + 1]) \in 1 .. MaxLength /\ InGroup(t, Len(u.symbols[c + 1]), c)
  <2>1. c \in 0 .. NSymbols(t) - 1
    BY <1>2, <1>5
  <2>2. PICK i \in DOMAIN t.symbols : NewCode(t)[i] = c
    BY <2>1, CodesOnto
  <2>3. i \in Moved(t)
    <3>1. NewCode(t)[i] >= ZT(t)
      BY <2>2, <1>2, <1>5
    <3> QED
      BY <3>1, CodeBound
  <2>4. InGroup(t, Len(t.symbols[i]), c) /\ u.symbols[c + 1] = t.symbols[i]
    BY <2>2, <2>3, CodeRange, FinalSymbols
  <2>5. Len(t.symbols[i]) \in 1 .. MaxLength
    BY SymbolsType
  <2> QED
    BY <2>4, <2>5
<1>6. ASSUME InGroup(t, len, c), NEW m \in 1 .. MaxLength, InGroup(t, m, c) PROVE len = m
  <2>1. ~ Earlier(len, m) /\ ~ Earlier(m, len)
    <3>1. ~ (c < c)
      OBVIOUS
    <3> QED
      BY <3>1, <1>6, GroupsApart
  <2> QED
    BY <2>1 DEF Earlier
<1> QED
  BY <1>1, <1>4, <1>5, <1>6

--------------------------------------------------------------------------------
(* Where the importer reads: the length of a symbol further with each code *)
(* of a symbol that was written.                                           *)
Read(buf, c, len) == len * Cardinality({d \in 0 .. c - 1 : InRun(buf, d, len)})

(* The codes of one length, counted one code further.                      *)
LEMMA ReadNext ==
  ASSUME NEW buf, NEW c \in Nat, NEW len \in Nat
  PROVE  /\ Read(buf, 0, len) = 0
         /\ Read(buf, c, len) \in Nat
         /\ Read(buf, c + 1, len) = IF InRun(buf, c, len) THEN Read(buf, c, len) + len
                                    ELSE Read(buf, c, len)
<1> DEFINE D(k) == {d \in 0 .. k - 1 : InRun(buf, d, len)}
<1>1. \A k \in Nat : IsFiniteSet(D(k)) /\ Cardinality(D(k)) \in Nat
  <2>1. ASSUME NEW k \in Nat PROVE IsFiniteSet(D(k)) /\ Cardinality(D(k)) \in Nat
    <3>1. IsFiniteSet(0 .. k - 1) /\ D(k) \in SUBSET (0 .. k - 1)
      <4>1. 0 \in Int /\ k - 1 \in Int
        OBVIOUS
      <4> QED
        BY <4>1, FS_Interval
    <3> QED
      BY <3>1, FS_Subset, FS_CardinalityType
  <2> QED
    BY <2>1
<1>2. D(0) = {} /\ Cardinality({}) = 0
  BY FS_EmptySet
<1>3. D(c + 1) = IF InRun(buf, c, len) THEN D(c) \cup {c} ELSE D(c)
  <2>1. ~ InRun(buf, c, len) => D(c + 1) = D(c)
    OBVIOUS
  <2>2. InRun(buf, c, len) => D(c + 1) = D(c) \cup {c}
    OBVIOUS
  <2> QED
    BY <2>1, <2>2
<1>4. c \notin D(c)
  OBVIOUS
<1>5. \A k : Read(buf, k, len) = len * Cardinality(D(k))
  BY DEF Read
<1> HIDE DEF D
<1>6. IsFiniteSet(D(c)) /\ Cardinality(D(c)) \in Nat
  BY <1>1
<1>7. InRun(buf, c, len) => Cardinality(D(c + 1)) = Cardinality(D(c)) + 1
  BY <1>3, <1>4, <1>6, FS_AddElement
<1>8. ~ InRun(buf, c, len) => Cardinality(D(c + 1)) = Cardinality(D(c))
  BY <1>3
<1>9. len * (Cardinality(D(c)) + 1) = len * Cardinality(D(c)) + len /\ len * Cardinality(D(c)) \in Nat
  BY <1>6
<1>10. Read(buf, 0, len) = len * 0 /\ len * 0 = 0
  BY <1>2, <1>5
<1> QED
  BY <1>5, <1>7, <1>8, <1>9, <1>10

(* Where it reads, for each code.                                          *)
LEMMA ReadAt ==
  ASSUME NEW t, Ready(t), NSymbols(t) > 0, NEW u, u = FinalizeTable(t),
         NEW buf, buf = ExportTable(u)
  PROVE  /\ ReadBefore(buf, 0) = 0
         /\ \A c \in Nat : ReadBefore(buf, c) \in Nat
         /\ \A c \in Nat : ReadBefore(buf, c + 1) =
              ReadBefore(buf, c) + (IF c \in ZT(t) .. NSymbols(t) - 1
                                      THEN Len(u.symbols[c + 1]) ELSE 0)
<1> DEFINE S == 1 .. MaxLength
           f(c) == [len \in S |-> Read(buf, c, len)]
<1>1. IsFiniteSet(S) /\ \A len \in S : len \in Nat
  <2>1. 1 \in Int /\ MaxLength \in Int
    BY TableAssumption
  <2> QED
    BY <2>1, FS_Interval
<1>2. \A c : ReadBefore(buf, c) = SumFunctionOnSet(f(c), S)
  BY DEF ReadBefore, Read
<1>3. \A c \in Nat : \A len \in S : f(c)[len] \in Nat /\ f(c)[len] = Read(buf, c, len)
  BY <1>1, ReadNext
<1>4. \A len \in S : f(0)[len] = 0
  BY <1>1, ReadNext
<1>5. \A c \in Nat : \A len \in S :
        f(c + 1)[len] = IF c \in ZT(t) .. NSymbols(t) - 1 /\ len = Len(u.symbols[c + 1])
                          THEN f(c)[len] + len ELSE f(c)[len]
  <2>1. ASSUME NEW c \in Nat, NEW len \in S
        PROVE  f(c + 1)[len] = IF c \in ZT(t) .. NSymbols(t) - 1 /\ len = Len(u.symbols[c + 1])
                                 THEN f(c)[len] + len ELSE f(c)[len]
    <3>1. f(c + 1)[len] = Read(buf, c + 1, len) /\ f(c)[len] = Read(buf, c, len)
      BY <1>3
    <3>2. Read(buf, c + 1, len) = IF InRun(buf, c, len) THEN Read(buf, c, len) + len
                                  ELSE Read(buf, c, len)
      BY <1>1, ReadNext
    <3>3. InRun(buf, c, len) <=> c \in ZT(t) .. NSymbols(t) - 1 /\ len = Len(u.symbols[c + 1])
      BY RunOf
    <3> HIDE DEF f
    <3> QED
      BY <3>1, <3>2, <3>3
  <2> QED
    BY <2>1
<1>6. \A c \in ZT(t) .. NSymbols(t) - 1 : Len(u.symbols[c + 1]) \in S
  <2>1. /\ u.symbols \in Seq(Symbol) /\ Len(u.symbols) = NSymbols(t) /\ NSymbols(t) \in Nat
        /\ ZT(t) \in {0, 1}
    BY FinalSymbols, SymbolsType DEF NSymbols
  <2>2. \A c \in ZT(t) .. NSymbols(t) - 1 : u.symbols[c + 1] \in Symbol
    BY <2>1
  <2> QED
    BY <2>2, SymbolIsSeq
<1> HIDE DEF S, f
<1>7. ReadBefore(buf, 0) = 0
  BY <1>1, <1>2, <1>4, SumOfZeros
<1>8. ASSUME NEW c \in Nat PROVE ReadBefore(buf, c) \in Nat
  BY <1>1, <1>2, <1>3, SumNat
<1>9. ASSUME NEW c \in Nat
      PROVE  ReadBefore(buf, c + 1) =
               ReadBefore(buf, c) + (IF c \in ZT(t) .. NSymbols(t) - 1
                                       THEN Len(u.symbols[c + 1]) ELSE 0)
  <2> DEFINE g == f(c)
             h == f(c + 1)
             l == Len(u.symbols[c + 1])
  <2>1. /\ ReadBefore(buf, c) = SumFunctionOnSet(g, S)
        /\ ReadBefore(buf, c + 1) = SumFunctionOnSet(h, S)
    BY <1>2
  <2>2. \A y \in S : g[y] \in Int /\ h[y] \in Int
    BY <1>3
  <2>3. ReadBefore(buf, c) \in Nat
    BY <1>8
  <2>4. CASE c \notin ZT(t) .. NSymbols(t) - 1
    <3>1. \A y \in S : h[y] = g[y]
      BY <2>4, <1>5
    <3> HIDE DEF g, h
    <3>2. SumFunctionOnSet(g, S) = SumFunctionOnSet(h, S)
      BY <3>1, <2>2, <1>1, SumEqual
    <3> QED
      BY <3>2, <2>1, <2>3, <2>4
  <2>5. CASE c \in ZT(t) .. NSymbols(t) - 1
    <3>1. l \in S /\ l \in Nat /\ h[l] = g[l] + l /\ \A y \in S \ {l} : h[y] = g[y]
      BY <2>5, <1>1, <1>5, <1>6
    <3>2. g[l] \in Int
      BY <3>1, <2>2
    <3>3. c \in ZT(t) .. NSymbols(t) - 1 /\ l = Len(u.symbols[c + 1])
      BY <2>5
    <3> HIDE DEF g, h, l
    <3>4. SumFunctionOnSet(h, S) = SumFunctionOnSet(g, S) + (h[l] - g[l])
      BY <3>1, <2>2, <1>1, SumDiffers
    <3>5. h[l] - g[l] = l
      BY <3>1, <3>2
    <3>6. ReadBefore(buf, c + 1) = ReadBefore(buf, c) + l
      BY <3>4, <3>5, <2>1
    <3> QED
      BY <3>3, <3>6
  <2> QED
    BY <2>4, <2>5
<1> QED
  BY <1>7, <1>8, <1>9

--------------------------------------------------------------------------------
(* Sequences that are written one behind the other.                        *)
Joins(ss, f, n) == \A i \in 1 .. n : f[i] = IF i = 1 THEN ss[i] ELSE f[i - 1] \o ss[i]

Joined(ss) ==
  CHOOSE f : f = [i \in 1 .. Len(ss) |-> IF i = 1 THEN ss[i] ELSE f[i - 1] \o ss[i]]

(* The recursive function of FlattenSeq exists.                            *)
LEMMA JoinedExists ==
  ASSUME NEW ss, Len(ss) \in Nat
  PROVE  Joins(ss, Joined(ss), Len(ss))
<1> DEFINE n == Len(ss)
           Step(f, i) == IF i = 1 THEN ss[i] ELSE f[i - 1] \o ss[i]
           T == {m \in Nat : \E f : f = [i \in 1 .. n |-> f[i]] /\
                               \A i \in 1 .. n : i <= m => f[i] = Step(f, i)}
<1>0. n \in Nat
  OBVIOUS
<1>1. 0 \in T
  <2> DEFINE f == [i \in 1 .. n |-> 0]
  <2>1. f = [i \in 1 .. n |-> f[i]] /\ \A i \in 1 .. n : ~ (i <= 0)
    BY <1>0
  <2> HIDE DEF f, Step
  <2> QED
    BY <2>1
<1>2. ASSUME NEW m \in Nat, m \in T PROVE m + 1 \in T
  <2>1. PICK f : f = [i \in 1 .. n |-> f[i]] /\ \A i \in 1 .. n : i <= m => f[i] = Step(f, i)
    BY <1>2
  <2> DEFINE g == [i \in 1 .. n |-> Step(f, i)]
  <2>2. \A i \in 1 .. n : g[i] = Step(f, i)
    BY Zenon
  <2>3. \A i \in 1 .. n : i <= m => g[i] = f[i]
    BY <2>1, <2>2
  <2>4. g = [i \in 1 .. n |-> g[i]]
    OBVIOUS
  <2> HIDE DEF g
  <2>5. ASSUME NEW i \in 1 .. n, i <= m + 1 PROVE g[i] = Step(g, i)
    <3>1. CASE i = 1
      BY <2>2, <3>1
    <3>2. CASE i # 1
      <4>1. i - 1 \in 1 .. n /\ i - 1 <= m
        BY <2>5, <3>2
      <4>2. g[i - 1] = f[i - 1]
        BY <4>1, <2>3
      <4> QED
        BY <4>2, <2>2, <3>2
    <3> QED
      BY <3>1, <3>2
  <2> HIDE DEF Step
  <2>6. \E h : h = [i \in 1 .. n |-> h[i]] /\ \A i \in 1 .. n : i <= m + 1 => h[i] = Step(h, i)
    BY <2>4, <2>5, Zenon
  <2>7. m + 1 \in Nat
    OBVIOUS
  <2> QED
    BY <2>6, <2>7, Zenon
<1>3. n \in T
  <2> HIDE DEF T
  <2> QED
    BY <1>1, <1>2, SetInduction
<1>4. PICK f : f = [i \in 1 .. n |-> f[i]] /\ \A i \in 1 .. n : i <= n => f[i] = Step(f, i)
  BY <1>3
<1>5. f = [i \in 1 .. n |-> Step(f, i)]
  <2>1. \A i \in 1 .. n : f[i] = Step(f, i)
    <3> HIDE DEF Step
    <3>1. \A i \in 1 .. n : i <= n
      BY <1>0
    <3> QED
      BY <1>4, <3>1
  <2> DEFINE g == [i \in 1 .. n |-> Step(f, i)]
  <2>2. g = [i \in 1 .. n |-> g[i]] /\ \A i \in 1 .. n : g[i] = Step(f, i)
    OBVIOUS
  <2>3. f = [i \in 1 .. n |-> f[i]]
    BY <1>4
  <2> HIDE DEF g, Step
  <2>4. \A i \in 1 .. n : f[i] = g[i]
    BY <2>1, <2>2
  <2>5. f = g
    BY <2>2, <2>3, <2>4
  <2> QED
    BY <2>5 DEF g
<1>6. Joined(ss) = [i \in 1 .. n |-> Step(Joined(ss), i)]
  BY <1>5, Zenon DEF Joined
<1> QED
  BY <1>6, Zenon DEF Joins

(* FlattenSeq is the last of these functions' values.                      *)
LEMMA FlattenIsJoined ==
  ASSUME NEW ss, Len(ss) # 0
  PROVE  FlattenSeq(ss) = Joined(ss)[Len(ss)]
BY Zenon DEF FlattenSeq, Joined

(* Sequences with the same elements are the same.                          *)
LEMMA SameElements ==
  ASSUME NEW S, NEW a \in Seq(S), NEW b \in Seq(S), Len(a) = Len(b),
         \A i \in 1 .. Len(a) : a[i] = b[i]
  PROVE  a = b
<1>1. Len(a) \in Nat /\ DOMAIN a = 1 .. Len(a) /\ DOMAIN b = 1 .. Len(b)
  OBVIOUS
<1>2. a = [i \in 1 .. Len(a) |-> a[i]] /\ b = [i \in 1 .. Len(b) |-> b[i]]
  OBVIOUS
<1> QED
  BY <1>1, <1>2

(* The two parts of a concatenation.                                       *)
Concatenates(S, a, b, c) ==
  /\ c \in Seq(S) /\ Len(c) = Len(a) + Len(b)
  /\ \A j \in 1 .. Len(a) : c[j] = a[j]
  /\ \A k \in 1 .. Len(b) : c[Len(a) + k] = b[k]

LEMMA ConcatParts ==
  ASSUME NEW S, NEW a \in Seq(S), NEW b \in Seq(S)
  PROVE  Concatenates(S, a, b, a \o b)
BY DEF Concatenates

(* Each part is found where it begins.                                     *)
PartsFound(S, ss, at, whole) ==
  /\ whole \in Seq(S)
  /\ Len(whole) = at[Len(ss)]
  /\ \A i \in 1 .. Len(ss) :
       /\ at[i] <= at[Len(ss)]
       /\ \A k \in 1 .. Len(ss[i]) : whole[at[i - 1] + k] = ss[i][k]

LEMMA FlattenParts ==
  ASSUME NEW S, NEW ss \in Seq(Seq(S)), NEW at \in [0 .. Len(ss) -> Nat], at[0] = 0,
         \A i \in 1 .. Len(ss) : at[i] = at[i - 1] + Len(ss[i])
  PROVE  PartsFound(S, ss, at, FlattenSeq(ss))
<1> DEFINE n == Len(ss)
           f == Joined(ss)
           Part(m, i) == /\ at[i] <= at[m]
                         /\ \A k \in 1 .. Len(ss[i]) : f[m][at[i - 1] + k] = ss[i][k]
           T == {m \in Nat : m \in 1 .. n =>
                   /\ f[m] \in Seq(S) /\ Len(f[m]) = at[m]
                   /\ \A i \in 1 .. m : Part(m, i)}
<1>0. n \in Nat /\ Joins(ss, f, n) /\ \A i \in 1 .. n : ss[i] \in Seq(S) /\ Len(ss[i]) \in Nat
  BY JoinedExists
<1> HIDE DEF f
<1>1. 0 \in T
  OBVIOUS
<1>2. ASSUME NEW m \in Nat, m \in T PROVE m + 1 \in T
  <2> SUFFICES ASSUME m + 1 \in 1 .. n
               PROVE  /\ f[m + 1] \in Seq(S) /\ Len(f[m + 1]) = at[m + 1]
                      /\ \A i \in 1 .. m + 1 : Part(m + 1, i)
    OBVIOUS
  <2>1. ss[m + 1] \in Seq(S) /\ (m + 1) - 1 = m
    BY <1>0
  <2>2. at[m + 1] = at[m] + Len(ss[m + 1]) /\ at[m] \in Nat /\ at[m + 1] \in Nat
    <3>1. m \in 0 .. Len(ss) /\ m + 1 \in 0 .. Len(ss) /\ m + 1 \in 1 .. Len(ss)
      BY <1>0
    <3> QED
      BY <3>1, <2>1
  <2>3. CASE m = 0
    <3>1. f[m + 1] = ss[m + 1]
      BY <2>3, <1>0 DEF Joins
    <3>2. Len(f[m + 1]) = at[m + 1] /\ at[m] = 0
      BY <3>1, <2>1, <2>2, <2>3
    <3>3. ASSUME NEW i \in 1 .. m + 1 PROVE Part(m + 1, i)
      <4>1. i = m + 1 /\ i - 1 = m
        BY <2>3, <2>1
      <4>2. \A k \in 1 .. Len(ss[i]) : at[i - 1] + k = k
        BY <4>1, <3>2
      <4>3. at[i] <= at[m + 1]
        <5> DEFINE q == at[m + 1]
        <5>1. q \in Nat /\ q <= q
          BY <2>2
        <5> QED
          BY <5>1, <4>1
      <4>4. \A k \in 1 .. Len(ss[i]) : f[m + 1][at[i - 1] + k] = ss[i][k]
        BY <4>1, <4>2, <3>1
      <4> QED
        BY <4>3, <4>4
    <3> QED
      BY <3>1, <3>2, <3>3, <2>1
  <2>4. CASE m # 0
    <3>1. m \in 1 .. n /\ m + 1 # 1
      BY <2>4, <1>0
    <3>2. f[m + 1] = f[m] \o ss[m + 1]
      BY <3>1, <2>1, <1>0 DEF Joins
    <3>3. f[m] \in Seq(S) /\ Len(f[m]) = at[m] /\ \A i \in 1 .. m : Part(m, i)
      BY <3>1, <1>2
    <3> DEFINE a == f[m]
               b == ss[m + 1]
    <3>4. a \in Seq(S) /\ b \in Seq(S) /\ f[m + 1] = a \o b /\ Len(a) = at[m]
      BY <3>2, <3>3, <2>1
    <3> HIDE DEF a, b
    <3>5. /\ f[m + 1] \in Seq(S) /\ Len(f[m + 1]) = Len(a) + Len(b)
          /\ \A j \in 1 .. Len(a) : f[m + 1][j] = a[j]
          /\ \A k \in 1 .. Len(b) : f[m + 1][Len(a) + k] = b[k]
      <4>1. a \in Seq(S) /\ b \in Seq(S)
        BY <3>4
      <4>2. /\ a \o b \in Seq(S) /\ Len(a \o b) = Len(a) + Len(b)
            /\ \A j \in 1 .. Len(a) : (a \o b)[j] = a[j]
            /\ \A k \in 1 .. Len(b) : (a \o b)[Len(a) + k] = b[k]
        BY <4>1, ConcatParts DEF Concatenates
      <4> QED
        BY <3>4, <4>2, Zenon
    <3>6. ASSUME NEW i \in 1 .. m PROVE Part(m + 1, i)
      <4>1. /\ at[i] <= at[m] /\ \A k \in 1 .. Len(ss[i]) : a[at[i - 1] + k] = ss[i][k]
        BY <3>3 DEF a
      <4>2. /\ at[i] \in Nat /\ at[i - 1] \in Nat /\ at[i] = at[i - 1] + Len(ss[i])
            /\ Len(ss[i]) \in Nat /\ Len(b) \in Nat /\ at[m + 1] = at[m] + Len(b)
        <5>1. i \in 1 .. Len(ss) /\ i \in 0 .. Len(ss) /\ i - 1 \in 0 .. Len(ss)
          BY <3>1
        <5> QED
          BY <5>1, <1>0, <2>2, <3>4 DEF b
      <4>3. \A k \in 1 .. Len(ss[i]) : at[i - 1] + k \in 1 .. Len(a)
        <5> DEFINE p == at[i - 1]
                   q == at[i]
                   r == at[m]
                   l == Len(ss[i])
        <5>1. p \in Nat /\ q = p + l /\ l \in Nat /\ q <= r /\ r \in Nat /\ Len(a) = r
          BY <4>1, <4>2, <3>4, <2>2
        <5> HIDE DEF p, q, r, l, a
        <5>2. \A k \in 1 .. l : p + k \in 1 .. Len(a)
          BY <5>1
        <5> QED
          BY <5>2 DEF p, l
      <4>4. \A k \in 1 .. Len(ss[i]) : f[m + 1][at[i - 1] + k] = ss[i][k]
        BY <4>1, <4>3, <3>5
      <4>5. at[i] <= at[m + 1]
        <5> DEFINE q == at[i]
                   r == at[m]
                   v == at[m + 1]
                   l == Len(b)
        <5>1. q \in Nat /\ r \in Nat /\ l \in Nat /\ q <= r /\ v = r + l
          BY <4>1, <4>2, <2>2
        <5> HIDE DEF q, r, v, l
        <5>2. q <= v
          BY <5>1
        <5> QED
          BY <5>2 DEF q, v
      <4> QED
        BY <4>4, <4>5
    <3>7. Part(m + 1, m + 1)
      <4>1. \A k \in 1 .. Len(ss[m + 1]) : f[m + 1][at[m] + k] = ss[m + 1][k]
        BY <3>4, <3>5 DEF b
      <4> DEFINE q == at[m + 1]
                 before == (m + 1) - 1
      <4>2. q \in Nat /\ before = m
        BY <2>1, <2>2
      <4> HIDE DEF q, before
      <4>3. q <= q /\ \A k \in 1 .. Len(ss[m + 1]) : f[m + 1][at[before] + k] = ss[m + 1][k]
        BY <4>1, <4>2
      <4> QED
        BY <4>3 DEF q, before
    <3>8. Len(f[m + 1]) = at[m + 1]
      BY <3>4, <3>5, <2>2 DEF b
    <3>9. \A i \in 1 .. m + 1 : i \in 1 .. m \/ i = m + 1
      OBVIOUS
    <3> HIDE DEF Part
    <3> QED
      BY <3>5, <3>6, <3>7, <3>8, <3>9
  <2> HIDE DEF Part
  <2> QED
    BY <2>3, <2>4
<1>3. \A m \in Nat : m \in T
  <2> HIDE DEF T
  <2> QED
    BY <1>1, <1>2, SetInduction
<1>4. CASE n = 0
  <2>1. FlattenSeq(ss) = <<>>
    BY <1>4, <1>0 DEF FlattenSeq
  <2> QED
    BY <2>1, <1>4 DEF PartsFound
<1>5. CASE n # 0
  <2>1. n \in T /\ n \in 1 .. n
    BY <1>0, <1>3, <1>5
  <2>2. FlattenSeq(ss) = f[n]
    BY <1>5, FlattenIsJoined DEF f
  <2>3. PartsFound(S, ss, at, f[n])
    <3> HIDE DEF f
    <3> QED
      BY <2>1 DEF PartsFound
  <2> QED
    BY <2>2, <2>3
<1> QED
  BY <1>4, <1>5

--------------------------------------------------------------------------------
(* The first code of a zero-terminated table is the terminator's.          *)
LEMMA FirstCode ==
  ASSUME NEW t, Ready(t), NSymbols(t) > 0, NEW u, u = FinalizeTable(t), t.zeroTerminated
  PROVE  u.symbols[1] = <<0>> /\ ZT(t) = 1
<1>1. ZT(t) = 1 /\ 1 \in DOMAIN t.symbols /\ 1 \notin Moved(t)
  BY SymbolsType DEF ZT, Moved
<1>2. NewCode(t)[1] = 0
  BY <1>1, NewCodeOf
<1>3. u.symbols[NewCode(t)[1] + 1] = t.symbols[1]
  BY <1>1, FinalSymbols
<1>4. t.symbols[1] = <<0>>
  BY <1>1 DEF Ready, Terminated
<1> QED
  BY <1>1, <1>2, <1>3, <1>4

(* The bytes that were written, and where the importer finds each symbol.  *)
LEMMA BytesJoined ==
  ASSUME NEW t, Ready(t), NSymbols(t) > 0, NEW u, u = FinalizeTable(t),
         NEW buf, buf = ExportTable(u)
  PROVE  /\ buf.bytes \in Seq(Byte)
         /\ Len(buf.bytes) = ReadBefore(buf, NSymbols(t))
         /\ \A c \in ZT(t) .. NSymbols(t) - 1 :
              /\ ReadBefore(buf, c) + Len(u.symbols[c + 1]) <= Len(buf.bytes)
              /\ \A k \in 1 .. Len(u.symbols[c + 1]) :
                   buf.bytes[ReadBefore(buf, c) + k] = u.symbols[c + 1][k]
<1> DEFINE z == ZT(t)
           n == NSymbols(t)
           us == u.symbols
           ss == SubSeq(us, z + 1, n)
           at == [i \in 0 .. n - z |-> ReadBefore(buf, z + i)]
<1>1. /\ z \in {0, 1} /\ n \in Nat /\ n >= 1 /\ us \in Seq(Symbol) /\ Len(us) = n
      /\ NSymbols(u) = n /\ ZT(u) = z
  BY SymbolsType, FinalSymbols, FinalLimits DEF NSymbols
<1>2. buf.bytes = FlattenSeq(ss)
  BY <1>1 DEF ExportTable
<1>3. /\ ReadBefore(buf, 0) = 0
      /\ \A c \in Nat : ReadBefore(buf, c) \in Nat
      /\ \A c \in Nat : ReadBefore(buf, c + 1) =
           ReadBefore(buf, c) + (IF c \in z .. n - 1 THEN Len(us[c + 1]) ELSE 0)
  BY ReadAt
<1> HIDE DEF z, n, us
<1>4. /\ Len(ss) = n - z /\ n - z \in Nat
      /\ \A i \in 1 .. n - z : ss[i] = us[z + i] /\ z + i \in 1 .. n /\ ss[i] \in Symbol
  BY <1>1
<1>5. ss \in Seq(Seq(Byte))
  <2>1. \A i \in 1 .. n - z : ss[i] \in Seq(Byte)
    BY <1>4, SymbolIsSeq
  <2>2. ss \in Seq(Symbol)
    BY <1>1
  <2>3. \A i \in 1 .. Len(ss) : ss[i] \in Seq(Byte)
    BY <2>1, <1>4
  <2> HIDE DEF ss
  <2> QED
    BY <2>2, <2>3
<1>6. at \in [0 .. Len(ss) -> Nat]
  <2>1. \A i \in 0 .. n - z : z + i \in Nat
    BY <1>1
  <2>2. at \in [0 .. n - z -> Nat]
    BY <2>1, <1>3
  <2>3. Len(ss) = n - z
    BY <1>4
  <2> QED
    BY <2>2, <2>3, Zenon
<1>7. \A i \in 0 .. n - z : at[i] = ReadBefore(buf, z + i)
  OBVIOUS
<1> HIDE DEF ss, at
<1>8. at[0] = 0
  <2>1. ReadBefore(buf, 0 + 1) = ReadBefore(buf, 0) + (IF 0 \in z .. n - 1 THEN Len(us[0 + 1]) ELSE 0)
    BY <1>3
  <2>2. ReadBefore(buf, z) = 0
    <3>1. CASE z = 0
      BY <3>1, <1>3
    <3>2. CASE z = 1
      <4>1. 0 \notin z .. n - 1 /\ 0 + 1 = z
        BY <3>2
      <4> QED
        BY <4>1, <2>1, <1>3
    <3> QED
      BY <3>1, <3>2, <1>1
  <2> QED
    BY <2>2, <1>1, <1>4, <1>7
<1>9. \A i \in 1 .. Len(ss) : at[i] = at[i - 1] + Len(ss[i])
  <2>1. ASSUME NEW i \in 1 .. n - z PROVE at[i] = at[i - 1] + Len(ss[i])
    <3> DEFINE c == z + i - 1
    <3>1. /\ c \in Nat /\ c \in z .. n - 1 /\ c + 1 = z + i /\ c = z + (i - 1)
          /\ i - 1 \in 0 .. n - z /\ i \in 0 .. n - z
      BY <1>1
    <3> HIDE DEF c
    <3>2. at[i] = ReadBefore(buf, c + 1) /\ at[i - 1] = ReadBefore(buf, c)
      BY <3>1, <1>7
    <3>3. ReadBefore(buf, c + 1) = ReadBefore(buf, c) + Len(us[c + 1])
      BY <3>1, <1>3
    <3>4. ss[i] = us[c + 1]
      BY <3>1, <1>4
    <3> QED
      BY <3>2, <3>3, <3>4
  <2> QED
    BY <2>1, <1>4
<1>10. /\ FlattenSeq(ss) \in Seq(Byte)
       /\ Len(FlattenSeq(ss)) = at[Len(ss)]
       /\ \A i \in 1 .. Len(ss) :
            /\ at[i] <= at[Len(ss)]
            /\ \A k \in 1 .. Len(ss[i]) : FlattenSeq(ss)[at[i - 1] + k] = ss[i][k]
  <2> HIDE DEF ss, at
  <2>1. PartsFound(Byte, ss, at, FlattenSeq(ss))
    BY <1>5, <1>6, <1>8, <1>9, FlattenParts
  <2> QED
    BY <2>1 DEF PartsFound
<1>11. at[Len(ss)] = ReadBefore(buf, n)
  <2>1. n - z \in 0 .. n - z /\ z + (n - z) = n
    BY <1>1
  <2> QED
    BY <2>1, <1>4, <1>7
<1>12. ASSUME NEW c \in z .. n - 1
       PROVE  /\ ReadBefore(buf, c) + Len(us[c + 1]) <= Len(buf.bytes)
              /\ \A k \in 1 .. Len(us[c + 1]) :
                   buf.bytes[ReadBefore(buf, c) + k] = us[c + 1][k]
  <2> DEFINE i == c + 1 - z
  <2>1. /\ i \in 1 .. n - z /\ z + i = c + 1 /\ i - 1 \in 0 .. n - z /\ z + (i - 1) = c
        /\ i \in 0 .. n - z
    BY <1>1
  <2> HIDE DEF i
  <2>2. ss[i] = us[c + 1] /\ at[i - 1] = ReadBefore(buf, c)
    BY <2>1, <1>4, <1>7
  <2>3. i \in 1 .. Len(ss)
    BY <2>1, <1>4
  <2>4. at[i] = at[i - 1] + Len(ss[i])
    BY <2>3, <1>9
  <2> QED
    BY <2>2, <2>3, <2>4, <1>2, <1>10
<1> QED
  BY <1>2, <1>10, <1>11, <1>12 DEF z, n, us

(* Nothing is read for a code that no symbol has.                          *)
LEMMA ReadAll ==
  ASSUME NEW t, Ready(t), NSymbols(t) > 0, NEW u, u = FinalizeTable(t),
         NEW buf, buf = ExportTable(u)
  PROVE  ImportedBytes(buf) = ReadBefore(buf, NSymbols(t))
<1> DEFINE n == NSymbols(t)
           T == {k \in Nat : ReadBefore(buf, n + k) = ReadBefore(buf, n)}
<1>1. n \in Nat /\ n <= ESC /\ ESC \in Nat
  BY SymbolsType, TableAssumption DEF MaxSymbols, ESC
<1>2. /\ \A c \in Nat : ReadBefore(buf, c) \in Nat
      /\ \A c \in Nat : ReadBefore(buf, c + 1) =
           ReadBefore(buf, c) + (IF c \in ZT(t) .. n - 1 THEN Len(u.symbols[c + 1]) ELSE 0)
  BY ReadAt
<1> HIDE DEF n
<1>3. 0 \in T
  <2>1. n + 0 = n
    BY <1>1
  <2> QED
    BY <2>1
<1>4. ASSUME NEW k \in Nat, k \in T PROVE k + 1 \in T
  <2>1. n + k \in Nat /\ n + k \notin ZT(t) .. n - 1 /\ (n + k) + 1 = n + (k + 1)
    BY <1>1
  <2>2. ReadBefore(buf, (n + k) + 1) = ReadBefore(buf, n + k) + 0 /\ ReadBefore(buf, n + k) \in Nat
    BY <2>1, <1>2
  <2> QED
    BY <2>1, <2>2, <1>4
<1>5. ESC - n \in T
  <2> HIDE DEF T
  <2>1. \A k \in Nat : k \in T
    BY <1>3, <1>4, SetInduction
  <2> QED
    BY <2>1, <1>1
<1>6. n + (ESC - n) = ESC
  BY <1>1
<1> QED
  BY <1>5, <1>6 DEF ImportedBytes, n

(* What the importer rebuilds: the finished table's symbols under their    *)
(* codes, and the filler everywhere else.                                  *)
LEMMA ImportExact ==
  ASSUME NEW t, Ready(t), NSymbols(t) > 0, NEW u, u = FinalizeTable(t),
         NEW buf, buf = ExportTable(u), NEW code \in 0 .. ESC - 1
  PROVE  ImportTable(buf)[code] =
           IF code < NSymbols(t)
             THEN [len |-> Len(u.symbols[code + 1]), symbol |-> u.symbols[code + 1]]
             ELSE [len |-> MaxLength, symbol |-> Corrupt]
<1> DEFINE z == ZT(t)
           n == NSymbols(t)
           us == u.symbols
           run == {len \in 1 .. MaxLength : InRun(buf, code, len)}
           entry ==
             IF code = 0 /\ buf.zeroTerminated THEN [len |-> 1, symbol |-> <<0>>]
             ELSE IF run = {} THEN [len |-> MaxLength, symbol |-> Corrupt]
             ELSE LET len == CHOOSE l \in run : TRUE
                      pos == ReadBefore(buf, code)
                  IN  [len |-> len, symbol |-> SubSeq(buf.bytes, pos + 1, pos + len)]
<1>1. ImportTable(buf)[code] = entry
  BY Zenon DEF ImportTable
<1>2. /\ z \in {0, 1} /\ n \in Nat /\ n >= 1 /\ us \in Seq(Symbol) /\ Len(us) = n
      /\ code \in Nat /\ buf.zeroTerminated = t.zeroTerminated
      /\ z = IF t.zeroTerminated THEN 1 ELSE 0
  <2>1. buf.zeroTerminated = t.zeroTerminated
    BY FinalLimits DEF ExportTable
  <2> QED
    BY <2>1, SymbolsType, FinalSymbols DEF NSymbols, ZT
<1>3. \A len \in 1 .. MaxLength : InRun(buf, code, len) <=> code \in z .. n - 1 /\ len = Len(us[code + 1])
  <2>1. code \in Nat
    BY <1>2
  <2> QED
    BY <2>1, RunOf
<1>4. CASE code = 0 /\ t.zeroTerminated
  <2>1. entry = [len |-> 1, symbol |-> <<0>>]
    BY <1>4, <1>2
  <2>2. us[1] = <<0>>
    BY <1>4, FirstCode
  <2>3. code < n /\ us[code + 1] = <<0>> /\ Len(us[code + 1]) = 1
    <3>1. code < n /\ code + 1 = 1 /\ Len(<<0>>) = 1
      BY <1>2, <1>4
    <3> HIDE DEF us
    <3> QED
      BY <3>1, <2>2
  <2> HIDE DEF entry
  <2> QED
    BY <1>1, <2>1, <2>3
<1>5. CASE ~ (code = 0 /\ t.zeroTerminated) /\ code >= n
  <2>1. code \notin z .. n - 1
    BY <1>5, <1>2
  <2>2. run = {}
    BY <2>1, <1>3
  <2>3. entry = [len |-> MaxLength, symbol |-> Corrupt]
    <3> HIDE DEF run
    <3> QED
      BY <2>2, <1>5, <1>2
  <2>4. ~ (code < n)
    BY <1>5, <1>2
  <2> HIDE DEF entry
  <2> QED
    BY <1>1, <2>3, <2>4
<1>6. CASE ~ (code = 0 /\ t.zeroTerminated) /\ code < n
  <2> DEFINE s == us[code + 1]
             pos == ReadBefore(buf, code)
             got == SubSeq(buf.bytes, pos + 1, pos + Len(s))
  <2>1. code \in z .. n - 1 /\ code + 1 \in 1 .. Len(us)
    BY <1>6, <1>2
  <2>2. s \in Symbol /\ Len(s) \in 1 .. MaxLength
    <3>1. us[code + 1] \in Symbol
      BY <2>1, <1>2
    <3> QED
      BY <3>1, SymbolIsSeq
  <2>3. run = {Len(s)}
    BY <2>1, <2>2, <1>3
  <2>4. entry = [len |-> Len(s), symbol |-> got]
    <3>1. run # {} /\ (CHOOSE l \in run : TRUE) = Len(s)
      BY <2>3
    <3> HIDE DEF run, pos, s
    <3> QED
      BY <3>1, <1>6, <1>2 DEF pos
  <2>5. got = s
    <3>1. /\ pos \in Nat /\ buf.bytes \in Seq(Byte) /\ pos + Len(s) <= Len(buf.bytes)
          /\ \A k \in 1 .. Len(s) : buf.bytes[pos + k] = s[k]
      <4>1. pos \in Nat
        BY <1>2, ReadAt
      <4>2. buf.bytes \in Seq(Byte)
        BY BytesJoined
      <4>3. /\ pos + Len(s) <= Len(buf.bytes)
            /\ \A k \in 1 .. Len(s) : buf.bytes[pos + k] = s[k]
        BY <2>1, BytesJoined
      <4> QED
        BY <4>1, <4>2, <4>3
    <3>2. s \in Seq(Byte) /\ Len(s) \in Nat
      BY <2>2, SymbolIsSeq
    <3> DEFINE b == buf.bytes
    <3> HIDE DEF pos, s, b
    <3>3. b \in Seq(Byte) /\ pos + Len(s) <= Len(b) /\ \A k \in 1 .. Len(s) : b[pos + k] = s[k]
      BY <3>1 DEF b
    <3>4. SubSeq(b, pos + 1, pos + Len(s)) = s
      <4>1. /\ SubSeq(b, pos + 1, pos + Len(s)) \in Seq(Byte)
            /\ Len(SubSeq(b, pos + 1, pos + Len(s))) = Len(s)
        BY <3>1, <3>2, <3>3
      <4>2. \A k \in 1 .. Len(s) : SubSeq(b, pos + 1, pos + Len(s))[k] = b[pos + k]
        BY <3>1, <3>2, <3>3
      <4> QED
        <5> DEFINE g == SubSeq(b, pos + 1, pos + Len(s))
        <5>1. /\ g \in Seq(Byte) /\ s \in Seq(Byte) /\ Len(g) = Len(s) /\ Len(s) \in Nat
              /\ \A k \in 1 .. Len(s) : g[k] = s[k]
          BY <4>1, <4>2, <3>2, <3>3
        <5> HIDE DEF g
        <5>2. g = s
          BY <5>1
        <5> QED
          BY <5>2 DEF g
    <3> QED
      BY <3>4 DEF b
  <2>6. code < n
    BY <1>6
  <2> HIDE DEF entry, got, s, n
  <2>7. entry = [len |-> Len(s), symbol |-> s]
    BY <2>4, <2>5
  <2> QED
    BY <1>1, <2>6, <2>7 DEF s, n
<1> HIDE DEF n
<1> QED
  BY <1>2, <1>4, <1>5, <1>6 DEF n

--------------------------------------------------------------------------------
(* Decoding.                                                               *)

(* The bytes that the codes from the i-th on stand for, with f for those   *)
(* further on.                                                             *)
DecodeStep(decoder, codes, f, i) ==
  IF i > Len(codes) THEN <<>>
  ELSE IF codes[i] < ESC THEN decoder[codes[i]].symbol \o f[i + 1]
  ELSE <<codes[i + 1]>> \o f[i + 2]

From(decoder, codes) ==
  CHOOSE f : f = [i \in 1 .. Len(codes) + 2 |->
                    IF i > Len(codes) THEN <<>>
                    ELSE IF codes[i] < ESC THEN decoder[codes[i]].symbol \o f[i + 1]
                    ELSE <<codes[i + 1]>> \o f[i + 2]]

(* The recursive function of Decode.                                       *)
LEMMA DecodeIsFrom ==
  ASSUME NEW decoder, NEW codes
  PROVE  Decode(decoder, codes) = From(decoder, codes)[1]
BY Zenon DEF Decode, From

(* It exists.                                                              *)
LEMMA FromExists ==
  ASSUME NEW decoder, NEW codes, Len(codes) \in Nat
  PROVE  \A i \in 1 .. Len(codes) + 2 :
           From(decoder, codes)[i] = DecodeStep(decoder, codes, From(decoder, codes), i)
<1> DEFINE n == Len(codes)
           D == 1 .. n + 2
           Step(f, i) == DecodeStep(decoder, codes, f, i)
           T == {m \in Nat : \E f : f = [i \in D |-> f[i]] /\
                               \A i \in D : i > n + 2 - m => f[i] = Step(f, i)}
<1>0. n \in Nat
  OBVIOUS
<1>1. 0 \in T
  <2> DEFINE f == [i \in D |-> 0]
  <2>1. f = [i \in D |-> f[i]] /\ \A i \in D : ~ (i > n + 2 - 0)
    BY <1>0
  <2> HIDE DEF f, Step
  <2> QED
    BY <2>1
<1>2. ASSUME NEW m \in Nat, m \in T PROVE m + 1 \in T
  <2>1. PICK f : f = [i \in D |-> f[i]] /\ \A i \in D : i > n + 2 - m => f[i] = Step(f, i)
    BY <1>2
  <2> DEFINE g == [i \in D |-> Step(f, i)]
  <2>2. \A i \in D : g[i] = Step(f, i)
    BY Zenon
  <2>3. \A i \in D : i > n + 2 - m => g[i] = f[i]
    <3> HIDE DEF Step, g
    <3> QED
      BY <2>1, <2>2
  <2>4. g = [i \in D |-> g[i]]
    OBVIOUS
  <2> HIDE DEF g
  <2>5. ASSUME NEW i \in D, i > n + 2 - (m + 1) PROVE g[i] = Step(g, i)
    <3>1. CASE i > n
      <4>1. Step(g, i) = Step(f, i)
        BY <3>1 DEF DecodeStep
      <4> QED
        BY <4>1, <2>2
    <3>2. CASE ~ (i > n)
      <4>1. i + 1 \in D /\ i + 2 \in D /\ i + 1 > n + 2 - m /\ i + 2 > n + 2 - m
        BY <2>5, <3>2, <1>0
      <4>2. g[i + 1] = f[i + 1] /\ g[i + 2] = f[i + 2]
        BY <4>1, <2>3
      <4>3. Step(g, i) = Step(f, i)
        BY <4>2, Zenon DEF DecodeStep
      <4> QED
        BY <4>3, <2>2
    <3> QED
      BY <3>1, <3>2
  <2> HIDE DEF Step, D
  <2>6. \E h : h = [i \in D |-> h[i]] /\ \A i \in D : i > n + 2 - (m + 1) => h[i] = Step(h, i)
    BY <2>4, <2>5, Zenon
  <2>7. m + 1 \in Nat
    OBVIOUS
  <2> QED
    BY <2>6, <2>7, Zenon
<1>3. n + 2 \in T
  <2> HIDE DEF T
  <2>1. n + 2 \in Nat
    BY <1>0
  <2> QED
    BY <1>1, <1>2, <2>1, SetInduction
<1>4. PICK f : f = [i \in D |-> f[i]] /\ \A i \in D : i > n + 2 - (n + 2) => f[i] = Step(f, i)
  BY <1>3
<1>5. f = [i \in D |-> Step(f, i)]
  <2> DEFINE g == [i \in D |-> Step(f, i)]
  <2>1. g = [i \in D |-> g[i]] /\ \A i \in D : g[i] = Step(f, i)
    BY Zenon
  <2> HIDE DEF g, Step
  <2>2. \A i \in D : i > n + 2 - (n + 2)
    BY <1>0
  <2>3. \A i \in D : f[i] = g[i]
    BY <1>4, <2>1, <2>2
  <2>4. f = [i \in D |-> f[i]]
    BY <1>4
  <2>5. f = g
    BY <2>1, <2>3, <2>4
  <2> QED
    BY <2>5 DEF g
<1>6. From(decoder, codes) = [i \in D |-> Step(From(decoder, codes), i)]
  BY <1>5, Zenon DEF From, DecodeStep
<1> HIDE DEF Step
<1>7. \A i \in D : From(decoder, codes)[i] = Step(From(decoder, codes), i)
  BY <1>6, Zenon
<1> QED
  BY <1>7 DEF Step

(* A string of codes that does not break off behind an escape: the         *)
(* positions where a code begins can be told.                              *)
Begins(codes, B) ==
  /\ B \in SUBSET (1 .. Len(codes) + 1)
  /\ 1 \in B
  /\ \A i \in B : i <= Len(codes) => IF codes[i] < ESC THEN i + 1 \in B ELSE i + 2 \in B

Whole(codes) == codes \in Seq(Nat) /\ \E B : Begins(codes, B)

(* What stands before a whole string of codes does not change its meaning. *)
LEMMA DecodeBehind ==
  ASSUME NEW decoder, NEW pre \in Seq(Nat), NEW tail \in Seq(Nat), NEW B, Begins(tail, B)
  PROVE  \A i \in B : From(decoder, pre \o tail)[Len(pre) + i] = From(decoder, tail)[i]
<1> DEFINE n == Len(tail)
           k == Len(pre)
           codes == pre \o tail
           F == From(decoder, codes)
           G == From(decoder, tail)
           T == {m \in Nat : \A i \in B : i >= n + 1 - m => F[k + i] = G[i]}
<1>1. /\ n \in Nat /\ k \in Nat /\ Len(codes) = k + n /\ codes \in Seq(Nat)
      /\ \A i \in 1 .. n : codes[k + i] = tail[i]
      /\ \A i \in B : i \in 1 .. n + 1
  BY DEF Begins
<1>2. \A i \in 1 .. n + 2 : G[i] = DecodeStep(decoder, tail, G, i)
  <2>1. Len(tail) \in Nat
    OBVIOUS
  <2> HIDE DEF F, codes, k, T
  <2> QED
    BY <2>1, FromExists
<1>3. \A i \in 1 .. n + 2 : F[k + i] = DecodeStep(decoder, codes, F, k + i)
  <2>1. \A i \in 1 .. n + 2 : k + i \in 1 .. Len(codes) + 2
    BY <1>1
  <2>2. \A i \in 1 .. Len(codes) + 2 : F[i] = DecodeStep(decoder, codes, F, i)
    <3>1. Len(codes) \in Nat
      BY <1>1
    <3> HIDE DEF codes, G, T
    <3> QED
      BY <3>1, FromExists
  <2> HIDE DEF F, codes, n, k
  <2> QED
    BY <2>1, <2>2
<1> HIDE DEF n, k, codes, F, G
<1>4. ASSUME NEW i \in B, i > n PROVE F[k + i] = G[i]
  <2>1. i \in 1 .. n + 2 /\ k + i > Len(codes)
    BY <1>1, <1>4
  <2>2. DecodeStep(decoder, tail, G, i) = <<>>
    BY <1>4 DEF DecodeStep, n
  <2>3. DecodeStep(decoder, codes, F, k + i) = <<>>
    BY <2>1 DEF DecodeStep
  <2> QED
    BY <2>1, <2>2, <2>3, <1>2, <1>3
<1>5. 0 \in T
  <2>1. \A i \in B : i >= n + 1 - 0 => i > n
    BY <1>1
  <2> QED
    BY <2>1, <1>4
<1>6. ASSUME NEW m \in Nat, m \in T PROVE m + 1 \in T
  <2>1. ASSUME NEW i \in B, i >= n + 1 - (m + 1), i <= n PROVE F[k + i] = G[i]
    <3>1. /\ i \in 1 .. n /\ i \in 1 .. n + 2 /\ ~ (k + i > Len(codes)) /\ ~ (i > n)
          /\ (k + i) + 1 = k + (i + 1) /\ (k + i) + 2 = k + (i + 2)
      <4>1. i \in 1 .. n
        BY <2>1, <1>1
      <4>2. \A a, b \in Nat : (a + b) + 1 = a + (b + 1) /\ (a + b) + 2 = a + (b + 2)
        OBVIOUS
      <4>3. i \in 1 .. n + 2 /\ ~ (i > n) /\ ~ (k + i > k + n)
        BY <4>1, <1>1
      <4> QED
        BY <4>1, <4>2, <4>3, <1>1
    <3>2. codes[k + i] = tail[i]
      BY <3>1, <1>1
    <3>3. CASE tail[i] < ESC
      <4>1. i + 1 \in B
        BY <3>3, <2>1 DEF Begins, n
      <4>2. F[k + (i + 1)] = G[i + 1]
        <5>1. i + 1 >= n + 1 - m
          BY <2>1, <3>1, <1>1
        <5> QED
          BY <5>1, <4>1, <1>6
      <4>3. F[k + i] = decoder[codes[k + i]].symbol \o F[(k + i) + 1]
        BY <3>1, <3>2, <3>3, <1>3 DEF DecodeStep
      <4>4. G[i] = decoder[tail[i]].symbol \o G[i + 1]
        BY <3>1, <3>3, <1>2 DEF DecodeStep, n
      <4> QED
        BY <4>2, <4>3, <4>4, <3>1, <3>2
    <3>4. CASE ~ (tail[i] < ESC)
      <4>1. i + 2 \in B
        BY <3>4, <2>1 DEF Begins, n
      <4>2. F[k + (i + 2)] = G[i + 2]
        <5>1. i + 2 >= n + 1 - m
          BY <2>1, <3>1, <1>1
        <5> QED
          BY <5>1, <4>1, <1>6
      <4>3. F[k + i] = <<codes[(k + i) + 1]>> \o F[(k + i) + 2]
        BY <3>1, <3>2, <3>4, <1>3 DEF DecodeStep
      <4>4. G[i] = <<tail[i + 1]>> \o G[i + 2]
        BY <3>1, <3>4, <1>2 DEF DecodeStep, n
      <4>5. codes[(k + i) + 1] = tail[i + 1]
        <5>1. i + 1 \in 1 .. n
          BY <4>1, <3>1, <1>1
        <5> QED
          BY <5>1, <3>1, <1>1
      <4> QED
        BY <4>2, <4>3, <4>4, <4>5, <3>1
    <3> QED
      BY <3>3, <3>4
  <2>2. \A i \in B : i <= n \/ i > n
    BY <1>1
  <2> QED
    BY <2>1, <2>2, <1>4
<1>7. n \in T
  <2> HIDE DEF T
  <2> QED
    BY <1>1, <1>5, <1>6, SetInduction
<1>8. \A i \in B : i >= n + 1 - n
  BY <1>1
<1> QED
  BY <1>7, <1>8 DEF F, G, codes, k

(* Nothing decodes to nothing.                                             *)
LEMMA DecodeOfNone ==
  ASSUME NEW decoder
  PROVE  Decode(decoder, <<>>) = <<>> /\ Whole(<<>>)
<1>1. <<>> \in Seq(Nat) /\ Len(<<>>) = 0 /\ 1 \in 1 .. 0 + 2 /\ 1 > 0
  OBVIOUS
<1>2. From(decoder, <<>>)[1] = DecodeStep(decoder, <<>>, From(decoder, <<>>), 1)
  <2>1. Len(<<>>) \in Nat /\ 1 \in 1 .. Len(<<>>) + 2
    OBVIOUS
  <2> QED
    BY <2>1, FromExists
<1>3. From(decoder, <<>>)[1] = <<>>
  BY <1>1, <1>2 DEF DecodeStep
<1>4. Begins(<<>>, {1})
  BY <1>1 DEF Begins
<1> QED
  BY <1>1, <1>3, <1>4, DecodeIsFrom DEF Whole

(* A code in front, and an escape and its byte in front.                   *)
LEMMA DecodeInFront ==
  ASSUME NEW decoder, NEW tail, Whole(tail), NEW pre \in Seq(Nat),
         \/ Len(pre) = 1 /\ pre[1] < ESC
         \/ Len(pre) = 2 /\ ~ (pre[1] < ESC)
  PROVE  /\ Whole(pre \o tail)
         /\ Decode(decoder, pre \o tail) =
              (IF pre[1] < ESC THEN decoder[pre[1]].symbol ELSE <<pre[2]>>)
                \o Decode(decoder, tail)
<1> DEFINE codes == pre \o tail
           k == Len(pre)
           n == Len(tail)
           F == From(decoder, codes)
           G == From(decoder, tail)
<1>1. PICK B : Begins(tail, B)
  BY DEF Whole
<1>2. /\ tail \in Seq(Nat) /\ codes \in Seq(Nat) /\ n \in Nat /\ k \in {1, 2}
      /\ Len(codes) = k + n
      /\ \A i \in 1 .. k : codes[i] = pre[i]
      /\ \A i \in 1 .. n : codes[k + i] = tail[i]
  BY DEF Whole
<1>3. 1 \in B /\ B \in SUBSET (1 .. n + 1)
  BY <1>1 DEF Begins
<1>4. Whole(codes)
  <2> DEFINE C == {1} \cup {k + i : i \in B}
  <2>1. C \in SUBSET (1 .. Len(codes) + 1) /\ 1 \in C
    <3>1. \A i \in B : k + i \in 1 .. Len(codes) + 1
      BY <1>2, <1>3
    <3>2. 1 \in 1 .. Len(codes) + 1
      BY <1>2
    <3> QED
      BY <3>1, <3>2
  <2>2. ASSUME NEW i \in B, k + i <= Len(codes)
        PROVE  IF codes[k + i] < ESC THEN (k + i) + 1 \in C ELSE (k + i) + 2 \in C
    <3>1. i \in 1 .. n /\ (k + i) + 1 = k + (i + 1) /\ (k + i) + 2 = k + (i + 2)
      BY <2>2, <1>2, <1>3
    <3>2. IF tail[i] < ESC THEN i + 1 \in B ELSE i + 2 \in B
      BY <3>1, <1>1 DEF Begins
    <3>3. codes[k + i] = tail[i]
      BY <3>1, <1>2
    <3> HIDE DEF codes, k, n
    <3> QED
      BY <3>1, <3>2, <3>3
  <2>3. IF codes[1] < ESC THEN 1 + 1 \in C ELSE 1 + 2 \in C
    <3>1. codes[1] = pre[1] /\ k + 1 \in C
      BY <1>2, <1>3
    <3>2. IF pre[1] < ESC THEN k = 1 ELSE k = 2
      OBVIOUS
    <3> HIDE DEF codes, k, C
    <3> QED
      BY <3>1, <3>2
  <2>4. \A c \in C : c = 1 \/ \E i \in B : c = k + i
    OBVIOUS
  <2> HIDE DEF C, k, codes
  <2>5. \A c \in C : c <= Len(codes) => IF codes[c] < ESC THEN c + 1 \in C ELSE c + 2 \in C
    BY <2>2, <2>3, <2>4
  <2>6. Begins(codes, C)
    BY <2>1, <2>5 DEF Begins
  <2> QED
    BY <2>6, <1>2 DEF Whole
<1>5. F[k + 1] = G[1]
  <2>1. \A i \in B : From(decoder, pre \o tail)[Len(pre) + i] = From(decoder, tail)[i]
    BY <1>1, <1>2, DecodeBehind
  <2> QED
    BY <2>1, <1>3
<1>6. F[1] = DecodeStep(decoder, codes, F, 1)
  <2>1. Len(codes) \in Nat /\ 1 \in 1 .. Len(codes) + 2
    BY <1>2
  <2> HIDE DEF codes, G, n, k
  <2> QED
    BY <2>1, FromExists
<1>7. ~ (1 > Len(codes)) /\ codes[1] = pre[1]
  BY <1>2
<1>8. CASE pre[1] < ESC
  <2>1. k = 1
    BY <1>8
  <2> HIDE DEF codes, F, G, k
  <2>2. F[1] = decoder[pre[1]].symbol \o F[1 + 1]
    BY <1>6, <1>7, <1>8 DEF DecodeStep
  <2>3. F[1] = decoder[pre[1]].symbol \o G[1]
    BY <2>1, <2>2, <1>5
  <2> QED
    BY <2>3, <1>4, <1>8, DecodeIsFrom DEF F, G, codes
<1>9. CASE ~ (pre[1] < ESC)
  <2>1. k = 2
    BY <1>9
  <2>2. codes[1 + 1] = pre[2]
    BY <2>1, <1>2
  <2> HIDE DEF codes, F, G, k
  <2>3. F[1] = <<codes[1 + 1]>> \o F[1 + 2]
    BY <1>6, <1>7, <1>9 DEF DecodeStep
  <2>4. F[1] = <<pre[2]>> \o G[1]
    BY <2>1, <2>2, <2>3, <1>5
  <2> QED
    BY <2>4, <1>4, <1>9, DecodeIsFrom DEF F, G, codes
<1> QED
  BY <1>8, <1>9

(* An entry that can be used: its length is that of its symbol, and fits a *)
(* word.                                                                   *)
ProperCode(decoder, c) ==
  /\ c \in 0 .. ESC - 1
  /\ decoder[c].symbol \in Seq(Byte)
  /\ decoder[c].len = Len(decoder[c].symbol)
  /\ decoder[c].len \in 1 .. MaxLength

(* Where the codes of a string begin, and its end: each is that of an      *)
(* entry, or an escape that is followed by its byte.                       *)
CutAt(decoder, s, B) ==
  /\ B \in SUBSET (0 .. Len(s)) /\ 0 \in B
  /\ \A p \in B : p < Len(s) =>
       \/ ProperCode(decoder, s[p + 1]) /\ p + 1 \in B
       \/ s[p + 1] = ESC /\ p + 1 < Len(s) /\ s[p + 2] \in Byte /\ p + 2 \in B

(* Codes that stand for a text whatever follows.                           *)
Follows(decoder, tail) == Whole(tail) /\ Decode(decoder, tail) \in Seq(Byte)

Decodes(decoder, codes, text) ==
  /\ codes \in Seq(Nat) /\ text \in Seq(Byte)
  /\ \E B : CutAt(decoder, codes, B)
  /\ \A tail : Follows(decoder, tail) =>
       /\ Whole(codes \o tail)
       /\ Decode(decoder, codes \o tail) = text \o Decode(decoder, tail)

(* They stand for it when nothing follows.                                 *)
LEMMA DecodesIs ==
  ASSUME NEW decoder, NEW codes, NEW text, Decodes(decoder, codes, text)
  PROVE  Decode(decoder, codes) = text
<1>1. Follows(decoder, <<>>) /\ Decode(decoder, <<>>) = <<>>
  <2>1. <<>> \in Seq(Byte)
    OBVIOUS
  <2> QED
    BY <2>1, DecodeOfNone DEF Follows
<1>2. Decode(decoder, codes \o <<>>) = text \o <<>>
  BY <1>1 DEF Decodes
<1>3. codes \o <<>> = codes /\ text \o <<>> = text
  BY DEF Decodes
<1> QED
  BY <1>2, <1>3

(* No code stands for no byte.                                             *)
LEMMA DecodesNone ==
  ASSUME NEW decoder
  PROVE  Decodes(decoder, <<>>, <<>>)
<1>0. \E B : CutAt(decoder, <<>>, B)
  <2>1. CutAt(decoder, <<>>, {0})
    BY DEF CutAt
  <2> QED
    BY <2>1
<1>1. ASSUME NEW tail, Follows(decoder, tail)
      PROVE  <<>> \o tail = tail /\ <<>> \o Decode(decoder, tail) = Decode(decoder, tail)
  BY <1>1 DEF Follows, Whole
<1> QED
  BY <1>0, <1>1 DEF Decodes, Follows

(* Concatenation is associative.                                           *)
Associate(a, b, c) == a \o (b \o c) = (a \o b) \o c

LEMMA ConcatAssoc ==
  ASSUME NEW S, NEW a \in Seq(S), NEW b \in Seq(S), NEW c \in Seq(S)
  PROVE  Associate(a, b, c)
<1> DEFINE l == a \o (b \o c)
           r == (a \o b) \o c
<1>1. /\ l \in Seq(S) /\ r \in Seq(S) /\ Len(l) = Len(r)
      /\ Len(l) = Len(a) + Len(b) + Len(c)
  OBVIOUS
<1>2. \A i \in 1 .. Len(l) : l[i] = r[i]
  <2>1. /\ Len(a) \in Nat /\ Len(b) \in Nat /\ Len(c) \in Nat
        /\ b \o c \in Seq(S) /\ a \o b \in Seq(S)
        /\ Len(b \o c) = Len(b) + Len(c) /\ Len(a \o b) = Len(a) + Len(b)
    OBVIOUS
  <2>2. ASSUME NEW i \in 1 .. Len(a) PROVE l[i] = r[i]
    <3>1. l[i] = a[i]
      BY <2>1
    <3>2. r[i] = (a \o b)[i] /\ (a \o b)[i] = a[i]
      BY <2>1
    <3> QED
      BY <3>1, <3>2
  <2>3. ASSUME NEW i \in 1 .. Len(b) PROVE l[Len(a) + i] = r[Len(a) + i]
    <3>1. l[Len(a) + i] = (b \o c)[i] /\ (b \o c)[i] = b[i]
      BY <2>1
    <3>2. r[Len(a) + i] = (a \o b)[Len(a) + i] /\ (a \o b)[Len(a) + i] = b[i]
      <4> DEFINE ab == a \o b
                 k == Len(a) + i
      <4>1. ab \in Seq(S) /\ k \in 1 .. Len(ab) /\ ab[k] = b[i]
        BY <2>1
      <4> HIDE DEF ab, k
      <4>2. (ab \o c)[k] = ab[k]
        BY <4>1, ConcatParts DEF Concatenates
      <4> QED
        BY <4>1, <4>2 DEF ab, k
    <3> QED
      BY <3>1, <3>2
  <2>4. ASSUME NEW i \in 1 .. Len(c) PROVE l[Len(a) + Len(b) + i] = r[Len(a) + Len(b) + i]
    <3>1. l[Len(a) + (Len(b) + i)] = (b \o c)[Len(b) + i] /\ (b \o c)[Len(b) + i] = c[i]
      <4> DEFINE bc == b \o c
                 k == Len(b) + i
      <4>1. bc \in Seq(S) /\ k \in 1 .. Len(bc) /\ bc[k] = c[i]
        BY <2>1
      <4> HIDE DEF bc, k
      <4>2. (a \o bc)[Len(a) + k] = bc[k]
        BY <4>1, ConcatParts DEF Concatenates
      <4> QED
        BY <4>1, <4>2 DEF bc, k
    <3>2. r[(Len(a) + Len(b)) + i] = c[i]
      <4> DEFINE ab == a \o b
      <4>1. ab \in Seq(S) /\ Len(ab) = Len(a) + Len(b)
        BY <2>1
      <4> HIDE DEF ab
      <4>2. (ab \o c)[Len(ab) + i] = c[i]
        BY <4>1, ConcatParts DEF Concatenates
      <4> QED
        BY <4>1, <4>2 DEF ab
    <3>3. Len(a) + (Len(b) + i) = (Len(a) + Len(b)) + i
      BY <2>1
    <3> QED
      BY <3>1, <3>2, <3>3
  <2>5. ASSUME NEW i \in 1 .. Len(l)
        PROVE  \/ i \in 1 .. Len(a)
               \/ \E k \in 1 .. Len(b) : i = Len(a) + k
               \/ \E k \in 1 .. Len(c) : i = Len(a) + Len(b) + k
    <3>1. CASE i > Len(a) /\ i <= Len(a) + Len(b)
      <4>1. i - Len(a) \in 1 .. Len(b) /\ i = Len(a) + (i - Len(a))
        BY <3>1, <2>1, <1>1
      <4> QED
        BY <4>1
    <3>2. CASE i > Len(a) + Len(b)
      <4>1. i - (Len(a) + Len(b)) \in 1 .. Len(c) /\ i = Len(a) + Len(b) + (i - (Len(a) + Len(b)))
        BY <3>2, <2>1, <1>1
      <4> QED
        BY <4>1
    <3> QED
      BY <3>1, <3>2, <2>1, <1>1
  <2> HIDE DEF l, r
  <2> QED
    BY <2>2, <2>3, <2>4, <2>5
<1> HIDE DEF l, r
<1>3. l = r
  BY <1>1, <1>2, SameElements
<1> QED
  BY <1>3 DEF l, r, Associate

(* Two strings that can be cut can be cut when one stands behind the       *)
(* other.                                                                  *)
LEMMA CutsBoth ==
  ASSUME NEW decoder, NEW a \in Seq(Nat), NEW b \in Seq(Nat),
         NEW A, CutAt(decoder, a, A), NEW B, CutAt(decoder, b, B)
  PROVE  \E C : CutAt(decoder, a \o b, C)
<1> DEFINE n == Len(a)
           m == Len(b)
           s == a \o b
           C == {p \in 0 .. n + m : (p < n /\ p \in A) \/ (p >= n /\ p - n \in B)}
<1>1. /\ n \in Nat /\ m \in Nat /\ Len(s) = n + m
      /\ \A i \in 1 .. n : s[i] = a[i]
      /\ \A i \in 1 .. m : s[n + i] = b[i]
  OBVIOUS
<1>2. /\ A \in SUBSET (0 .. n) /\ 0 \in A /\ B \in SUBSET (0 .. m) /\ 0 \in B
      /\ \A p \in A : p < n =>
           \/ ProperCode(decoder, a[p + 1]) /\ p + 1 \in A
           \/ a[p + 1] = ESC /\ p + 1 < n /\ a[p + 2] \in Byte /\ p + 2 \in A
      /\ \A p \in B : p < m =>
           \/ ProperCode(decoder, b[p + 1]) /\ p + 1 \in B
           \/ b[p + 1] = ESC /\ p + 1 < m /\ b[p + 2] \in Byte /\ p + 2 \in B
  BY DEF CutAt
<1> HIDE DEF n, m, s
<1>3. \A p \in 0 .. n + m : p \in C <=> (p < n /\ p \in A) \/ (p >= n /\ p - n \in B)
  OBVIOUS
<1>4. C \in SUBSET (0 .. n + m) /\ 0 \in C
  BY <1>1, <1>2
<1> HIDE DEF C
<1>5. ASSUME NEW p \in C, p < n + m
      PROVE  \/ ProperCode(decoder, s[p + 1]) /\ p + 1 \in C
             \/ s[p + 1] = ESC /\ p + 1 < n + m /\ s[p + 2] \in Byte /\ p + 2 \in C
  <2>1. p \in 0 .. n + m /\ p \in Nat
    BY <1>1, <1>4
  <2>2. CASE p < n
    <3>1. p \in A /\ p + 1 \in 1 .. n /\ s[p + 1] = a[p + 1]
      BY <2>1, <2>2, <1>1, <1>3
    <3>2. \A q \in A : q \in 0 .. n /\ q \in 0 .. n + m /\ (q < n => q \in C)
      BY <1>1, <1>2, <1>3
    <3>3. n \in C
      <4>1. n \in 0 .. n + m /\ n >= n /\ n - n = 0 /\ ~ (n < n)
        BY <1>1
      <4> QED
        BY <4>1, <1>2, <1>3
    <3>4. \A q \in A : q \in C
      <4>1. \A q \in A : q < n \/ q = n
        BY <1>1, <3>2
      <4> QED
        BY <4>1, <3>2, <3>3
    <3>5. CASE ProperCode(decoder, a[p + 1]) /\ p + 1 \in A
      BY <3>1, <3>4, <3>5
    <3>6. CASE a[p + 1] = ESC /\ p + 1 < n /\ a[p + 2] \in Byte /\ p + 2 \in A
      <4>1. p + 2 \in 1 .. n /\ p + 1 < n + m
        BY <3>6, <2>1, <1>1
      <4> QED
        BY <4>1, <3>1, <3>4, <3>6, <1>1
    <3> QED
      BY <3>1, <3>5, <3>6, <2>2, <1>2
  <2>3. CASE p >= n
    <3> DEFINE r == p - n
    <3>1. r \in B /\ r \in 0 .. m - 1 /\ r < m /\ p = n + r /\ p + 1 = n + (r + 1) /\ p + 2 = n + (r + 2)
      BY <2>1, <2>3, <1>1, <1>3, <1>5
    <3>2. s[p + 1] = b[r + 1] /\ (r + 1 < m => s[p + 2] = b[r + 2])
      <4>1. r + 1 \in 1 .. m /\ (r + 1 < m => r + 2 \in 1 .. m)
        BY <3>1, <1>1
      <4> HIDE DEF r
      <4> QED
        BY <4>1, <3>1, <1>1
    <3> HIDE DEF r
    <3>3. \A q \in B : n + q \in C
      <4>1. ASSUME NEW q \in B PROVE n + q \in 0 .. n + m /\ n + q >= n /\ (n + q) - n = q
        BY <1>1, <1>2
      <4> QED
        BY <4>1, <1>3
    <3>4. CASE ProperCode(decoder, b[r + 1]) /\ r + 1 \in B
      BY <3>1, <3>2, <3>3, <3>4
    <3>5. CASE b[r + 1] = ESC /\ r + 1 < m /\ b[r + 2] \in Byte /\ r + 2 \in B
      <4>1. p + 1 < n + m
        BY <3>1, <3>5, <1>1
      <4> QED
        BY <4>1, <3>1, <3>2, <3>3, <3>5
    <3> QED
      BY <3>1, <3>4, <3>5, <1>2
  <2> QED
    BY <2>1, <2>2, <2>3, <1>1
<1>6. CutAt(decoder, s, C)
  BY <1>1, <1>4, <1>5 DEF CutAt
<1> QED
  BY <1>6 DEF s

(* One after the other.                                                    *)
LEMMA DecodesBoth ==
  ASSUME NEW decoder, NEW a, NEW b, NEW x, NEW y, Decodes(decoder, a, x), Decodes(decoder, b, y)
  PROVE  Decodes(decoder, a \o b, x \o y)
<1>1. /\ a \in Seq(Nat) /\ b \in Seq(Nat) /\ x \in Seq(Byte) /\ y \in Seq(Byte)
      /\ a \o b \in Seq(Nat) /\ x \o y \in Seq(Byte)
  BY DEF Decodes
<1>2. ASSUME NEW tail, Follows(decoder, tail)
      PROVE  /\ Whole((a \o b) \o tail)
             /\ Decode(decoder, (a \o b) \o tail) = (x \o y) \o Decode(decoder, tail)
  <2> DEFINE z == Decode(decoder, tail)
             yz == Decode(decoder, b \o tail)
  <2>1. Whole(b \o tail) /\ yz = y \o z /\ z \in Seq(Byte) /\ tail \in Seq(Nat)
    BY <1>2 DEF Decodes, Follows, Whole
  <2>2. yz \in Seq(Byte)
    BY <2>1, <1>1
  <2>3. /\ Whole(a \o (b \o tail))
        /\ Decode(decoder, a \o (b \o tail)) = x \o yz
    BY <2>1, <2>2 DEF Decodes, Follows
  <2> HIDE DEF z, yz
  <2>4. a \o (b \o tail) = (a \o b) \o tail
    <3>1. a \in Seq(Nat) /\ b \in Seq(Nat) /\ tail \in Seq(Nat)
      BY <1>1, <2>1
    <3>2. Associate(a, b, tail)
      BY <3>1, ConcatAssoc
    <3> QED
      BY <3>2 DEF Associate
  <2>5. x \o (y \o z) = (x \o y) \o z
    <3>1. x \in Seq(Byte) /\ y \in Seq(Byte) /\ z \in Seq(Byte)
      BY <1>1, <2>1
    <3>2. Associate(x, y, z)
      BY <3>1, ConcatAssoc
    <3> QED
      BY <3>2 DEF Associate
  <2> QED
    BY <2>1, <2>3, <2>4, <2>5 DEF z
<1>3. \E C : CutAt(decoder, a \o b, C)
  <2>1. PICK A : CutAt(decoder, a, A)
    BY DEF Decodes
  <2>2. PICK B : CutAt(decoder, b, B)
    BY DEF Decodes
  <2> QED
    BY <2>1, <2>2, <1>1, CutsBoth
<1> QED
  BY <1>1, <1>2, <1>3 DEF Decodes

(* One code.                                                               *)
LEMMA DecodesCode ==
  ASSUME NEW decoder, NEW c, ProperCode(decoder, c)
  PROVE  Decodes(decoder, <<c>>, decoder[c].symbol)
<1>0. c \in Nat /\ c < ESC /\ decoder[c].symbol \in Seq(Byte)
  BY TableAssumption DEF ProperCode, ESC
<1> DEFINE pre == <<c>>
<1>1. pre \in Seq(Nat) /\ Len(pre) = 1 /\ pre[1] = c
  BY <1>0
<1> HIDE DEF pre
<1>2. ASSUME NEW tail, Follows(decoder, tail)
      PROVE  /\ Whole(pre \o tail)
             /\ Decode(decoder, pre \o tail) = decoder[c].symbol \o Decode(decoder, tail)
  BY <1>0, <1>1, <1>2, DecodeInFront DEF Follows
<1>3. \E B : CutAt(decoder, pre, B)
  <2>1. CutAt(decoder, pre, {0, 1})
    BY <1>1 DEF CutAt
  <2> QED
    BY <2>1
<1>4. Decodes(decoder, pre, decoder[c].symbol)
  BY <1>0, <1>1, <1>2, <1>3 DEF Decodes
<1> QED
  BY <1>4 DEF pre

(* An escape and its byte.                                                 *)
LEMMA DecodesEscape ==
  ASSUME NEW decoder, NEW b \in Byte, b \in Nat, ESC \in Nat
  PROVE  Decodes(decoder, <<ESC, b>>, <<b>>)
<1> DEFINE pre == <<ESC, b>>
<1>1. pre \in Seq(Nat) /\ Len(pre) = 2 /\ ~ (pre[1] < ESC) /\ pre[2] = b
  OBVIOUS
<1>2. <<b>> \in Seq(Byte)
  OBVIOUS
<1> HIDE DEF pre
<1>3. ASSUME NEW tail, Follows(decoder, tail)
      PROVE  /\ Whole(pre \o tail)
             /\ Decode(decoder, pre \o tail) = <<b>> \o Decode(decoder, tail)
  BY <1>1, <1>3, DecodeInFront DEF Follows
<1>4. \E B : CutAt(decoder, pre, B)
  <2>1. pre[1] = ESC
    BY DEF pre
  <2>2. CutAt(decoder, pre, {0, 2})
    BY <1>1, <2>1 DEF CutAt
  <2> QED
    BY <2>2
<1>5. Decodes(decoder, pre, <<b>>)
  BY <1>1, <1>2, <1>3, <1>4 DEF Decodes
<1> QED
  BY <1>5 DEF pre

--------------------------------------------------------------------------------
(* What the entries of a finished table stand for.                         *)

(* The limits of a finished table, in order.                               *)
LEMMA LimitsOrder ==
  ASSUME NEW t, Ready(t), NSymbols(t) > 0, NEW u, u = FinalizeTable(t)
  PROVE  /\ u.suffixLim \in Nat /\ ByteLim(u) \in Nat /\ NSymbols(u) \in Nat /\ ESC \in Nat
         /\ NSymbols(u) = NSymbols(t) /\ ByteLim(u) = ByteLim(t) /\ u.suffixLim = SuffixLim(t)
         /\ u.suffixLim <= ByteLim(u) /\ ByteLim(u) <= NSymbols(u) /\ NSymbols(u) <= ESC
<1>1. /\ u.suffixLim = SuffixLim(t) /\ ByteLim(u) = ByteLim(t) /\ NSymbols(u) = NSymbols(t)
      /\ SuffixLim(t) \in Nat /\ ByteLim(t) \in Nat
  BY FinalLimits, FinalSymbols
<1>2. NSymbols(t) \in Nat /\ NSymbols(t) <= ESC /\ ESC \in Nat /\ MaxLength \in Nat /\ MaxLength >= 3
  BY SymbolsType, TableAssumption DEF MaxSymbols, ESC
<1>3. ByteLim(t) <= NSymbols(t)
  <2>1. Cardinality(OfLen(t, 1)) \in Nat /\ ByteLim(t) + Cardinality(OfLen(t, 1)) = NSymbols(t)
    BY OfLenType, ByteGroup
  <2> QED
    BY <2>1, <1>1, <1>2
<1>4. SuffixLim(t) <= ByteLim(t)
  <2>1. 2 \in 2 .. MaxLength /\ MaxLength + 1 \in 2 .. MaxLength + 1 /\ 2 < MaxLength + 1
    BY <1>2
  <2>2. GroupStart(t, 2) + Cardinality(OfLen(t, 2)) <= GroupStart(t, MaxLength + 1)
    BY <2>1, GroupOrder
  <2>3. GroupStart(t, 2) = ZT(t) /\ GroupStart(t, MaxLength + 1) = ByteLim(t) /\ ZT(t) \in Nat
    BY GroupOfTwo, ByteGroup, SymbolsType
  <2>4. /\ Cardinality(OfLen(t, 2)) = Cardinality(LongerThere(t)) + Cardinality(Plain(t))
        /\ Cardinality(LongerThere(t)) \in Nat /\ Cardinality(Plain(t)) \in Nat
    BY LongerType
  <2> DEFINE a == Cardinality(OfLen(t, 2))
             b == Cardinality(LongerThere(t))
             c == Cardinality(Plain(t))
  <2>5. a = b + c /\ b \in Nat /\ c \in Nat /\ ZT(t) + a <= ByteLim(t) /\ SuffixLim(t) = ZT(t) + c
    BY <2>2, <2>3, <2>4 DEF SuffixLim
  <2> HIDE DEF a, b, c
  <2> QED
    BY <2>5, <2>3, <1>1
<1> QED
  BY <1>1, <1>2, <1>3, <1>4

(* A code and its byte.                                                    *)
LEMMA CodeKept ==
  ASSUME NEW n \in Nat, n <= ESC, NEW c \in 0 .. n - 1
  PROVE  c \in Nat /\ c < ESC /\ CodeByte(c) = c /\ EscapeBit(c) = 0
<1>1. ESC \in Nat /\ ESC = CodeBase - 1 /\ CodeBase \in Nat
  BY TableAssumption DEF ESC
<1>2. c \in Nat /\ c < ESC /\ c \in 0 .. CodeBase - 1
  BY <1>1
<1> QED
  BY <1>2, CodeBits

(* A pair of bytes: a symbol of two bytes, the symbol of the first, or the *)
(* escape of the first.                                                    *)
TwoByteEntry(u, p, e) ==
  /\ e.len = 2 /\ e.code \in 0 .. NSymbols(u) - 1 /\ u.symbols[e.code + 1] = p
  /\ e.code < ByteLim(u) /\ u.terminator \notin {p[1], p[2]}

OneByteEntry(u, p, e) ==
  /\ e.len = 1 /\ e.code \in 0 .. NSymbols(u) - 1 /\ u.symbols[e.code + 1] = <<p[1]>>
  /\ \/ e.code >= ByteLim(u) /\ e.code >= u.suffixLim
     \/ u.zeroTerminated /\ p[1] = 0

EscapeEntry(e) == e.len = 1 /\ e.code = CODE_MASK

LEMMA PairLookedUp ==
  ASSUME NEW t, Ready(t), NSymbols(t) > 0, NoneAcross(t), NEW u, u = FinalizeTable(t),
         NEW p \in Byte \X Byte
  PROVE  \/ TwoByteEntry(u, p, u.shortCodes[p])
         \/ OneByteEntry(u, p, u.shortCodes[p])
         \/ EscapeEntry(u.shortCodes[p])
<1> DEFINE e == u.shortCodes[p]
           n == NSymbols(t)
<1>1. /\ NSymbols(u) = n /\ ByteLim(u) = ByteLim(t) /\ u.suffixLim = SuffixLim(t)
      /\ n \in Nat /\ ByteLim(t) \in Nat /\ SuffixLim(t) \in Nat
  BY LimitsOrder
<1>2. u.terminator = t.terminator /\ u.zeroTerminated = t.zeroTerminated
  BY FinalLimits
<1>3. DOMAIN t.symbols = 1 .. n /\ \A i \in DOMAIN t.symbols : NewCode(t)[i] \in 0 .. n - 1
  BY SymbolsType, CodeBound
<1>4. \A i \in DOMAIN t.symbols : u.symbols[NewCode(t)[i] + 1] = t.symbols[i]
  BY FinalSymbols
<1>5. ASSUME NEW i \in DOMAIN t.symbols, i \notin Moved(t)
      PROVE  t.symbols[i] = <<0>> /\ t.zeroTerminated /\ NewCode(t)[i] = 0
  <2>1. i = 1 /\ ZT(t) = 1 /\ NewCode(t)[i] = 0
    BY <1>5, CodeBound, NewCodeOf
  <2>2. t.zeroTerminated
    BY <2>1 DEF ZT
  <2>3. u.symbols[1] = <<0>>
    BY <2>2, FirstCode
  <2> QED
    BY <2>1, <2>2, <2>3, <1>4
<1>6. ASSUME NEW i \in DOMAIN t.symbols, t.symbols[i] = p, e = [code |-> NewCode(t)[i], len |-> 2]
      PROVE  TwoByteEntry(u, p, e)
  <2>1. Len(p) = 2 /\ p # <<0>>
    <3>1. p = <<p[1], p[2]>>
      OBVIOUS
    <3>2. \A a, b : Len(<<a, b>>) = 2 /\ Len(<<0>>) = 1
      OBVIOUS
    <3> QED
      BY <3>1, <3>2
  <2>2. i \in Moved(t)
    BY <2>1, <1>5, <1>6
  <2>3. NewCode(t)[i] < ByteLim(t)
    BY <2>1, <2>2, <1>6, CodeLimits
  <2>4. t.terminator # p[1] /\ t.terminator # p[2]
    <3>1. p \in Range(t.symbols)
      BY <1>6 DEF Range
    <3>2. 1 \in 1 .. Len(p) /\ 2 \in 1 .. Len(p) /\ Len(p) >= 2
      BY <2>1
    <3> QED
      BY <3>1, <3>2 DEF NoneAcross
  <2>5. e.len = 2 /\ e.code = NewCode(t)[i]
    BY <1>6
  <2> HIDE DEF e, n
  <2> QED
    BY <2>3, <2>4, <2>5, <1>1, <1>2, <1>3, <1>4, <1>6 DEF TwoByteEntry
<1>7. ASSUME NEW i \in DOMAIN t.symbols, t.symbols[i] = <<p[1]>>,
             e = [code |-> NewCode(t)[i], len |-> 1]
      PROVE  OneByteEntry(u, p, e)
  <2>1. e.len = 1 /\ e.code = NewCode(t)[i] /\ Len(<<p[1]>>) = 1 /\ <<p[1]>>[1] = p[1]
    BY <1>7
  <2>2. CASE i \in Moved(t)
    <3>1. ~ (NewCode(t)[i] < ByteLim(t)) /\ ~ (NewCode(t)[i] < SuffixLim(t))
      BY <2>1, <2>2, <1>7, CodeLimits
    <3>2. NewCode(t)[i] \in Nat
      BY <1>1, <1>3
    <3>3. NewCode(t)[i] >= ByteLim(t) /\ NewCode(t)[i] >= SuffixLim(t)
      BY <3>1, <3>2, <1>1
    <3> HIDE DEF e, n
    <3> QED
      BY <3>3, <2>1, <1>1, <1>3, <1>4, <1>7 DEF OneByteEntry
  <2>3. CASE i \notin Moved(t)
    <3>1. t.zeroTerminated /\ <<p[1]>> = <<0>>
      BY <2>3, <1>5, <1>7
    <3>2. p[1] = 0
      BY <3>1
    <3> HIDE DEF e, n
    <3> QED
      BY <3>1, <3>2, <2>1, <1>1, <1>2, <1>3, <1>4, <1>7 DEF OneByteEntry
  <2> QED
    BY <2>2, <2>3
<1>8. p[1] \in Byte
  OBVIOUS
<1>9. CASE isEscapeCode(t.shortCodes[p].code) /\ e = [code |-> FinalByteCodes(t)[p[1]], len |-> 1]
  <2>1. CASE FinalByteCodes(t)[p[1]] = CODE_MASK
    BY <2>1, <1>9 DEF EscapeEntry
  <2>2. CASE \E i \in DOMAIN t.symbols :
               t.symbols[i] = <<p[1]>> /\ FinalByteCodes(t)[p[1]] = NewCode(t)[i]
    BY <2>2, <1>7, <1>9
  <2>3. \/ FinalByteCodes(t)[p[1]] = CODE_MASK
        \/ \E i \in DOMAIN t.symbols :
             t.symbols[i] = <<p[1]>> /\ FinalByteCodes(t)[p[1]] = NewCode(t)[i]
    <3> DEFINE b == p[1]
    <3>1. b \in Byte
      BY <1>8
    <3> HIDE DEF b
    <3>2. \/ /\ isEscapeCode(t.byteCodes[b]) /\ SymbolOf(t, t.byteCodes[b]) = <<b>>
             /\ FinalByteCodes(t)[b] = CODE_MASK /\ <<b>> \notin Range(t.symbols)
          \/ \E i \in DOMAIN t.symbols :
               /\ t.symbols[i] = <<b>> /\ t.byteCodes[b] = CodeOf(i)
               /\ FinalByteCodes(t)[b] = NewCode(t)[i]
      BY <3>1, FinalByte
    <3> QED
      BY <3>2, Zenon DEF b
  <2> QED
    BY <2>1, <2>2, <2>3, Zenon
<1>10. CASE \E i \in DOMAIN t.symbols : t.symbols[i] = p /\ e = [code |-> NewCode(t)[i], len |-> 2]
  BY <1>10, <1>6
<1>11. \/ isEscapeCode(t.shortCodes[p].code) /\ e = [code |-> FinalByteCodes(t)[p[1]], len |-> 1]
       \/ \E i \in DOMAIN t.symbols : t.symbols[i] = p /\ e = [code |-> NewCode(t)[i], len |-> 2]
  BY FinalPair
<1> QED
  BY <1>9, <1>10, <1>11, Zenon

(* A slot of the hash table: a symbol of three bytes or more and its code. *)
LEMMA SlotLookedUp ==
  ASSUME NEW t, Ready(t), NSymbols(t) > 0, NoneAcross(t), NEW u, u = FinalizeTable(t),
         NEW k \in Bucket, u.hashTab[k] # FreeSlot
  PROVE  /\ u.hashTab[k].str \in Symbol /\ Len(u.hashTab[k].str) >= 3
         /\ u.hashTab[k].code \in 0 .. NSymbols(u) - 1
         /\ u.symbols[u.hashTab[k].code + 1] = u.hashTab[k].str
         /\ u.terminator \notin Range(u.hashTab[k].str)
<1>1. PICK i \in DOMAIN t.symbols :
        /\ Len(t.symbols[i]) >= 3
        /\ u.hashTab[k] = [str |-> t.symbols[i], code |-> NewCode(t)[i]]
  <2>1. \/ t.hashTab[k] = FreeSlot /\ u.hashTab[k] = FreeSlot
        \/ \E i \in DOMAIN t.symbols :
             /\ Len(t.symbols[i]) >= 3 /\ BucketOf(t.symbols[i]) = k
             /\ t.hashTab[k] = [str |-> t.symbols[i], code |-> CodeOf(i)]
             /\ u.hashTab[k] = [str |-> t.symbols[i], code |-> NewCode(t)[i]]
             /\ t.hashTab[k] # FreeSlot /\ u.hashTab[k] # FreeSlot
    BY FinalSlot
  <2> QED
    BY <2>1, Zenon
<1> DEFINE s == t.symbols[i]
           slot == u.hashTab[k]
<1>2. slot.str = s /\ slot.code = NewCode(t)[i] /\ Len(s) >= 3
  BY <1>1
<1>3. s \in Symbol /\ NewCode(t)[i] \in 0 .. NSymbols(t) - 1
  BY SymbolsType, CodeBound
<1>4. NSymbols(u) = NSymbols(t) /\ u.symbols[NewCode(t)[i] + 1] = s
  BY FinalSymbols
<1>5. u.terminator \notin Range(s)
  <2>1. u.terminator = t.terminator /\ s \in Range(t.symbols)
    BY FinalLimits DEF Range
  <2>2. DOMAIN s = 1 .. Len(s) /\ Len(s) >= 2 /\ Len(s) \in Nat
    BY <1>2, <1>3, SymbolIsSeq
  <2>3. \A j \in 1 .. Len(s) : s[j] # t.terminator
    BY <2>1, <2>2 DEF NoneAcross
  <2> HIDE DEF s
  <2> QED
    BY <2>1, <2>2, <2>3 DEF Range
<1> HIDE DEF s, slot
<1>6. /\ slot.str \in Symbol /\ Len(slot.str) >= 3
      /\ slot.code \in 0 .. NSymbols(u) - 1
      /\ u.symbols[slot.code + 1] = slot.str
      /\ u.terminator \notin Range(slot.str)
  BY <1>2, <1>3, <1>4, <1>5
<1> QED
  BY <1>6 DEF slot

--------------------------------------------------------------------------------
(* Parts of sequences.                                                     *)

(* What is written stays when more is written behind it.                   *)
LEMMA PartsStay ==
  ASSUME NEW S, NEW o \in Seq(S), NEW bytes \in Seq(S), NEW a \in Nat, NEW b \in Nat,
         a <= Len(o), b <= Len(o)
  PROVE  /\ SubSeq(o \o bytes, a + 1, b) = SubSeq(o, a + 1, b)
         /\ SubSeq(o, a + 1, b) \in Seq(S)
<1> DEFINE l == SubSeq(o \o bytes, a + 1, b)
           r == SubSeq(o, a + 1, b)
<1>1. /\ o \o bytes \in Seq(S) /\ Len(o \o bytes) = Len(o) + Len(bytes)
      /\ \A i \in 1 .. Len(o) : (o \o bytes)[i] = o[i]
      /\ Len(o) \in Nat /\ Len(bytes) \in Nat
  OBVIOUS
<1>2. l \in Seq(S) /\ r \in Seq(S) /\ Len(l) = Len(r) /\ Len(r) \in Nat
  <2> DEFINE w == o \o bytes
  <2>1. w \in Seq(S) /\ Len(w) = Len(o) + Len(bytes) /\ Len(o) \in Nat /\ Len(bytes) \in Nat
    BY <1>1
  <2> HIDE DEF w
  <2>2. /\ SubSeq(w, a + 1, b) \in Seq(S)
        /\ Len(SubSeq(w, a + 1, b)) = IF a + 1 <= b THEN b - a ELSE 0
    BY <2>1
  <2>3. /\ SubSeq(o, a + 1, b) \in Seq(S)
        /\ Len(SubSeq(o, a + 1, b)) = IF a + 1 <= b THEN b - a ELSE 0
    BY <2>1
  <2> QED
    BY <2>2, <2>3 DEF w
<1>3. \A i \in 1 .. Len(r) : l[i] = r[i]
  <2>1. ASSUME NEW i \in 1 .. Len(r) PROVE l[i] = r[i]
    <3>1. Len(r) = IF a + 1 <= b THEN b - a ELSE 0
      BY <1>1
    <3>2. a + i \in 1 .. Len(o) /\ a + i <= b
      BY <3>1, <1>1
    <3>3. r[i] = o[a + i]
      BY <3>1, <3>2, <1>1
    <3> DEFINE w == o \o bytes
    <3>4. w \in Seq(S) /\ Len(w) \in Nat /\ b <= Len(w) /\ w[a + i] = o[a + i]
      BY <3>2, <1>1
    <3> HIDE DEF w
    <3>5. SubSeq(w, a + 1, b)[i] = w[a + i]
      BY <3>1, <3>2, <3>4
    <3> QED
      BY <3>3, <3>4, <3>5 DEF w
  <2> QED
    BY <2>1
<1> HIDE DEF l, r
<1>4. l = r
  BY <1>2, <1>3, SameElements, Zenon
<1> QED
  BY <1>2, <1>4 DEF l, r

(* A part that ends where a sequence ends grows with it.                   *)
LEMMA PartsGrow ==
  ASSUME NEW S, NEW o \in Seq(S), NEW bytes \in Seq(S), NEW a \in Nat, a <= Len(o)
  PROVE  SubSeq(o \o bytes, a + 1, Len(o \o bytes)) = SubSeq(o, a + 1, Len(o)) \o bytes
<1> DEFINE w == o \o bytes
           p == SubSeq(o, a + 1, Len(o))
           l == SubSeq(w, a + 1, Len(w))
           r == p \o bytes
<1>1. /\ w \in Seq(S) /\ Len(w) = Len(o) + Len(bytes) /\ Len(o) \in Nat /\ Len(bytes) \in Nat
      /\ \A i \in 1 .. Len(o) : w[i] = o[i]
      /\ \A i \in 1 .. Len(bytes) : w[Len(o) + i] = bytes[i]
  BY ConcatParts DEF Concatenates
<1>2. /\ p \in Seq(S) /\ Len(p) = Len(o) - a /\ Len(p) \in Nat
      /\ \A i \in 1 .. Len(o) - a : p[i] = o[a + i]
  BY <1>1
<1> HIDE DEF w, p
<1>3. /\ l \in Seq(S) /\ Len(l) = Len(w) - a /\ Len(l) \in Nat
      /\ \A i \in 1 .. Len(w) - a : l[i] = w[a + i]
  BY <1>1
<1>4. /\ r \in Seq(S) /\ Len(r) = Len(p) + Len(bytes)
      /\ \A i \in 1 .. Len(p) : r[i] = p[i]
      /\ \A i \in 1 .. Len(bytes) : r[Len(p) + i] = bytes[i]
  <2>1. p \in Seq(S) /\ bytes \in Seq(S)
    BY <1>2
  <2> QED
    BY <2>1, ConcatParts DEF Concatenates
<1> HIDE DEF l, r
<1>5. Len(l) = Len(r)
  BY <1>1, <1>2, <1>3, <1>4
<1>6. ASSUME NEW i \in 1 .. Len(l) PROVE l[i] = r[i]
  <2>1. CASE i <= Len(p)
    <3>1. i \in 1 .. Len(p) /\ a + i \in 1 .. Len(o) /\ i \in 1 .. Len(w) - a /\ i \in 1 .. Len(o) - a
      BY <2>1, <1>1, <1>2, <1>3
    <3> QED
      BY <3>1, <1>1, <1>2, <1>3, <1>4
  <2>2. CASE i > Len(p)
    <3> DEFINE k == i - Len(p)
    <3>1. k \in 1 .. Len(bytes) /\ i = Len(p) + k /\ a + i = Len(o) + k /\ i \in 1 .. Len(w) - a
      BY <2>2, <1>1, <1>2, <1>3
    <3> HIDE DEF k
    <3> QED
      BY <3>1, <1>1, <1>3, <1>4
  <2> QED
    BY <2>1, <2>2, <1>2, <1>3
<1>7. l = r
  BY <1>3, <1>4, <1>5, <1>6, SameElements, Zenon
<1> QED
  BY <1>7 DEF l, r, w, p

(* The next part of a sequence.                                            *)
LEMMA PartsMeet ==
  ASSUME NEW S, NEW s \in Seq(S), NEW a \in Nat, NEW n \in Nat, a + n <= Len(s),
         NEW part \in Seq(S), Len(part) = n, \A i \in 1 .. n : part[i] = s[a + i]
  PROVE  SubSeq(s, 1, a + n) = SubSeq(s, 1, a) \o part
<1> DEFINE l == SubSeq(s, 1, a + n)
           p == SubSeq(s, 1, a)
           r == p \o part
<1>1. Len(s) \in Nat /\ a + n \in Nat /\ a <= Len(s)
  OBVIOUS
<1>2. p \in Seq(S) /\ Len(p) = a /\ \A i \in 1 .. a : p[i] = s[i]
  BY <1>1
<1>3. l \in Seq(S) /\ Len(l) = a + n /\ \A i \in 1 .. a + n : l[i] = s[i]
  BY <1>1
<1> HIDE DEF p, l
<1>4. /\ r \in Seq(S) /\ Len(r) = a + n
      /\ \A i \in 1 .. a : r[i] = p[i]
      /\ \A i \in 1 .. n : r[a + i] = part[i]
  <2>1. p \in Seq(S) /\ part \in Seq(S)
    BY <1>2
  <2>2. Concatenates(S, p, part, r)
    BY <2>1, ConcatParts
  <2> HIDE DEF r
  <2> QED
    BY <2>2, <1>2 DEF Concatenates
<1> HIDE DEF r
<1>5. ASSUME NEW i \in 1 .. a + n PROVE l[i] = r[i]
  <2>1. CASE i <= a
    <3>1. i \in 1 .. a
      BY <2>1
    <3> QED
      BY <3>1, <1>2, <1>3, <1>4
  <2>2. CASE i > a
    <3> DEFINE k == i - a
    <3>1. k \in 1 .. n /\ i = a + k
      BY <2>2
    <3> HIDE DEF k
    <3> QED
      BY <3>1, <1>3, <1>4
  <2> QED
    BY <2>1, <2>2
<1>6. l = r
  BY <1>3, <1>4, <1>5, SameElements, Zenon
<1> QED
  BY <1>6 DEF l, r, p

(* An element of a sequence.                                               *)
LEMMA ElementType ==
  ASSUME NEW S, NEW s \in Seq(S), NEW i \in 1 .. Len(s)
  PROVE  s[i] \in S
OBVIOUS

--------------------------------------------------------------------------------
(* What a lookup in a finished table finds, and emits.                     *)

(* The bytes of a code, or of the escape of a byte.                        *)
CodesOf(found, b) ==
  IF EscapeBit(found.code) = 1 THEN <<CodeByte(found.code), b>> ELSE <<CodeByte(found.code)>>

(* The greedy choice: the code of the longest symbol that s starts with,   *)
(* or the escape of its first byte when there is none.                     *)
Longest(u, s, text) == \A x \in Range(u.symbols) : IsPrefix(x, s) => Len(x) <= Len(text)

Chosen(u, s, bytes, text) ==
  \/ \E i \in DOMAIN u.symbols :
       bytes = <<i - 1>> /\ text = u.symbols[i] /\ IsPrefix(text, s) /\ Longest(u, s, text)
  \/ /\ bytes = <<ESC, s[1]>> /\ text = <<s[1]>>
     /\ \A x \in Range(u.symbols) : ~ IsPrefix(x, s)

(* The code that a lookup finds, unless it is an escape.                   *)
LEMMA FoundCode ==
  ASSUME NEW t, Ready(t), NSymbols(t) > 0, NoneAcross(t), NEW u, u = FinalizeTable(t),
         NEW word \in [1 .. MaxLength -> Byte]
  PROVE  \/ FinalLookup(u, word).code \in 0 .. NSymbols(u) - 1
         \/ FinalLookup(u, word).code = CODE_MASK
<1> DEFINE k == BucketOf(word)
           p == First2(word)
           slot == u.hashTab[k]
           e == u.shortCodes[p]
<1>1. k \in Bucket /\ p \in Byte \X Byte
  <2>1. word \in Symbol
    BY TableAssumption DEF Symbol
  <2>2. 1 \in 1 .. MaxLength /\ 2 \in 1 .. MaxLength
    BY TableAssumption
  <2>3. word[1] \in Byte /\ word[2] \in Byte
    BY <2>2
  <2>4. p \in Byte \X Byte
    BY <2>3 DEF First2
  <2> QED
    BY <2>1, <2>4, BucketType
<1>2. CASE HashMatch(u, word)
  <2>1. slot # FreeSlot
    BY <1>2 DEF HashMatch
  <2>2. slot.code \in 0 .. NSymbols(u) - 1
    BY <2>1, <1>1, SlotLookedUp
  <2>3. FinalLookup(u, word) = [code |-> slot.code, len |-> Len(slot.str)]
    BY <1>2 DEF FinalLookup
  <2> HIDE DEF slot
  <2> QED
    BY <2>2, <2>3
<1>3. CASE ~ HashMatch(u, word)
  <2>1. FinalLookup(u, word) = e
    BY <1>3 DEF FinalLookup
  <2>2. TwoByteEntry(u, p, e) \/ OneByteEntry(u, p, e) \/ EscapeEntry(e)
    <3> HIDE DEF p
    <3> QED
      BY <1>1, PairLookedUp
  <2> HIDE DEF e, p
  <2> QED
    BY <2>1, <2>2 DEF TwoByteEntry, OneByteEntry, EscapeEntry
<1> QED
  BY <1>2, <1>3

(* A lookup makes the greedy choice for the bytes before the terminator.   *)
LEMMA LookupChooses ==
  ASSUME NEW t, Ready(t), NSymbols(t) > 0, NoneAcross(t), NEW u, u = FinalizeTable(t),
         NEW word \in [1 .. MaxLength -> Byte], NEW n \in 1 .. MaxLength,
         n < MaxLength => word[n + 1] = t.terminator,
         NEW s, s = SubSeq(word, 1, n)
  PROVE  \E text : /\ Chosen(u, s, CodesOf(FinalLookup(u, word), word[1]), text)
                   /\ Len(text) = FinalLookup(u, word).len
<1> DEFINE found == FinalLookup(u, word)
           match == SymbolOf(t, FindLongestSymbol(t, s))
<1>1. /\ s \in Symbol /\ Len(s) = n /\ s[1] = word[1] /\ n \in Nat /\ n >= 1
      /\ MaxLength \in Nat
  <2>1. /\ s \in Symbol /\ Len(s) = n /\ \A i \in 1 .. n : s[i] = word[i]
        /\ MaxLength \in Nat /\ n \in Nat /\ n >= 1
    BY FirstBytes
  <2> QED
    BY <2>1
<1>2. SameMatch(t, u, found, FindLongestSymbol(t, s), word[1])
  BY LookupPreserved
<1>3. IsPrefix(match, s) /\ \A x \in Range(t.symbols) : IsPrefix(x, s) => Len(x) <= Len(match)
  BY <1>1, AgreesLongest DEF Ready
<1>4. Range(u.symbols) = Range(t.symbols) /\ u.symbols \in Seq(Symbol)
  BY FinalSymbols
<1>5. /\ found.len = Len(match)
      /\ IF EscapeBit(found.code) = 1
           THEN /\ CodeByte(found.code) = ESC
                /\ match = <<word[1]>> /\ match \notin Range(u.symbols)
           ELSE u.symbols[found.code + 1] = match
  BY <1>2 DEF SameMatch
<1>6. found.code \in 0 .. NSymbols(u) - 1 \/ found.code = CODE_MASK
  BY FoundCode
<1> HIDE DEF found, match
<1>7. CASE EscapeBit(found.code) = 1
  <2>1. CodesOf(found, word[1]) = <<ESC, s[1]>> /\ match = <<s[1]>>
    BY <1>1, <1>5, <1>7 DEF CodesOf
  <2>2. ASSUME NEW x \in Range(u.symbols), IsPrefix(x, s) PROVE FALSE
    <3>1. x \in Symbol
      BY <1>4 DEF Range
    <3>2. Len(x) <= Len(match) /\ Len(match) = 1
      BY <2>1, <2>2, <1>3, <1>4
    <3>3. Len(x) \in Nat /\ Len(x) >= 1
      BY <3>1, SymbolIsSeq
    <3>4. Len(x) = 1
      <4> DEFINE l == Len(x)
      <4>1. l <= 1 /\ l \in Nat /\ l >= 1
        BY <3>2, <3>3
      <4> HIDE DEF l
      <4>2. l = 1
        BY <4>1
      <4> QED
        BY <4>2 DEF l
    <3>5. x = <<x[1]>>
      BY <3>1, <3>4, ShortSymbols
    <3>6. x[1] = s[1]
      <4>1. x \in Seq(Byte) /\ s \in Seq(Byte)
        BY <3>1, <1>1, SymbolIsSeq
      <4>2. \A i \in 1 .. Len(x) : x[i] = s[i]
        <5>1. \A q \in Seq(Byte) :
                IsPrefix(x, q) <=> Len(x) <= Len(q) /\ \A i \in 1 .. Len(x) : x[i] = q[i]
          BY <4>1, PrefixElements
        <5> QED
          BY <5>1, <4>1, <2>2, Zenon
      <4>3. 1 \in 1 .. Len(x)
        BY <3>4
      <4> QED
        BY <4>2, <4>3
    <3>7. x = match
      BY <3>5, <3>6, <2>1
    <3> QED
      BY <3>7, <2>2, <1>5, <1>7
  <2>3. Chosen(u, s, CodesOf(found, word[1]), match)
    BY <2>1, <2>2 DEF Chosen
  <2> QED
    BY <2>3, <1>5 DEF found
<1>8. CASE EscapeBit(found.code) # 1
  <2>1. found.code \in 0 .. NSymbols(u) - 1
    BY <1>6, <1>8, CodeBits
  <2>2. NSymbols(u) \in Nat /\ NSymbols(u) <= ESC
    BY LimitsOrder
  <2>3. CodeByte(found.code) = found.code /\ found.code \in Nat
    BY <2>1, <2>2, CodeKept
  <2> DEFINE i == found.code + 1
  <2>4. i \in 1 .. NSymbols(u) /\ i - 1 = found.code
    BY <2>1, <2>2, <2>3
  <2>5. CodesOf(found, word[1]) = <<i - 1>>
    BY <2>3, <2>4, <1>8 DEF CodesOf
  <2>6. match = u.symbols[i]
    BY <1>5, <1>8
  <2> HIDE DEF i
  <2>7. i \in DOMAIN u.symbols
    BY <2>4, <1>4 DEF NSymbols
  <2>8. Longest(u, s, match)
    BY <1>3, <1>4 DEF Longest
  <2>9. Chosen(u, s, CodesOf(found, word[1]), match)
    BY <2>5, <2>6, <2>7, <2>8, <1>3, Zenon DEF Chosen
  <2> QED
    BY <2>9, <1>5 DEF found
<1> QED
  BY <1>7, <1>8

(* The text that is chosen is a part of s.                                 *)
LEMMA ChosenPrefix ==
  ASSUME NEW u, u.symbols \in Seq(Symbol), NEW s \in Symbol, NEW bytes, NEW text,
         Chosen(u, s, bytes, text)
  PROVE  /\ text \in Seq(Byte) /\ Len(text) \in Nat /\ Len(text) >= 1 /\ Len(text) <= Len(s)
         /\ \A i \in 1 .. Len(text) : text[i] = s[i]
<1>1. s \in Seq(Byte) /\ Len(s) \in Nat /\ Len(s) >= 1 /\ \A i \in 1 .. Len(s) : s[i] \in Byte
  <2>1. s \in Seq(Byte) /\ Len(s) \in 1 .. MaxLength /\ \A i \in 1 .. Len(s) : s[i] \in Byte
    BY SymbolIsSeq
  <2> QED
    BY <2>1, TableAssumption
<1>2. CASE \E i \in DOMAIN u.symbols : text = u.symbols[i] /\ IsPrefix(text, s)
  <2>1. text \in Symbol /\ IsPrefix(text, s)
    <3>1. PICK i \in DOMAIN u.symbols : text = u.symbols[i] /\ IsPrefix(text, s)
      BY <1>2
    <3>2. u.symbols[i] \in Symbol
      BY <3>1
    <3> QED
      BY <3>1, <3>2
  <2>2. text \in Seq(Byte) /\ Len(text) \in Nat /\ Len(text) >= 1
    <3>1. text \in Seq(Byte) /\ Len(text) \in 1 .. MaxLength
      BY <2>1, SymbolIsSeq
    <3> QED
      BY <3>1, TableAssumption
  <2>3. \A q \in Seq(Byte) :
          IsPrefix(text, q) <=> Len(text) <= Len(q) /\ \A i \in 1 .. Len(text) : text[i] = q[i]
    BY <2>2, PrefixElements
  <2> QED
    BY <1>1, <2>1, <2>2, <2>3, Zenon
<1>3. CASE text = <<s[1]>>
  <2>1. 1 \in 1 .. Len(s)
    BY <1>1
  <2>2. s[1] \in Byte
    BY <2>1, <1>1
  <2>3. text \in Seq(Byte) /\ Len(text) = 1 /\ text[1] = s[1]
    BY <2>2, <1>3
  <2> QED
    BY <2>3, <1>1
<1> QED
  BY <1>2, <1>3 DEF Chosen

(* The receiver decodes a choice to the text that was chosen.              *)
LEMMA ChosenDecodes ==
  ASSUME NEW t, Ready(t), NSymbols(t) > 0, NEW u, u = FinalizeTable(t),
         NEW s \in Symbol, NEW bytes, NEW text, Chosen(u, s, bytes, text)
  PROVE  Decodes(ImportTable(ExportTable(u)), bytes, text)
<1> DEFINE decoder == ImportTable(ExportTable(u))
<1>1. /\ NSymbols(u) \in Nat /\ NSymbols(u) <= ESC /\ NSymbols(u) = NSymbols(t) /\ ESC \in Nat
  BY LimitsOrder
<1>2. CASE \E i \in DOMAIN u.symbols : bytes = <<i - 1>> /\ text = u.symbols[i]
  <2>1. PICK i \in DOMAIN u.symbols : bytes = <<i - 1>> /\ text = u.symbols[i]
    BY <1>2
  <2>2. u.symbols \in Seq(Symbol) /\ i \in 1 .. NSymbols(u)
    BY FinalSymbols DEF NSymbols
  <2> DEFINE c == i - 1
  <2>3. c \in Nat /\ c < ESC /\ c \in 0 .. ESC - 1 /\ c < NSymbols(t) /\ c + 1 = i
    BY <2>2, <1>1
  <2>4. bytes = <<c>>
    BY <2>1
  <2> HIDE DEF c
  <2>5. text \in Seq(Byte) /\ Len(text) \in 1 .. MaxLength
    <3>1. u.symbols[i] \in Symbol
      BY <2>2
    <3> QED
      BY <3>1, <2>1, SymbolIsSeq
  <2>6. decoder[c].symbol = text /\ decoder[c].len = Len(text)
    <3> DEFINE e == [len |-> Len(u.symbols[c + 1]), symbol |-> u.symbols[c + 1]]
               f == [len |-> MaxLength, symbol |-> Corrupt]
    <3>1. ImportTable(ExportTable(u))[c] = IF c < NSymbols(t) THEN e ELSE f
      BY <2>3, ImportExact
    <3>2. e.symbol = u.symbols[c + 1] /\ e.len = Len(u.symbols[c + 1])
      OBVIOUS
    <3> HIDE DEF e, f
    <3> QED
      BY <3>1, <3>2, <2>1, <2>3
  <2> HIDE DEF decoder
  <2>7. Decodes(decoder, <<c>>, decoder[c].symbol)
    <3>1. ProperCode(decoder, c)
      BY <2>3, <2>5, <2>6 DEF ProperCode
    <3> QED
      BY <3>1, DecodesCode
  <2> QED
    BY <2>4, <2>6, <2>7 DEF decoder
<1>3. CASE bytes = <<ESC, s[1]>> /\ text = <<s[1]>>
  <2>1. s[1] \in Byte
    <3>1. 1 \in 1 .. Len(s) /\ \A i \in 1 .. Len(s) : s[i] \in Byte
      BY SymbolIsSeq
    <3> QED
      BY <3>1
  <2>2. s[1] \in Nat
    <3>1. Byte \subseteq Nat
      BY TableAssumption
    <3> QED
      BY <2>1, <3>1
  <2> HIDE DEF decoder
  <2>3. Decodes(decoder, <<ESC, s[1]>>, <<s[1]>>)
    BY <2>1, <2>2, <1>1, DecodesEscape
  <2> QED
    BY <2>3, <1>3 DEF decoder
<1> QED
  BY <1>2, <1>3 DEF Chosen

(* Below suffixLim the hash table need not be asked: no longer symbol      *)
(* shares the first two bytes.                                             *)
LEMMA SuffixUnhashed ==
  ASSUME NEW t, Ready(t), NSymbols(t) > 0, NoneAcross(t), NEW u, u = FinalizeTable(t),
         NEW word \in [1 .. MaxLength -> Byte],
         CodeByte(u.shortCodes[First2(word)].code) < u.suffixLim
  PROVE  ~ HashMatch(u, word)
<1> SUFFICES ASSUME HashMatch(u, word) PROVE FALSE
  OBVIOUS
<1> DEFINE k == BucketOf(word)
           p == First2(word)
           x == u.hashTab[k].str
           e == u.shortCodes[p]
<1>1. /\ word \in Symbol /\ word \in Seq(Byte) /\ 1 \in 1 .. MaxLength /\ 2 \in 1 .. MaxLength
      /\ word[1] \in Byte /\ word[2] \in Byte
  <2>1. word \in Symbol /\ 1 \in 1 .. MaxLength /\ 2 \in 1 .. MaxLength
    BY TableAssumption DEF Symbol
  <2> QED
    BY <2>1, SymbolIsSeq
<1>2. k \in Bucket /\ p \in Byte \X Byte /\ p[1] = word[1] /\ p[2] = word[2] /\ p = <<word[1], word[2]>>
  BY <1>1, BucketType DEF First2
<1>3. /\ x \in Symbol /\ Len(x) >= 3 /\ u.hashTab[k].code \in 0 .. NSymbols(u) - 1
      /\ u.symbols[u.hashTab[k].code + 1] = x /\ u.terminator \notin Range(x)
      /\ IsPrefix(x, word)
  <2>1. u.hashTab[k] # FreeSlot /\ IsPrefix(x, word)
    BY DEF HashMatch
  <2> HIDE DEF k
  <2> QED
    BY <2>1, <1>2, SlotLookedUp
<1>4. /\ u.suffixLim \in Nat /\ ByteLim(u) \in Nat /\ NSymbols(u) \in Nat /\ ESC \in Nat
      /\ u.suffixLim <= ByteLim(u) /\ ByteLim(u) <= NSymbols(u) /\ NSymbols(u) <= ESC
  BY LimitsOrder
<1>5. u.symbols \in Seq(Symbol) /\ DOMAIN u.symbols = 1 .. NSymbols(u)
  BY FinalSymbols DEF NSymbols
<1>6. x \in Range(u.symbols)
  <2>1. u.hashTab[k].code + 1 \in 1 .. NSymbols(u)
    BY <1>3, <1>4
  <2> QED
    BY <2>1, <1>3, <1>5 DEF Range
<1>7. TwoByteEntry(u, p, e) \/ OneByteEntry(u, p, e) \/ EscapeEntry(e)
  <2> HIDE DEF p
  <2> QED
    BY <1>2, PairLookedUp
<1>8. CodeByte(e.code) < u.suffixLim
  OBVIOUS
<1> HIDE DEF k, x, e, p
<1>9. x[1] = p[1] /\ x[2] = p[2] /\ First2(x) = p /\ 1 \in 1 .. Len(x) /\ DOMAIN x = 1 .. Len(x)
  <2>1. x \in Seq(Byte) /\ Len(x) \in Nat
    BY <1>3, SymbolIsSeq
  <2>2. \A i \in 1 .. Len(x) : x[i] = word[i]
    <3>1. \A q \in Seq(Byte) :
            IsPrefix(x, q) <=> Len(x) <= Len(q) /\ \A i \in 1 .. Len(x) : x[i] = q[i]
      BY <2>1, PrefixElements
    <3> QED
      BY <3>1, <1>1, <1>3, Zenon
  <2>3. 1 \in 1 .. Len(x) /\ 2 \in 1 .. Len(x)
    BY <2>1, <1>3
  <2> QED
    BY <2>1, <2>2, <2>3, <1>2 DEF First2
<1>10. CASE TwoByteEntry(u, p, e)
  <2>1. e.code \in 0 .. NSymbols(u) - 1 /\ u.symbols[e.code + 1] = p
    BY <1>10 DEF TwoByteEntry
  <2>2. CodeByte(e.code) = e.code /\ e.code \in Nat
    BY <2>1, <1>4, CodeKept
  <2>3. Len(p) = 2 /\ First2(p) = p
    BY <1>2 DEF First2
  <2>4. ZT(u) = 1 => u.symbols[1] = <<0>>
    <3>1. u.zeroTerminated = t.zeroTerminated
      BY FinalLimits
    <3> QED
      BY <3>1, FirstCode DEF ZT
  <2>5. e.code \in ZT(u) .. NSymbols(u) - 1
    <3>1. ZT(u) \in {0, 1}
      BY DEF ZT
    <3>2. e.code = 0 => ZT(u) = 0
      <4> SUFFICES ASSUME e.code = 0, ZT(u) = 1 PROVE FALSE
        BY <3>1
      <4>1. p = <<0>>
        <5>1. e.code + 1 = 1 /\ u.symbols[e.code + 1] = p
          BY <2>1
        <5> QED
          BY <5>1, <2>4
      <4> QED
        BY <4>1, <2>3
    <3> QED
      BY <3>1, <3>2, <2>1, <2>2, <1>4
  <2>6. LET s == u.symbols[e.code + 1]
            longer == \E y \in Range(u.symbols) :
                        Len(y) > 2 /\ Len(s) >= 2 /\ First2(y) = First2(s)
        IN  e.code < u.suffixLim <=> Len(s) = 2 /\ ~ longer
    BY <2>5, FinalLayout
  <2>7. ~ \E y \in Range(u.symbols) : Len(y) > 2 /\ Len(p) >= 2 /\ First2(y) = First2(p)
    BY <2>1, <2>2, <2>6, <1>8
  <2>8. Len(x) > 2 /\ Len(p) >= 2
    <3>1. Len(x) \in Nat
      BY <1>3, SymbolIsSeq
    <3> QED
      BY <3>1, <2>3, <1>3
  <2> QED
    BY <2>3, <2>7, <2>8, <1>6, <1>9
<1>11. CASE OneByteEntry(u, p, e)
  <2>1. e.code \in 0 .. NSymbols(u) - 1
    BY <1>11 DEF OneByteEntry
  <2>2. CodeByte(e.code) = e.code /\ e.code \in Nat
    BY <2>1, <1>4, CodeKept
  <2>3. u.zeroTerminated /\ p[1] = 0
    BY <2>2, <1>4, <1>8, <1>11 DEF OneByteEntry
  <2>4. u.terminator = 0
    <3>1. u.zeroTerminated = t.zeroTerminated /\ u.terminator = t.terminator
      BY FinalLimits
    <3> QED
      BY <3>1, <2>3 DEF Ready, Terminated
  <2>5. x[1] \in Range(x)
    BY <1>9 DEF Range
  <2> QED
    BY <2>3, <2>4, <2>5, <1>3, <1>9
<1>12. CASE EscapeEntry(e)
  <2>1. CodeByte(e.code) = ESC
    BY <1>12, CodeBits DEF EscapeEntry
  <2> QED
    BY <2>1, <1>4, <1>8
<1> QED
  BY <1>7, <1>10, <1>11, <1>12
================================================================================
