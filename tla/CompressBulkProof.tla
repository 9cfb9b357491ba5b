--------------------------- MODULE CompressBulkProof ---------------------------
(***************************************************************************)
(* Proofs about the scalar compressor, for every table, alphabet, chunk    *)
(* length and slack.  Nothing is written outside the output, and the loop  *)
(* looks at nothing behind its buffer: before each step there is room for  *)
(* two bytes for each byte of the chunk that is left, and the slack.  The  *)
(* documented space is enough: what is written is never more than twice    *)
(* what is consumed.  For the tables that finalize leaves, what is written *)
(* decodes to what is consumed, and the loop implements the greedy         *)
(* compressor: each step emits what a lookup in the finished table finds,  *)
(* which by LookupChooses is the longest symbol that the chunk goes on     *)
(* with.                                                                   *)
(***************************************************************************)
EXTENDS CompressBulk, TableTheorems

(* What the call was given, and the string it is at.                       *)
Arguments ==
  /\ table \in Tables
  /\ strIn \in Seq(Seq(Byte)) /\ strIn \in Inputs(table)
  /\ size \in Nat
  /\ curLine \in Nat /\ curLine >= 1
  /\ pc \in {"chunk", "emit", "returned"}
  /\ pc # "returned" => curLine <= Len(strIn)
  /\ curOff \in Nat
  /\ pc # "returned" => curOff <= Len(Line)

(* The buffer, and the chunk that lies in it.                              *)
Buffered ==
  /\ buf \in [BufIndex -> Byte]
  /\ chunk \in Nat /\ chunk <= ChunkMax
  /\ pc = "emit" => curOff + chunk <= Len(Line)
  /\ cur \in Nat

(* The account of the room.                                                *)
Accounted ==
  /\ out \in Seq(Nat)
  /\ touched \in Nat
  /\ Len(out) <= touched /\ touched <= size
  /\ pc = "emit" /\ cur <= chunk => Len(out) + 2 * (chunk - cur) + Slack <= size

IInv == Arguments /\ Buffered /\ Accounted

--------------------------------------------------------------------------------
(* The constants of the table, as numbers.                                 *)
LEMMA ByteType ==
  /\ Byte \subseteq Nat /\ 0 \in Byte /\ CodeBase \in Nat \ {0}
  /\ MaxLength \in Nat /\ MaxLength >= 3
BY TableAssumption

(* The narrowing of a code to a byte.                                      *)
LEMMA CodeByteType == ASSUME NEW c \in Nat PROVE CodeByte(c) \in Nat
BY ByteType DEF CodeByte

(* The smaller and the larger of two numbers.                              *)
LEMMA MinOfTwo ==
  ASSUME NEW a \in Int, NEW b \in Int
  PROVE  Min({a, b}) = IF a <= b THEN a ELSE b
BY DEF Min

LEMMA MaxOfTwo ==
  ASSUME NEW a \in Int, NEW b \in Int
  PROVE  Max({a, b}) = IF a >= b THEN a ELSE b
BY DEF Max

(* The chunk that comes next lies in the string, and in the buffer.        *)
LEMMA NextChunkType ==
  ASSUME Arguments, pc # "returned"
  PROVE  /\ Line \in Seq(Byte)
         /\ NextChunk \in Nat /\ NextChunk <= ChunkMax
         /\ curOff + NextChunk <= Len(Line)
<1>1. Line \in Seq(Byte) /\ Len(Line) \in Nat
  BY DEF Arguments, Line
<1>2. Len(Line) - curOff \in Nat /\ ChunkMax \in Nat
  BY <1>1, CompressAssumption DEF Arguments
<1>3. NextChunk = IF ChunkMax <= Len(Line) - curOff THEN ChunkMax ELSE Len(Line) - curOff
  BY <1>2, MinOfTwo DEF NextChunk
<1> HIDE DEF Line
<1> QED
  BY <1>1, <1>2, <1>3 DEF Arguments

(* What the loop looks at is in the buffer, whatever lies there.           *)
LEMMA WordType ==
  ASSUME IInv, InLoop
  PROVE  /\ \A i \in 1 .. MaxLength : cur + i - 1 \in BufIndex
         /\ Word \in [1 .. MaxLength -> Byte]
         /\ Word[1] \in Nat
         /\ First2(Word) \in Byte \X Byte
         /\ BucketOf(Word) \in Bucket
<1>1. \A i \in 1 .. MaxLength : cur + i - 1 \in BufIndex
  BY ByteType, CompressAssumption DEF IInv, Buffered, InLoop, BufIndex
<1>2. Word \in [1 .. MaxLength -> Byte]
  BY <1>1 DEF Word, IInv, Buffered
<1>3. Word[1] \in Byte /\ Word[2] \in Byte /\ Word[3] \in Byte
  BY <1>2, ByteType
<1>4. Key(Word) \in [1 .. 3 -> Byte]
  <2>1. Word \in Seq(Byte) /\ Len(Word) = MaxLength
    BY <1>2, ByteType
  <2> HIDE DEF Word
  <2> QED
    BY <2>1, <1>3, <1>2, ByteType DEF Key
<1>5. BucketOf(Word) \in Bucket
  BY <1>4, TableAssumption DEF BucketOf
<1> QED
  BY <1>1, <1>2, <1>3, <1>5, ByteType DEF First2

(* The entry of shortCodes that a step finds.                              *)
LEMMA ShortType ==
  ASSUME IInv, InLoop
  PROVE  /\ Short.code \in Nat /\ Short.len \in {1, 2}
         /\ CodeByte(Short.code) \in Nat
         /\ CodeOrEscape \in Seq(Nat) /\ Len(CodeOrEscape) \in Nat /\ Len(CodeOrEscape) <= 2
<1>1. Short.code \in Nat /\ Short.len \in {1, 2}
  BY WordType, CompressAssumption DEF Short, IInv, Arguments
<1>2. CodeByte(Short.code) \in Nat
  BY <1>1, CodeByteType
<1>3. Word[1] \in Nat
  BY WordType
<1> QED
  BY <1>1, <1>2, <1>3 DEF CodeOrEscape

(* The entry of the hash table, when it matches.                           *)
LEMMA SlotType ==
  ASSUME IInv, InLoop, HashMatch(table, Word)
  PROVE  LET slot == table.hashTab[BucketOf(Word)]
         IN  CodeByte(slot.code) \in Nat /\ Len(slot.str) \in Nat /\ Len(slot.str) >= 1
<1> DEFINE slot == table.hashTab[BucketOf(Word)]
<1>1. slot # FreeSlot
  BY DEF HashMatch
<1>2. BucketOf(Word) \in Bucket /\ table \in Tables
  BY WordType DEF IInv, Arguments
<1>3. slot.code \in Nat /\ slot.str \in Seq(Byte) \ {<<>>}
  BY <1>1, <1>2, CompressAssumption
<1> HIDE DEF slot
<1>4. Len(slot.str) \in Nat /\ Len(slot.str) >= 1
  BY <1>3
<1>5. CodeByte(slot.code) \in Nat
  BY <1>3, CodeByteType
<1> QED
  BY <1>4, <1>5 DEF slot

(* Bytes appended to the output, which is written up to reach for them.    *)
LEMMA AppendBytes ==
  ASSUME NEW o \in Seq(Nat), NEW bytes \in Seq(Nat), NEW t \in Nat, NEW reach \in Nat,
         Len(o) + Len(bytes) <= reach, reach <= Len(o) + 2
  PROVE  /\ o \o bytes \in Seq(Nat) /\ Len(o \o bytes) <= Len(o) + 2
         /\ Max({t, reach}) \in Nat /\ Len(o \o bytes) <= Max({t, reach})
         /\ Max({t, reach}) <= t \/ Max({t, reach}) <= Len(o) + 2
<1>1. /\ o \o bytes \in Seq(Nat) /\ Len(o \o bytes) = Len(o) + Len(bytes)
      /\ Len(o) \in Nat /\ Len(bytes) \in Nat
  OBVIOUS
<1>2. Max({t, reach}) = IF t >= reach THEN t ELSE reach
  BY MaxOfTwo
<1> QED
  BY <1>1, <1>2

(* A step that writes two bytes at most and passes one byte at least.      *)
Passes ==
  /\ out' \in Seq(Nat) /\ Len(out') <= Len(out) + 2
  /\ cur' \in Nat /\ cur' >= cur + 1
  /\ touched' \in Nat /\ Len(out') <= touched'
  /\ touched' <= touched \/ touched' <= Len(out) + 2
  /\ UNCHANGED <<table, strIn, size, pc, curLine, curOff, chunk, buf>>

(* Such a step spends what the account has for the bytes it passes.        *)
LEMMA PassesPreserves == ASSUME IInv, InLoop, Passes PROVE IInv'
<1>1. Arguments'
  BY DEF Passes, IInv, Arguments, Line
<1>2. Buffered'
  BY DEF Passes, IInv, Buffered, Line
<1>3. Accounted'
  <2>1. /\ cur \in Nat /\ chunk \in Nat /\ cur < chunk /\ pc = "emit"
        /\ touched \in Nat /\ size \in Nat /\ touched <= size /\ Slack \in Nat
        /\ Len(out) \in Nat /\ Len(out) + 2 * (chunk - cur) + Slack <= size
    BY CompressAssumption DEF IInv, Arguments, Buffered, Accounted, InLoop
  <2>2. Len(out) + 2 <= size
    BY <2>1
  <2>3. Len(out') \in Nat
    BY DEF Passes
  <2>4. touched' <= size'
    BY <2>1, <2>2 DEF Passes
  <2>5. cur' <= chunk' => Len(out') + 2 * (chunk' - cur') + Slack <= size'
    <3> DEFINE n == Len(out)
               new == Len(out')
               next == cur'
    <3>1. /\ n \in Nat /\ new \in Nat /\ next \in Nat /\ new <= n + 2 /\ next >= cur + 1
          /\ n + 2 * (chunk - cur) + Slack <= size
      BY <2>1, <2>3 DEF Passes
    <3> HIDE DEF n, new, next
    <3>2. next <= chunk => new + 2 * (chunk - next) + Slack <= size
      BY <3>1, <2>1
    <3>3. chunk' = chunk /\ size' = size
      BY DEF Passes
    <3> QED
      BY <3>2, <3>3 DEF new, next
  <2> QED
    BY <2>4, <2>5 DEF Passes, Accounted
<1> QED
  BY <1>1, <1>2, <1>3 DEF IInv

--------------------------------------------------------------------------------
(* A call begins with an empty output.                                     *)
LEMMA InitInv == Init => IInv
<1> SUFFICES ASSUME Init PROVE IInv
  OBVIOUS
<1>1. table \in Tables /\ size \in Nat /\ strIn \in Seq(Seq(Byte))
  BY CompressAssumption DEF Init
<1>2. strIn # <<>> => 1 <= Len(strIn)
  BY <1>1
<1>3. pc \in {"chunk", "returned"} /\ (pc = "chunk" => strIn # <<>>)
  BY DEF Init
<1>4. Arguments
  <2>1. pc # "returned" => Line \in Seq(Byte)
    BY <1>1, <1>2, <1>3 DEF Init, Line
  <2> QED
    BY <1>1, <1>2, <1>3, <2>1 DEF Init, Arguments
<1>5. Buffered
  BY <1>3, ByteType, CompressAssumption DEF Init, Buffered
<1>6. Accounted
  BY <1>1, <1>3 DEF Init, Accounted
<1> QED
  BY <1>4, <1>5, <1>6 DEF IInv

(* The check of the room opens the account of a chunk.                     *)
LEMMA StartChunkPreserves == ASSUME IInv, StartChunk PROVE IInv'
<1>1. /\ pc = "chunk" /\ pc' = "emit" /\ cur' = 0 /\ chunk' = NextChunk
      /\ UNCHANGED <<table, strIn, size, curLine, curOff, out, touched>>
  BY DEF StartChunk, arguments
<1>2. /\ Line \in Seq(Byte) /\ NextChunk \in Nat /\ NextChunk <= ChunkMax
      /\ curOff + NextChunk <= Len(Line)
  BY <1>1, NextChunkType DEF IInv
<1>3. Line' = Line
  BY <1>1 DEF Line
<1>4. Arguments'
  BY <1>1, <1>3 DEF IInv, Arguments
<1>5. Buffered'
  <2>1. buf' = Filled(buf, curOff, NextChunk)
    BY DEF StartChunk
  <2>2. table.terminator \in Byte
    BY CompressAssumption DEF IInv, Arguments
  <2>3. ASSUME NEW i \in BufIndex, i < NextChunk PROVE Line[curOff + i + 1] \in Byte
    <3>1. curOff + i + 1 \in 1 .. Len(Line)
      BY <1>2, <2>3, CompressAssumption, ByteType DEF BufIndex, IInv, Arguments
    <3> HIDE DEF Line
    <3> QED
      BY <3>1, <1>2
  <2>4. buf \in [BufIndex -> Byte]
    BY DEF IInv, Buffered
  <2> HIDE DEF Line
  <2>5. buf' \in [BufIndex -> Byte]
    BY <2>1, <2>2, <2>3, <2>4 DEF Filled
  <2> QED
    BY <1>1, <1>2, <1>3, <2>5 DEF Buffered
<1>6. Accounted'
  <2>1. 2 * NextChunk + Slack <= size - Len(out)
    BY DEF StartChunk, Room
  <2>2. Len(out) \in Nat /\ size \in Nat /\ Slack \in Nat
    BY CompressAssumption DEF IInv, Arguments, Accounted
  <2>3. Len(out) + 2 * (NextChunk - 0) + Slack <= size
    BY <1>2, <2>1, <2>2
  <2> QED
    BY <1>1, <2>3 DEF IInv, Accounted
<1> QED
  BY <1>4, <1>5, <1>6 DEF IInv

(* The end of a chunk closes it, and there is a string left to go on with. *)
LEMMA EndChunkPreserves == ASSUME IInv, EndChunk PROVE IInv'
<1>1. /\ pc = "emit" /\ pc' \in {"chunk", "returned"} /\ cur' = 0 /\ chunk' = 0
      /\ UNCHANGED <<table, strIn, size, buf, out, touched>>
  BY DEF EndChunk, arguments
<1>2. Buffered'
  BY <1>1, CompressAssumption DEF IInv, Buffered
<1>3. Accounted'
  BY <1>1 DEF IInv, Accounted
<1>4. Arguments'
  <2>1. /\ Line \in Seq(Byte) /\ strIn \in Seq(Seq(Byte))
        /\ curLine \in Nat /\ curLine >= 1 /\ curLine <= Len(strIn)
    BY <1>1 DEF IInv, Arguments, Line
  <2>2. CASE MoreChunks
    <3>1. curOff' = curOff + chunk /\ curLine' = curLine /\ Line' = Line
      BY <1>1, <2>2 DEF EndChunk, Line
    <3> QED
      BY <1>1, <2>1, <2>2, <3>1 DEF MoreChunks, IInv, Arguments, Buffered
  <2>3. CASE ~ MoreChunks
    <3>1. /\ curOff' = 0 /\ curLine' = curLine + 1
          /\ pc' = IF curLine < Len(strIn) THEN "chunk" ELSE "returned"
      BY <2>3 DEF EndChunk
    <3>2. pc' # "returned" => curLine' <= Len(strIn')
      BY <1>1, <2>1, <3>1
    <3>3. pc' # "returned" => Line' \in Seq(Byte)
      BY <1>1, <2>1, <3>1, <3>2 DEF Line
    <3> QED
      BY <1>1, <2>1, <3>1, <3>2, <3>3 DEF IInv, Arguments
  <2> QED
    BY <2>2, <2>3
<1> QED
  BY <1>2, <1>3, <1>4 DEF IInv

(* Every branch of the loop is a step that passes.                         *)
LEMMA EmitCodePreserves == ASSUME IInv, EmitCode PROVE IInv'
<1>1. InLoop
  BY DEF EmitCode, EmitShortcut, EmitHashed, EmitPredicated, EmitTwoBytes, EmitOneByte
<1>2. /\ <<CodeByte(Short.code)>> \in Seq(Nat) /\ Len(<<CodeByte(Short.code)>>) = 1
      /\ CodeOrEscape \in Seq(Nat) /\ Len(CodeOrEscape) \in Nat /\ Len(CodeOrEscape) <= 2
      /\ Short.len \in Nat /\ Short.len >= 1
  BY <1>1, ShortType
<1>3. out \in Seq(Nat) /\ Len(out) \in Nat /\ touched \in Nat /\ cur \in Nat
  BY DEF IInv, Accounted, Buffered
<1>4. CASE EmitShortcut
  <2> DEFINE reach == Len(out) + 1
  <2>1. /\ out' = out \o <<CodeByte(Short.code)>>
        /\ cur' = cur + 2 /\ touched' = Max({touched, reach})
        /\ UNCHANGED <<table, strIn, size, pc, curLine, curOff, chunk, buf>>
    BY <1>4 DEF EmitShortcut, Emit, arguments
  <2>2. /\ reach \in Nat /\ reach <= Len(out) + 2
        /\ Len(out) + Len(<<CodeByte(Short.code)>>) <= reach
    BY <1>2, <1>3
  <2> HIDE DEF reach
  <2>3. /\ out \o <<CodeByte(Short.code)>> \in Seq(Nat)
        /\ Len(out \o <<CodeByte(Short.code)>>) <= Len(out) + 2
        /\ Max({touched, reach}) \in Nat
        /\ Len(out \o <<CodeByte(Short.code)>>) <= Max({touched, reach})
        /\ Max({touched, reach}) <= touched \/ Max({touched, reach}) <= Len(out) + 2
    BY <1>2, <1>3, <2>2, AppendBytes
  <2>4. Passes
    BY <1>2, <1>3, <2>1, <2>3 DEF Passes
  <2> QED
    BY <1>1, <2>4, PassesPreserves
<1>5. CASE EmitHashed
  <2> DEFINE slot == table.hashTab[BucketOf(Word)]
  <2> DEFINE reach == Len(out) + 2
  <2>1. /\ out' = out \o <<CodeByte(slot.code)>>
        /\ cur' = cur + Len(slot.str) /\ touched' = Max({touched, reach})
        /\ UNCHANGED <<table, strIn, size, pc, curLine, curOff, chunk, buf>>
    BY <1>5 DEF EmitHashed, Emit, arguments
  <2>2. CodeByte(slot.code) \in Nat /\ Len(slot.str) \in Nat /\ Len(slot.str) >= 1
    BY <1>1, <1>5, SlotType DEF EmitHashed
  <2> HIDE DEF slot
  <2>3. /\ <<CodeByte(slot.code)>> \in Seq(Nat)
        /\ reach \in Nat /\ reach <= Len(out) + 2
        /\ Len(out) + Len(<<CodeByte(slot.code)>>) <= reach
    BY <1>3, <2>2
  <2> HIDE DEF reach
  <2>4. /\ out \o <<CodeByte(slot.code)>> \in Seq(Nat)
        /\ Len(out \o <<CodeByte(slot.code)>>) <= Len(out) + 2
        /\ Max({touched, reach}) \in Nat
        /\ Len(out \o <<CodeByte(slot.code)>>) <= Max({touched, reach})
        /\ Max({touched, reach}) <= touched \/ Max({touched, reach}) <= Len(out) + 2
    BY <1>3, <2>3, AppendBytes
  <2>5. Passes
    BY <1>2, <1>3, <2>1, <2>4, <2>2 DEF Passes
  <2> QED
    BY <1>1, <2>5, PassesPreserves
<1>6. CASE EmitPredicated
  <2> DEFINE reach == Len(out) + 2
  <2>1. /\ out' = out \o CodeOrEscape
        /\ cur' = cur + Short.len /\ touched' = Max({touched, reach})
        /\ UNCHANGED <<table, strIn, size, pc, curLine, curOff, chunk, buf>>
    BY <1>6 DEF EmitPredicated, Emit, arguments
  <2>2. reach \in Nat /\ Len(out) + Len(CodeOrEscape) <= reach /\ reach <= Len(out) + 2
    BY <1>2, <1>3
  <2> HIDE DEF reach
  <2>3. /\ out \o CodeOrEscape \in Seq(Nat)
        /\ Len(out \o CodeOrEscape) <= Len(out) + 2
        /\ Max({touched, reach}) \in Nat
        /\ Len(out \o CodeOrEscape) <= Max({touched, reach})
        /\ Max({touched, reach}) <= touched \/ Max({touched, reach}) <= Len(out) + 2
    BY <1>2, <1>3, <2>2, AppendBytes
  <2>4. Passes
    BY <1>2, <1>3, <2>1, <2>3 DEF Passes
  <2> QED
    BY <1>1, <2>4, PassesPreserves
<1>7. CASE EmitTwoBytes
  <2> DEFINE reach == Len(out) + 2
  <2>1. /\ out' = out \o <<CodeByte(Short.code)>>
        /\ cur' = cur + 2 /\ touched' = Max({touched, reach})
        /\ UNCHANGED <<table, strIn, size, pc, curLine, curOff, chunk, buf>>
    BY <1>7 DEF EmitTwoBytes, Emit, arguments
  <2>2. /\ reach \in Nat /\ reach <= Len(out) + 2
        /\ Len(out) + Len(<<CodeByte(Short.code)>>) <= reach
    BY <1>2, <1>3
  <2> HIDE DEF reach
  <2>3. /\ out \o <<CodeByte(Short.code)>> \in Seq(Nat)
        /\ Len(out \o <<CodeByte(Short.code)>>) <= Len(out) + 2
        /\ Max({touched, reach}) \in Nat
        /\ Len(out \o <<CodeByte(Short.code)>>) <= Max({touched, reach})
        /\ Max({touched, reach}) <= touched \/ Max({touched, reach}) <= Len(out) + 2
    BY <1>2, <1>3, <2>2, AppendBytes
  <2>4. Passes
    BY <1>2, <1>3, <2>1, <2>3 DEF Passes
  <2> QED
    BY <1>1, <2>4, PassesPreserves
<1>8. CASE EmitOneByte
  <2> DEFINE reach == Len(out) + 2
  <2>1. /\ out' = out \o CodeOrEscape
        /\ cur' = cur + 1 /\ touched' = Max({touched, reach})
        /\ UNCHANGED <<table, strIn, size, pc, curLine, curOff, chunk, buf>>
    BY <1>8 DEF EmitOneByte, Emit, arguments
  <2>2. reach \in Nat /\ Len(out) + Len(CodeOrEscape) <= reach /\ reach <= Len(out) + 2
    BY <1>2, <1>3
  <2> HIDE DEF reach
  <2>3. /\ out \o CodeOrEscape \in Seq(Nat)
        /\ Len(out \o CodeOrEscape) <= Len(out) + 2
        /\ Max({touched, reach}) \in Nat
        /\ Len(out \o CodeOrEscape) <= Max({touched, reach})
        /\ Max({touched, reach}) <= touched \/ Max({touched, reach}) <= Len(out) + 2
    BY <1>2, <1>3, <2>2, AppendBytes
  <2>4. Passes
    BY <1>2, <1>3, <2>1, <2>3 DEF Passes
  <2> QED
    BY <1>1, <2>4, PassesPreserves
<1> QED
  BY <1>4, <1>5, <1>6, <1>7, <1>8 DEF EmitCode

(* The invariant is inductive.                                             *)
LEMMA NextInv == IInv /\ [Next]_vars => IInv'
<1> SUFFICES ASSUME IInv, [Next]_vars PROVE IInv'
  OBVIOUS
<1>1. CASE OutOfMemory
  BY <1>1 DEF OutOfMemory, IInv, Arguments, Buffered, Accounted, arguments, Line
<1>2. CASE StartChunk
  BY <1>2, StartChunkPreserves
<1>3. CASE EmitCode
  BY <1>3, EmitCodePreserves
<1>4. CASE EndChunk
  BY <1>4, EndChunkPreserves
<1>5. CASE UNCHANGED vars
  BY <1>5 DEF vars, IInv, Arguments, Buffered, Accounted, Line
<1> QED
  BY <1>1, <1>2, <1>3, <1>4, <1>5 DEF Next

(* For every table whose entries are not empty, every batch and every size *)
(* of the output, compressBulk writes within the output only.              *)
THEOREM InBoundsAlways == Spec => []InBounds
<1>1. IInv => InBounds
  BY DEF IInv, Accounted, InBounds
<1> QED
  BY InitInv, NextInv, <1>1, PTL DEF Spec

(* And the eight bytes that the loop looks at lie in its buffer.           *)
LooksInside == InLoop => \A i \in 1 .. MaxLength : cur + i - 1 \in DOMAIN buf

THEOREM LooksInsideAlways == Spec => []LooksInside
<1>1. IInv => LooksInside
  BY WordType DEF LooksInside, IInv, Buffered
<1> QED
  BY InitInv, NextInv, <1>1, PTL DEF Spec

--------------------------------------------------------------------------------
(* What the loop faces: the chunk, the terminator behind it, and whatever  *)
(* else lies in the buffer.                                                *)
Faced ==
  pc = "emit" =>
    /\ \A i \in 0 .. chunk - 1 : buf[i] = Line[curOff + i + 1]
    /\ buf[chunk] = table.terminator

(* A longer symbol ends within the chunk, since none contains the byte     *)
(* behind it.                                                              *)
LEMMA HashedInside ==
  ASSUME IInv, Faced, InLoop, HashMatch(table, Word)
  PROVE  cur + Len(table.hashTab[BucketOf(Word)].str) <= chunk
<1> DEFINE str == table.hashTab[BucketOf(Word)].str
<1>1. /\ BucketOf(Word) \in Bucket /\ table \in Tables
      /\ table.hashTab[BucketOf(Word)] # FreeSlot
  BY WordType DEF HashMatch, IInv, Arguments
<1>2. str \in Seq(Byte) /\ table.terminator \notin Range(str)
  BY <1>1, CompressAssumption, LayoutAssumption
<1>3. Word \in Seq(Byte) /\ Len(Word) = MaxLength /\ MaxLength \in Nat
  BY WordType, ByteType
<1>4. IsPrefix(str, Word)
  BY DEF HashMatch
<1> HIDE DEF str
<1>5. Len(str) <= MaxLength /\ \A i \in 1 .. Len(str) : str[i] = Word[i]
  BY <1>2, <1>3, <1>4 DEF IsPrefix
<1>6. /\ cur \in Nat /\ chunk \in Nat /\ cur < chunk /\ Len(str) \in Nat
      /\ buf[chunk] = table.terminator
  BY <1>2 DEF IInv, Buffered, Faced, InLoop
<1>7. ASSUME cur + Len(str) > chunk PROVE FALSE
  <2>1. chunk - cur + 1 \in 1 .. Len(str)
    BY <1>6, <1>7
  <2>2. Word[chunk - cur + 1] = buf[chunk]
    <3>1. chunk - cur + 1 \in 1 .. MaxLength
      BY <2>1, <1>3, <1>5, <1>6
    <3>2. cur + (chunk - cur + 1) - 1 = chunk
      BY <1>6
    <3> QED
      BY <3>1, <3>2 DEF Word
  <2>3. str[chunk - cur + 1] = table.terminator
    BY <2>1, <2>2, <1>5, <1>6
  <2>4. str[chunk - cur + 1] \in Range(str)
    BY <2>1, <1>2 DEF Range
  <2> QED
    BY <2>3, <2>4, <1>2
<1> QED
  BY <1>6, <1>7 DEF str

(* Two bytes end within the chunk, too, but for the final zero.            *)
LEMMA TwoInside ==
  ASSUME IInv, Faced, InLoop, PassesForTwo(table, Short), cur + 2 > chunk
  PROVE  /\ table.zeroTerminated
         /\ cur + 2 = chunk + 1
         /\ curOff + chunk = Len(Line)
         /\ Line[Len(Line)] = 0
<1>1. /\ cur \in Nat /\ chunk \in Nat /\ cur = chunk - 1 /\ curOff \in Nat
      /\ curLine \in 1 .. Len(strIn) /\ Line \in Seq(Byte) /\ curOff + chunk <= Len(Line)
  BY DEF IInv, Arguments, Buffered, InLoop, Line
<1>2. Word[1] = buf[cur] /\ Word[2] = buf[cur + 1]
  <2>1. 1 \in 1 .. MaxLength /\ 2 \in 1 .. MaxLength /\ cur + 1 - 1 = cur /\ cur + 2 - 1 = cur + 1
    BY <1>1, ByteType
  <2> QED
    BY <2>1 DEF Word
<1>3. Word[1] = Line[curOff + chunk] /\ Word[2] = table.terminator
  <2>1. cur \in 0 .. chunk - 1 /\ curOff + cur + 1 = curOff + chunk /\ cur + 1 = chunk
    BY <1>1
  <2> HIDE DEF Word, Line
  <2> QED
    BY <1>2, <2>1 DEF Faced, InLoop
<1>4. First2(Word) \in Byte \X Byte /\ First2(Word)[1] = Word[1] /\ First2(Word)[2] = Word[2]
  BY WordType DEF First2
<1>5. table.zeroTerminated /\ Word[1] = 0
  <2> DEFINE p == First2(Word)
  <2>1. table \in Tables /\ p \in Byte \X Byte /\ PassesForTwo(table, table.shortCodes[p])
    BY <1>4 DEF Short, IInv, Arguments
  <2>2. table.terminator \notin {p[1], p[2]} \/ (table.zeroTerminated /\ p[1] = 0)
    BY <2>1, LayoutAssumption
  <2> QED
    BY <1>3, <1>4, <2>2
<1>6. curOff + chunk \in 1 .. Len(Line)
  BY <1>1
<1>7. \A k \in DOMAIN Line : Line[k] = 0 <=> k = Len(Line)
  <2>1. table \in Tables /\ strIn \in Inputs(table) /\ curLine \in DOMAIN strIn
    BY <1>1 DEF IInv, Arguments
  <2> QED
    BY <2>1, <1>5, LayoutAssumption DEF Line
<1>8. DOMAIN Line = 1 .. Len(Line)
  BY <1>1
<1> HIDE DEF Line, Word
<1>9. Line[curOff + chunk] = 0
  BY <1>3, <1>5
<1>10. curOff + chunk = Len(Line)
  BY <1>6, <1>7, <1>8, <1>9
<1>11. cur + 2 = chunk + 1
  BY <1>1
<1> QED
  BY <1>5, <1>9, <1>10, <1>11

(* The loop keeps what it faces; the next chunk brings its own.            *)
LEMMA FacedNext == ASSUME IInv, Faced, [Next]_vars PROVE Faced'
<1>1. CASE StartChunk
  <2>1. NextChunk \in Nat /\ NextChunk <= ChunkMax /\ ChunkMax \in Nat
    BY <1>1, NextChunkType, CompressAssumption DEF StartChunk, IInv
  <2>2. /\ chunk' = NextChunk /\ buf' = Filled(buf, curOff, NextChunk)
        /\ curOff' = curOff /\ Line' = Line /\ table' = table
    BY <1>1 DEF StartChunk, arguments, Line
  <2>3. \A i \in 0 .. NextChunk : i \in BufIndex
    BY <2>1, ByteType DEF BufIndex
  <2> HIDE DEF Line, NextChunk
  <2>4. ASSUME NEW i \in 0 .. NextChunk - 1 PROVE buf'[i] = Line[curOff + i + 1]
    <3>1. i \in BufIndex /\ i < NextChunk
      BY <2>1, <2>3
    <3> QED
      BY <2>2, <3>1 DEF Filled
  <2>5. buf'[NextChunk] = table.terminator
    <3>1. NextChunk \in BufIndex /\ ~ (NextChunk < NextChunk)
      BY <2>1, <2>3
    <3> QED
      BY <2>2, <3>1 DEF Filled
  <2> QED
    BY <2>2, <2>4, <2>5 DEF Faced
<1>2. CASE OutOfMemory \/ EndChunk
  <2>1. pc' # "emit"
    BY <1>2 DEF OutOfMemory, EndChunk
  <2> QED
    BY <2>1 DEF Faced
<1>3. CASE EmitCode \/ UNCHANGED vars
  <2>1. UNCHANGED <<pc, chunk, buf, curOff, table, strIn, curLine>>
    BY <1>3 DEF EmitCode, EmitShortcut, EmitHashed, EmitPredicated, EmitTwoBytes,
                EmitOneByte, Emit, arguments, vars
  <2> QED
    BY <2>1 DEF Faced, Line
<1> QED
  BY <1>1, <1>2, <1>3 DEF Next

(* A step that stays in the chunk, or is the step of the final zero.       *)
LEMMA NoOverrunNext == ASSUME IInv, Faced, NoOverrun, [Next]_vars PROVE NoOverrun'
<1>1. CASE StartChunk \/ OutOfMemory \/ EndChunk
  <2>1. pc' # "emit" \/ (cur' = 0 /\ chunk' = NextChunk)
    BY <1>1 DEF StartChunk, OutOfMemory, EndChunk
  <2>2. CASE StartChunk
    <3>1. NextChunk \in Nat /\ cur' = 0 /\ chunk' = NextChunk
      BY <2>2, NextChunkType DEF StartChunk, IInv
    <3> QED
      BY <3>1 DEF NoOverrun
  <2>3. CASE ~ StartChunk
    BY <1>1, <2>3 DEF OutOfMemory, EndChunk, NoOverrun
  <2> QED
    BY <2>2, <2>3
<1>2. CASE UNCHANGED vars
  BY <1>2 DEF vars, NoOverrun, Line
<1>3. CASE EmitCode
  <2>1. InLoop /\ cur \in Nat /\ chunk \in Nat /\ cur < chunk
    BY <1>3 DEF EmitCode, EmitShortcut, EmitHashed, EmitPredicated, EmitTwoBytes,
                EmitOneByte, InLoop, IInv, Buffered
  <2>2. /\ UNCHANGED <<pc, chunk, curOff, table>> /\ Line' = Line
    BY <1>3 DEF EmitCode, EmitShortcut, EmitHashed, EmitPredicated, EmitTwoBytes,
                EmitOneByte, Emit, arguments, Line
  <2>3. Short.len \in {1, 2}
    BY <2>1, ShortType
  <2>4. \/ cur' = cur + 1
        \/ HashMatch(table, Word) /\ cur' = cur + Len(table.hashTab[BucketOf(Word)].str)
        \/ PassesForTwo(table, Short) /\ cur' = cur + 2
    <3>1. CASE EmitShortcut
      BY <3>1 DEF EmitShortcut, TakesShortcut, Emit, PassesForTwo
    <3>2. CASE EmitHashed
      BY <3>2 DEF EmitHashed, Emit
    <3>3. CASE EmitPredicated
      BY <3>3, <2>3 DEF EmitPredicated, Emit, PassesForTwo
    <3>4. CASE EmitTwoBytes
      BY <3>4 DEF EmitTwoBytes, Emit, PassesForTwo
    <3>5. CASE EmitOneByte
      BY <3>5 DEF EmitOneByte, Emit
    <3> QED
      BY <1>3, <3>1, <3>2, <3>3, <3>4, <3>5 DEF EmitCode
  <2>5. CASE cur' = cur + 1
    BY <2>1, <2>2, <2>5 DEF NoOverrun
  <2>6. CASE HashMatch(table, Word) /\ cur' = cur + Len(table.hashTab[BucketOf(Word)].str)
    <3> DEFINE len == Len(table.hashTab[BucketOf(Word)].str)
    <3>1. cur + len <= chunk /\ len \in Nat
      BY <2>1, <2>6, HashedInside, SlotType
    <3>2. cur' = cur + len
      BY <2>6
    <3> HIDE DEF len
    <3> QED
      BY <3>1, <3>2, <2>1, <2>2 DEF NoOverrun
  <2>7. CASE PassesForTwo(table, Short) /\ cur' = cur + 2
    <3>1. \/ cur + 2 <= chunk
          \/ /\ table.zeroTerminated /\ cur + 2 = chunk + 1
             /\ curOff + chunk = Len(Line) /\ Line[Len(Line)] = 0
      BY <2>1, <2>7, TwoInside
    <3> HIDE DEF Line
    <3> QED
      BY <3>1, <2>1, <2>2, <2>7 DEF NoOverrun
  <2> QED
    BY <2>4, <2>5, <2>6, <2>7
<1> QED
  BY <1>1, <1>2, <1>3 DEF Next

(* For every table laid out as finalize does, whatever earlier chunks left *)
(* in the buffer: the loop passes the end of a chunk by one byte at most,  *)
(* and this only with the final zero of a zero-terminated string.          *)
THEOREM NoOverrunAlways == Spec => []NoOverrun
<1>1. Init => Faced /\ NoOverrun
  BY DEF Init, Faced, NoOverrun
<1>2. IInv /\ Faced /\ NoOverrun /\ [Next]_vars => (IInv /\ Faced /\ NoOverrun)'
  BY NextInv, FacedNext, NoOverrunNext
<1> QED
  BY InitInv, <1>1, <1>2, PTL DEF Spec

--------------------------------------------------------------------------------
(* The bytes of the first n strings.                                       *)
Total(n) == SumFunctionOnSet([i \in 1 .. n |-> Len(strIn[i])], 1 .. n)

(* One string more.                                                        *)
LEMMA TotalNext ==
  ASSUME strIn \in Seq(Seq(Byte))
  PROVE  /\ Total(0) = 0
         /\ \A n \in 0 .. Len(strIn) : Total(n) \in Nat
         /\ \A n \in 0 .. Len(strIn) - 1 : Total(n + 1) = Total(n) + Len(strIn[n + 1])
<1>1. \A i \in 1 .. Len(strIn) : Len(strIn[i]) \in Nat
  BY DEF Arguments
<1>2. ASSUME NEW n \in 0 .. Len(strIn) PROVE Total(n) \in Nat
  <2> DEFINE f == [i \in 1 .. n |-> Len(strIn[i])]
  <2>1. IsFiniteSet(1 .. n) /\ \A i \in 1 .. n : f[i] \in Nat
    BY <1>1, FS_Interval
  <2> QED
    BY <2>1, SumNat DEF Total
<1>3. ASSUME NEW n \in 0 .. Len(strIn) - 1 PROVE Total(n + 1) = Total(n) + Len(strIn[n + 1])
  <2> DEFINE f == [i \in 1 .. n |-> Len(strIn[i])]
             g == [i \in 1 .. n + 1 |-> Len(strIn[i])]
  <2>0. n \in Nat /\ n \in 0 .. Len(strIn) /\ n + 1 <= Len(strIn)
    OBVIOUS
  <2>1. IsFiniteSet(1 .. n) /\ \A i \in 1 .. n : g[i] \in Int /\ f[i] = g[i]
    BY <2>0, <1>1, FS_Interval
  <2>2. (\A i \in 1 .. n + 1 : g[i] \in Int) /\ g[n + 1] = Len(strIn[n + 1])
    BY <2>0, <1>1
  <2>3. Total(n + 1) = SumFunctionOnSet(g, 1 .. n + 1) /\ Total(n) = SumFunctionOnSet(f, 1 .. n)
    BY DEF Total
  <2> HIDE DEF f, g
  <2>4. SumFunctionOnSet(g, 1 .. n + 1) = g[n + 1] + SumFunctionOnSet(g, 1 .. n)
    BY <2>0, <2>2, SumNext
  <2>5. SumFunctionOnSet(g, 1 .. n) = SumFunctionOnSet(f, 1 .. n)
    BY <2>1, SumEqual
  <2>6. Total(n + 1) = Len(strIn[n + 1]) + Total(n)
    BY <2>2, <2>3, <2>4, <2>5
  <2>7. Len(strIn[n + 1]) \in Nat /\ Total(n) \in Nat
    BY <2>0, <1>1, <1>2
  <2> QED
    BY <2>6, <2>7
<1>4. Total(0) = 0
  <2>1. 1 .. 0 = {}
    OBVIOUS
  <2> QED
    BY <2>1, SumOfNone DEF Total
<1> QED
  BY <1>2, <1>3, <1>4

(* More strings have no fewer bytes.                                       *)
LEMMA TotalGrows ==
  ASSUME strIn \in Seq(Seq(Byte)), NEW m \in 0 .. Len(strIn), NEW n \in m .. Len(strIn)
  PROVE  Total(m) <= Total(n)
<1> DEFINE T == {d \in Nat : m + d <= Len(strIn) => Total(m) <= Total(m + d)}
<1>1. 0 \in T
  BY TotalNext
<1>2. ASSUME NEW d \in Nat, d \in T PROVE d + 1 \in T
  <2> SUFFICES ASSUME m + (d + 1) <= Len(strIn) PROVE Total(m) <= Total(m + (d + 1))
    OBVIOUS
  <2>1. m + d \in 0 .. Len(strIn) - 1 /\ m + d \in 0 .. Len(strIn) /\ (m + d) + 1 = m + (d + 1)
        /\ (m + d) + 1 \in 1 .. Len(strIn)
    OBVIOUS
  <2>2. Total(m + (d + 1)) = Total(m + d) + Len(strIn[(m + d) + 1])
    BY <2>1, TotalNext
  <2>3. Len(strIn[(m + d) + 1]) \in Nat /\ Total(m) \in Nat /\ Total(m + d) \in Nat
    BY <2>1, TotalNext
  <2>4. Total(m) <= Total(m + d)
    BY <1>2, <2>1
  <2> QED
    BY <2>2, <2>3, <2>4
<1>3. \A d \in Nat : d \in T
  <2> HIDE DEF T
  <2> QED
    BY <1>1, <1>2, SetInduction
<1>4. n - m \in Nat /\ m + (n - m) = n /\ n <= Len(strIn)
  OBVIOUS
<1>5. n - m \in T
  BY <1>3, <1>4
<1> QED
  BY <1>4, <1>5

(* What the call has consumed of all its strings; what it wrote is at most *)
(* twice as much, and it stops only where the worst case does not fit.     *)
Spent ==
  /\ Len(lenOut) = curLine - 1 /\ curLine <= Len(strIn) + 1
  /\ pc # "emit" => cur = 0 /\ chunk = 0
  /\ Len(out) <= 2 * (Total(curLine - 1) + Consumed)
  /\ pc = "returned" /\ curLine <= Len(strIn) =>
       curOff + NextChunk <= Len(Line) /\ Room(NextChunk) > size - Len(out)

(* The part of the chunk that is consumed.                                 *)
LEMMA ConsumedIs ==
  ASSUME IInv
  PROVE  Consumed = IF cur <= chunk THEN curOff + cur ELSE curOff + chunk
BY MinOfTwo DEF Consumed, IInv, Buffered

(* A step of the loop writes no more than two bytes for each it passes.    *)
LEMMA SpentEmit == ASSUME IInv, IInv', Spent, InLoop, EmitCode PROVE Spent'
<1>1. /\ UNCHANGED <<arguments, pc, curLine, curOff, chunk, lenOut>>
      /\ pc = "emit" /\ cur \in Nat /\ chunk \in Nat /\ cur < chunk /\ curOff \in Nat
      /\ out \in Seq(Nat)
  BY DEF EmitCode, EmitShortcut, EmitHashed, EmitPredicated, EmitTwoBytes,
         EmitOneByte, Emit, InLoop, IInv, Arguments, Buffered, Accounted
<1>2. cur' \in Nat /\ cur' >= cur + 1 /\ Len(out') <= Len(out) + 2
  <2>0. Short.len \in {1, 2} /\ CodeOrEscape \in Seq(Nat) /\ Len(CodeOrEscape) <= 2
    BY <1>1, ShortType
  <2>1. CASE EmitShortcut
    BY <2>1, <1>1, <2>0, ShortType DEF EmitShortcut, Emit
  <2>2. CASE EmitHashed
    <3> DEFINE slot == table.hashTab[BucketOf(Word)]
    <3>1. /\ out' = out \o <<CodeByte(slot.code)>> /\ cur' = cur + Len(slot.str)
          /\ HashMatch(table, Word)
      BY <2>2 DEF EmitHashed, Emit
    <3>2. CodeByte(slot.code) \in Nat /\ Len(slot.str) \in Nat /\ Len(slot.str) >= 1
      BY <3>1, SlotType
    <3> HIDE DEF slot
    <3> QED
      BY <3>1, <3>2, <1>1
  <2>3. CASE EmitPredicated
    BY <2>3, <1>1, <2>0 DEF EmitPredicated, Emit
  <2>4. CASE EmitTwoBytes
    BY <2>4, <1>1, <2>0, ShortType DEF EmitTwoBytes, Emit
  <2>5. CASE EmitOneByte
    BY <2>5, <1>1, <2>0 DEF EmitOneByte, Emit
  <2> QED
    BY <2>1, <2>2, <2>3, <2>4, <2>5 DEF EmitCode
<1>3. Consumed = curOff + cur /\ Consumed' = IF cur' <= chunk THEN curOff + cur' ELSE curOff + chunk
  <2>1. Consumed' = IF cur' <= chunk' THEN curOff' + cur' ELSE curOff' + chunk'
    BY <1>1, <1>2, MinOfTwo DEF Consumed
  <2> QED
    BY <2>1, <1>1, ConsumedIs
<1>4. strIn \in Seq(Seq(Byte)) /\ curLine - 1 \in 0 .. Len(strIn)
  BY <1>1 DEF IInv, Arguments
<1>5. Total(curLine - 1)' = Total(curLine - 1) /\ Total(curLine - 1) \in Nat
  BY <1>1, <1>4, TotalNext DEF Total, arguments
<1>6. Len(out') <= 2 * (Total(curLine - 1) + Consumed)'
  <2>1. Len(out) <= 2 * (Total(curLine - 1) + Consumed) /\ Len(out) \in Nat /\ Len(out') \in Nat
    BY <1>1 DEF Spent, IInv, Accounted
  <2>2. Consumed' \in Nat /\ Consumed \in Nat /\ Consumed' >= Consumed + 1
    <3> DEFINE next == cur'
    <3>1. /\ cur \in Nat /\ next \in Nat /\ curOff \in Nat /\ chunk \in Nat
          /\ cur < chunk /\ next >= cur + 1
          /\ Consumed = curOff + cur
          /\ Consumed' = IF next <= chunk THEN curOff + next ELSE curOff + chunk
      BY <1>1, <1>2, <1>3
    <3> HIDE DEF next
    <3> QED
      BY <3>1
  <2> HIDE DEF Consumed, Total
  <2> QED
    BY <1>2, <1>5, <2>1, <2>2
<1> QED
  BY <1>1, <1>6 DEF Spent, arguments

(* A chunk that is finished is consumed as a whole.                        *)
LEMMA SpentEnd == ASSUME IInv, Spent, EndChunk PROVE Spent'
<1>1. /\ pc = "emit" /\ cur >= chunk /\ UNCHANGED arguments /\ out' = out /\ cur' = 0 /\ chunk' = 0
      /\ pc' \in {"chunk", "returned"}
  BY DEF EndChunk
<1>2. /\ strIn \in Seq(Seq(Byte)) /\ curLine \in 1 .. Len(strIn) /\ curLine - 1 \in 0 .. Len(strIn) - 1
      /\ Line = strIn[curLine] /\ Line \in Seq(Byte)
      /\ cur \in Nat /\ chunk \in Nat /\ curOff \in Nat /\ curOff + chunk <= Len(Line)
      /\ out \in Seq(Nat)
  BY <1>1 DEF IInv, Arguments, Buffered, Accounted, Line
<1>3. strIn' = strIn /\ size' = size /\ \A n : Total(n)' = Total(n)
  BY <1>1 DEF arguments, Total
<1>4. Consumed = curOff + chunk /\ Consumed' = curOff'
  <2>1. cur = chunk \/ cur > chunk
    BY <1>1, <1>2
  <2>2. Consumed = curOff + chunk
    BY <2>1, <1>2, ConsumedIs
  <2>3. curOff' \in Nat
    BY <1>2 DEF EndChunk
  <2> QED
    BY <2>2, <2>3, <1>1, MinOfTwo DEF Consumed
<1>5. CASE MoreChunks
  <2>1. curOff' = curOff + chunk /\ curLine' = curLine /\ lenOut' = lenOut /\ pc' = "chunk"
    BY <1>5 DEF EndChunk
  <2> QED
    BY <2>1, <1>1, <1>3, <1>4 DEF Spent
<1>6. CASE ~ MoreChunks
  <2>1. /\ curOff' = 0 /\ curLine' = curLine + 1
        /\ lenOut' = Append(lenOut, Len(out) - strOut[curLine])
        /\ pc' = IF curLine < Len(strIn) THEN "chunk" ELSE "returned"
    BY <1>6 DEF EndChunk
  <2>2. curOff + chunk = Len(Line)
    BY <1>2, <1>6 DEF MoreChunks
  <2>3. Total(curLine) = Total(curLine - 1) + Len(Line)
    <3>1. (curLine - 1) + 1 = curLine
      BY <1>2
    <3> QED
      BY <3>1, <1>2, TotalNext
  <2>4. Total(curLine - 1) \in Nat /\ Total(curLine) \in Nat /\ curLine' - 1 = curLine
    BY <1>2, <2>1, TotalNext
  <2>5. Len(out') <= 2 * (Total(curLine - 1) + Consumed)'
    <3>1. Len(out) <= 2 * (Total(curLine - 1) + Len(Line))
      BY <1>4, <2>2 DEF Spent
    <3>2. (Total(curLine - 1) + Consumed)' = Total(curLine) + 0
      BY <1>3, <1>4, <2>1, <2>4
    <3> QED
      BY <3>1, <3>2, <2>3, <2>4, <1>1, <1>2
  <2>6. Len(lenOut') = curLine' - 1 /\ curLine' <= Len(strIn) + 1
    <3>1. Len(lenOut) = curLine - 1 /\ Len(lenOut') = Len(lenOut) + 1
      BY <2>1 DEF Spent
    <3> QED
      BY <3>1, <2>1, <1>2
  <2>7. pc' = "returned" => curLine' > Len(strIn)
    BY <2>1, <1>2
  <2> QED
    BY <2>5, <2>6, <2>7, <1>1, <1>2, <1>3, <2>1 DEF Spent
<1> QED
  BY <1>5, <1>6

(* Starting a chunk, and giving up.                                        *)
LEMMA SpentNext == ASSUME IInv, IInv', Spent, [Next]_vars PROVE Spent'
<1>1. CASE EndChunk
  BY <1>1, SpentEnd
<1>2. CASE EmitCode
  <2>1. InLoop
    BY <1>2 DEF EmitCode, EmitShortcut, EmitHashed, EmitPredicated, EmitTwoBytes, EmitOneByte
  <2> QED
    BY <1>2, <2>1, SpentEmit
<1>3. CASE StartChunk \/ OutOfMemory
  <2>1. /\ pc = "chunk" /\ UNCHANGED <<arguments, curLine, curOff, lenOut, out>>
        /\ pc' \in {"emit", "returned"}
    BY <1>3 DEF StartChunk, OutOfMemory
  <2>2. /\ NextChunk \in Nat /\ curOff + NextChunk <= Len(Line) /\ curOff \in Nat
    BY <2>1, NextChunkType DEF IInv, Arguments
  <2>3. cur' = 0 /\ chunk' \in Nat /\ cur = 0 /\ chunk = 0 /\ curOff' = curOff
    BY <1>3, <2>1, <2>2 DEF StartChunk, OutOfMemory, Spent
  <2>4. Consumed = curOff /\ Consumed' = curOff
    <3>1. Consumed = curOff + 0
      BY <2>3, ConsumedIs
    <3>2. Consumed' = curOff + 0
      BY <2>3, MinOfTwo DEF Consumed
    <3> QED
      BY <3>1, <3>2, <2>2
  <2>5. \A n : Total(n)' = Total(n)
    BY <2>1 DEF Total, arguments
  <2>6. Len(out') <= 2 * (Total(curLine - 1) + Consumed)'
    BY <2>1, <2>4, <2>5 DEF Spent
  <2>7. pc' # "emit" => cur' = 0 /\ chunk' = 0 /\ Room(NextChunk) > size - Len(out)
    BY <1>3, <2>3 DEF StartChunk, OutOfMemory
  <2>8. NextChunk' = NextChunk /\ Line' = Line /\ size' = size /\ strIn' = strIn
    BY <2>1 DEF NextChunk, Line, arguments
  <2> QED
    BY <2>1, <2>2, <2>6, <2>7, <2>8 DEF Spent, Room
<1>4. CASE UNCHANGED vars
  BY <1>4 DEF vars, arguments, Spent, Total, Consumed, NextChunk, Line, Room
<1> QED
  BY <1>1, <1>2, <1>3, <1>4 DEF Next

(* A call begins with nothing spent.                                       *)
LEMMA InitSpent == Init => Spent
<1> SUFFICES ASSUME Init PROVE Spent
  OBVIOUS
<1>1. /\ lenOut = <<>> /\ out = <<>> /\ curLine = 1 /\ curOff = 0 /\ cur = 0 /\ chunk = 0
      /\ strIn \in Seq(Seq(Byte))
      /\ pc = IF strIn = <<>> THEN "returned" ELSE "chunk"
  BY CompressAssumption DEF Init
<1>2. Len(lenOut) = 0 /\ Len(out) = 0 /\ Total(curLine - 1) = 0 /\ Consumed = 0
  <2>1. Total(0) = 0
    BY <1>1, TotalNext
  <2> QED
    BY <1>1, <2>1, MinOfTwo DEF Consumed
<1>3. pc = "returned" => Len(strIn) = 0
  BY <1>1
<1> QED
  BY <1>1, <1>2, <1>3 DEF Spent

(* With 7 + 2 * inputlength of space, everything fits; with less, at least *)
(* the strings whose escapes would fit are compressed (fsst.h:129).        *)
THEOREM EnoughRoomAlways == Spec => []EnoughRoom
<1>1. Init => Spent
  BY InitSpent
<1>2. IInv /\ Spent => EnoughRoom
  <2> SUFFICES ASSUME IInv, Spent, pc = "returned", NEW n \in 1 .. Len(strIn),
                      size >= Slack + 2 * Total(n), Len(lenOut) < n
               PROVE  FALSE
    <3>1. Len(lenOut) \in Int /\ \A n \in 1 .. Len(strIn) : n \in Int
      BY DEF Spent, IInv, Arguments
    <3> QED
      BY <3>1 DEF EnoughRoom, Total
  <2>1. /\ strIn \in Seq(Seq(Byte)) /\ curLine \in 1 .. Len(strIn) /\ curLine <= n
        /\ cur = 0 /\ chunk = 0 /\ curOff \in Nat /\ out \in Seq(Nat)
    BY DEF Spent, IInv, Arguments, Accounted
  <2>2. /\ curOff + NextChunk <= Len(Line) /\ Room(NextChunk) > size - Len(out)
        /\ Len(out) <= 2 * (Total(curLine - 1) + curOff)
    <3>1. Consumed = curOff
      BY <2>1, ConsumedIs
    <3> QED
      BY <3>1, <2>1 DEF Spent
  <2>3. Total(curLine) = Total(curLine - 1) + Len(Line) /\ Line \in Seq(Byte)
    <3>1. (curLine - 1) + 1 = curLine /\ curLine - 1 \in 0 .. Len(strIn) - 1
      BY <2>1
    <3> QED
      BY <3>1, <2>1, TotalNext DEF Line
  <2>4. Total(curLine) <= Total(n)
    BY <2>1, TotalGrows
  <2>5. /\ Total(curLine) \in Nat /\ Total(curLine - 1) \in Nat /\ Total(n) \in Nat
        /\ Slack \in Nat /\ size \in Nat /\ Len(out) \in Nat /\ Len(Line) \in Nat
    <3>1. /\ curLine \in 0 .. Len(strIn) /\ curLine - 1 \in 0 .. Len(strIn)
          /\ n \in 0 .. Len(strIn)
      BY <2>1
    <3>2. Total(curLine) \in Nat /\ Total(curLine - 1) \in Nat /\ Total(n) \in Nat
      BY <3>1, <2>1, TotalNext
    <3>3. Slack \in Nat /\ size \in Nat
      BY CompressAssumption DEF IInv, Arguments
    <3>4. Len(out) \in Nat
      BY <2>1
    <3>5. Len(Line) \in Nat
      BY <2>3
    <3> QED
      BY <3>2, <3>3, <3>4, <3>5, Zenon
  <2>6. NextChunk \in Int
    <3>1. Len(Line) - curOff \in Int /\ ChunkMax \in Int
      BY <2>1, <2>5, CompressAssumption
    <3> QED
      BY <3>1, MinOfTwo DEF NextChunk
  <2>7. Room(NextChunk) = 2 * NextChunk + Slack
    BY DEF Room
  <2> DEFINE w == Total(curLine - 1)
             total == Total(curLine)
             all == Total(n)
             len == Len(Line)
             next == NextChunk
             o == Len(out)
  <2>8. /\ w \in Nat /\ total \in Nat /\ all \in Nat /\ len \in Nat /\ next \in Int /\ o \in Nat
        /\ Slack \in Nat /\ size \in Nat /\ curOff \in Nat
        /\ curOff + next <= len /\ 2 * next + Slack > size - o /\ o <= 2 * (w + curOff)
        /\ total = w + len /\ total <= all /\ size >= Slack + 2 * all
    BY <2>1, <2>2, <2>3, <2>4, <2>5, <2>6, <2>7
  <2> HIDE DEF w, total, all, len, next, o
  <2> QED
    BY <2>8
<1>3. IInv /\ Spent /\ [Next]_vars => (IInv /\ Spent)'
  BY NextInv, SpentNext
<1> QED
  BY InitInv, <1>1, <1>2, <1>3, PTL DEF Spec

--------------------------------------------------------------------------------
(* The tables that compressBulk meets come from finalize, of a table whose *)
(* longer symbols do not contain the terminator.                           *)
Finalized ==
  \A t \in Tables : \E b :
    Ready(b) /\ NSymbols(b) > 0 /\ NoneAcross(b) /\ t = FinalizeTable(b)

(* What passes for two bytes is a symbol of two bytes or the final zero;   *)
(* from byteLim on an entry is for one byte.                               *)
LEMMA EntryKinds ==
  ASSUME Finalized, NEW t \in Tables, NEW p \in Byte \X Byte, NEW e, e = t.shortCodes[p]
  PROVE  /\ PassesForTwo(t, e) =>
              /\ EscapeBit(e.code) = 0
              /\ e.len = 2 \/ (e.len = 1 /\ t.zeroTerminated /\ p[1] = 0)
         /\ e.len = 2 => t.terminator \notin {p[1], p[2]}
         /\ CodeByte(e.code) >= ByteLim(t) => e.len = 1
<1>1. PICK b : Ready(b) /\ NSymbols(b) > 0 /\ NoneAcross(b) /\ t = FinalizeTable(b)
  BY DEF Finalized
<1>2. TwoByteEntry(t, p, e) \/ OneByteEntry(t, p, e) \/ EscapeEntry(e)
  BY <1>1, PairLookedUp
<1>3. /\ t.suffixLim \in Nat /\ ByteLim(t) \in Nat /\ NSymbols(t) \in Nat /\ ESC \in Nat
      /\ t.suffixLim <= ByteLim(t) /\ ByteLim(t) <= NSymbols(t) /\ NSymbols(t) <= ESC
  BY <1>1, LimitsOrder
<1>4. CASE TwoByteEntry(t, p, e) \/ OneByteEntry(t, p, e)
  <2>1. e.code \in 0 .. NSymbols(t) - 1 /\ (e.len = 2 \/ e.len = 1)
    BY <1>4 DEF TwoByteEntry, OneByteEntry
  <2>2. e.code \in Nat /\ CodeByte(e.code) = e.code /\ EscapeBit(e.code) = 0
    BY <2>1, <1>3, CodeKept
  <2>3. CASE TwoByteEntry(t, p, e)
    BY <2>2, <2>3, <1>3 DEF TwoByteEntry
  <2>4. CASE OneByteEntry(t, p, e)
    BY <2>2, <2>4, <1>3 DEF OneByteEntry, PassesForTwo
  <2> QED
    BY <2>3, <2>4, <1>4
<1>5. CASE EscapeEntry(e)
  <2>1. e.len = 1 /\ CodeByte(e.code) = ESC
    BY <1>5, CodeBits DEF EscapeEntry
  <2>2. ~ (ESC < ByteLim(t)) /\ ~ (ESC < t.suffixLim)
    BY <1>3
  <2> QED
    BY <2>1, <2>2 DEF PassesForTwo
<1> QED
  BY <1>2, <1>4, <1>5

(* What LayoutAssumption says of a table holds of every table that         *)
(* finalize leaves: a longer symbol does not contain the terminator, and   *)
(* what the loop takes for two bytes does not contain it either, or is the *)
(* final zero.                                                             *)
THEOREM LayoutJustified ==
  ASSUME Finalized
  PROVE  \A t \in Tables :
           /\ \A k \in Bucket : t.hashTab[k] # FreeSlot => t.terminator \notin Range(t.hashTab[k].str)
           /\ \A p \in Byte \X Byte : PassesForTwo(t, t.shortCodes[p]) =>
                t.terminator \notin {p[1], p[2]} \/ (t.zeroTerminated /\ p[1] = 0)
<1> TAKE t \in Tables
<1>1. PICK b : Ready(b) /\ NSymbols(b) > 0 /\ NoneAcross(b) /\ t = FinalizeTable(b)
  BY DEF Finalized
<1>2. ASSUME NEW k \in Bucket, t.hashTab[k] # FreeSlot
      PROVE  t.terminator \notin Range(t.hashTab[k].str)
  BY <1>1, <1>2, SlotLookedUp
<1>3. ASSUME NEW p \in Byte \X Byte, PassesForTwo(t, t.shortCodes[p])
      PROVE  t.terminator \notin {p[1], p[2]} \/ (t.zeroTerminated /\ p[1] = 0)
  <2> DEFINE e == t.shortCodes[p]
  <2> HIDE DEF e
  <2>1. /\ PassesForTwo(t, e) => e.len = 2 \/ (e.len = 1 /\ t.zeroTerminated /\ p[1] = 0)
        /\ e.len = 2 => t.terminator \notin {p[1], p[2]}
    BY EntryKinds DEF e
  <2> QED
    BY <2>1, <1>3 DEF e
<1> QED
  BY <1>2, <1>3

(* Whatever shortcut a variant of the loop takes, it emits what the lookup *)
(* of the word finds, and passes as many bytes; but for the final zero,    *)
(* which may be passed by two.                                             *)
LEMMA LoopLooksUp ==
  ASSUME Finalized, IInv, EmitCode
  PROVE  LET found == FinalLookup(table, Word)
         IN  /\ out' = out \o CodesOf(found, Word[1])
             /\ \/ cur' = cur + found.len
                \/ cur' = cur + 2 /\ found.len = 1 /\ table.zeroTerminated /\ Word[1] = 0
<1> DEFINE found == FinalLookup(table, Word)
<1>0. InLoop
  BY DEF EmitCode, EmitShortcut, EmitHashed, EmitPredicated, EmitTwoBytes, EmitOneByte
<1>1. /\ table \in Tables /\ Word \in [1 .. MaxLength -> Byte]
      /\ First2(Word) \in Byte \X Byte /\ First2(Word)[1] = Word[1]
  BY <1>0, WordType DEF IInv, Arguments, First2
<1>2. /\ PassesForTwo(table, Short) =>
           /\ EscapeBit(Short.code) = 0
           /\ Short.len = 2 \/ (Short.len = 1 /\ table.zeroTerminated /\ Word[1] = 0)
      /\ CodeByte(Short.code) >= ByteLim(table) => Short.len = 1
  <2> DEFINE p == First2(Word)
             e == Short
  <2>1. p \in Byte \X Byte /\ p[1] = Word[1] /\ e = table.shortCodes[p]
    BY <1>1 DEF Short
  <2> HIDE DEF p, e
  <2>2. /\ PassesForTwo(table, e) =>
              /\ EscapeBit(e.code) = 0
              /\ e.len = 2 \/ (e.len = 1 /\ table.zeroTerminated /\ p[1] = 0)
        /\ CodeByte(e.code) >= ByteLim(table) => e.len = 1
    BY <2>1, <1>1, EntryKinds
  <2> QED
    BY <2>1, <2>2 DEF e
<1>3. CodeOrEscape = CodesOf(Short, Word[1])
  BY DEF CodeOrEscape, CodesOf
<1>4. ~ HashMatch(table, Word) => found = Short
  BY DEF FinalLookup, Short
<1>5. PassesForTwo(table, Short) => CodesOf(Short, Word[1]) = <<CodeByte(Short.code)>>
  BY <1>2 DEF CodesOf
<1>6. ASSUME PassesForTwo(table, Short), ~ HashMatch(table, Word), cur' = cur + 2,
             out' = out \o <<CodeByte(Short.code)>>
      PROVE  /\ out' = out \o CodesOf(found, Word[1])
             /\ \/ cur' = cur + found.len
                \/ cur' = cur + 2 /\ found.len = 1 /\ table.zeroTerminated /\ Word[1] = 0
  <2>1. found = Short /\ CodesOf(Short, Word[1]) = <<CodeByte(Short.code)>>
    BY <1>4, <1>5, <1>6
  <2>2. Short.len = 2 \/ (Short.len = 1 /\ table.zeroTerminated /\ Word[1] = 0)
    BY <1>2, <1>6
  <2> HIDE DEF found
  <2> QED
    BY <2>1, <2>2, <1>6
<1>7. CASE EmitShortcut
  <2>1. /\ CodeByte(Short.code) < table.suffixLim /\ cur' = cur + 2
        /\ out' = out \o <<CodeByte(Short.code)>>
    BY <1>7 DEF EmitShortcut, TakesShortcut, Emit
  <2>2. ~ HashMatch(table, Word)
    <3>1. PICK b : Ready(b) /\ NSymbols(b) > 0 /\ NoneAcross(b) /\ table = FinalizeTable(b)
      BY <1>1 DEF Finalized
    <3>2. CodeByte(table.shortCodes[First2(Word)].code) < table.suffixLim
      BY <2>1 DEF Short
    <3> DEFINE w == Word
    <3>3. w \in [1 .. MaxLength -> Byte] /\ CodeByte(table.shortCodes[First2(w)].code) < table.suffixLim
      BY <3>2, <1>1
    <3> HIDE DEF w
    <3>4. ~ HashMatch(table, w)
      BY <3>1, <3>3, SuffixUnhashed
    <3> QED
      BY <3>4 DEF w
  <2>3. PassesForTwo(table, Short)
    BY <2>1 DEF PassesForTwo
  <2> QED
    BY <2>1, <2>2, <2>3, <1>6
<1>8. CASE EmitHashed
  <2> DEFINE slot == table.hashTab[BucketOf(Word)]
  <2>1. /\ HashMatch(table, Word) /\ cur' = cur + Len(slot.str)
        /\ out' = out \o <<CodeByte(slot.code)>>
    BY <1>8 DEF EmitHashed, Emit
  <2>2. found = [code |-> slot.code, len |-> Len(slot.str)]
    BY <2>1 DEF FinalLookup
  <2>3. EscapeBit(slot.code) = 0
    <3>1. PICK b : Ready(b) /\ NSymbols(b) > 0 /\ NoneAcross(b) /\ table = FinalizeTable(b)
      BY <1>1 DEF Finalized
    <3>2. BucketOf(Word) \in Bucket /\ slot # FreeSlot
      BY <2>1, <1>0, WordType DEF HashMatch
    <3>3. slot.code \in 0 .. NSymbols(table) - 1
      <4> DEFINE k == BucketOf(Word)
      <4>1. k \in Bucket /\ table.hashTab[k] # FreeSlot
        BY <3>2
      <4> HIDE DEF k
      <4>2. table.hashTab[k].code \in 0 .. NSymbols(table) - 1
        BY <3>1, <4>1, SlotLookedUp
      <4> QED
        BY <4>2 DEF k
    <3>4. NSymbols(table) \in Nat /\ NSymbols(table) <= ESC
      BY <3>1, LimitsOrder
    <3> HIDE DEF slot
    <3> QED
      BY <3>3, <3>4, CodeKept
  <2> HIDE DEF slot, found
  <2>4. found.code = slot.code /\ found.len = Len(slot.str)
    BY <2>2
  <2>5. CodesOf(found, Word[1]) = <<CodeByte(slot.code)>>
    BY <2>3, <2>4 DEF CodesOf
  <2> QED
    BY <2>1, <2>4, <2>5 DEF found
<1>9. CASE EmitPredicated
  <2>1. ~ HashMatch(table, Word) /\ cur' = cur + Short.len /\ out' = out \o CodeOrEscape
    BY <1>9 DEF EmitPredicated, Emit
  <2> HIDE DEF found
  <2> QED
    BY <2>1, <1>3, <1>4 DEF found
<1>10. CASE EmitTwoBytes
  <2>1. /\ ~ HashMatch(table, Word) /\ cur' = cur + 2 /\ out' = out \o <<CodeByte(Short.code)>>
        /\ PassesForTwo(table, Short)
    BY <1>10 DEF EmitTwoBytes, Emit, PassesForTwo
  <2> QED
    BY <2>1, <1>6
<1>11. CASE EmitOneByte
  <2>1. /\ ~ HashMatch(table, Word) /\ cur' = cur + 1 /\ out' = out \o CodeOrEscape
        /\ CodeByte(Short.code) >= ByteLim(table)
    BY <1>11 DEF EmitOneByte, Emit
  <2>2. Short.len = 1 /\ found = Short
    BY <2>1, <1>2, <1>4
  <2> HIDE DEF found
  <2> QED
    BY <2>1, <2>2, <1>3 DEF found
<1> HIDE DEF found
<1>12. /\ out' = out \o CodesOf(found, Word[1])
       /\ \/ cur' = cur + found.len
          \/ cur' = cur + 2 /\ found.len = 1 /\ table.zeroTerminated /\ Word[1] = 0
  BY <1>7, <1>8, <1>9, <1>10, <1>11 DEF EmitCode, found
<1> QED
  BY <1>12 DEF found

(* The word that the loop looks at, as far as it lies in the chunk.        *)
LEMMA WordOfLine ==
  ASSUME IInv, Faced, InLoop, NEW i \in 1 .. MaxLength, cur + i <= chunk
  PROVE  Word[i] = Line[(curOff + cur) + i]
<1>1. cur \in Nat /\ chunk \in Nat /\ curOff \in Nat /\ i \in Nat /\ i >= 1
  BY ByteType DEF IInv, Arguments, Buffered
<1>2. Word[i] = buf[(cur + i) - 1]
  <2>1. Word[i] = buf[cur + i - 1]
    BY DEF Word
  <2>2. cur + i - 1 = (cur + i) - 1
    BY <1>1
  <2> HIDE DEF Word
  <2> QED
    BY <2>1, <2>2
<1> HIDE DEF Word, Line
<1>3. (cur + i) - 1 \in 0 .. chunk - 1 /\ curOff + ((cur + i) - 1) + 1 = (curOff + cur) + i
  BY <1>1
<1>4. buf[(cur + i) - 1] = Line[curOff + ((cur + i) - 1) + 1]
  BY <1>3 DEF Faced, InLoop
<1> QED
  BY <1>2, <1>3, <1>4

(* The first byte of a step lies in the chunk, and the second, unless the  *)
(* terminator does.                                                        *)
LEMMA WordInChunk ==
  ASSUME IInv, Faced, InLoop
  PROVE  /\ Word[1] = Line[curOff + cur + 1]
         /\ curOff + cur + 1 \in 1 .. Len(Line)
         /\ cur + 2 > chunk => Word[2] = table.terminator
<1>1. /\ cur \in Nat /\ chunk \in Nat /\ cur < chunk /\ curOff \in Nat
      /\ Line \in Seq(Byte) /\ curOff + chunk <= Len(Line)
  <2>1. pc = "emit" /\ cur < chunk
    BY DEF InLoop
  <2>2. cur \in Nat /\ chunk \in Nat /\ curOff \in Nat /\ curOff + chunk <= Len(Line)
    BY <2>1 DEF IInv, Arguments, Buffered
  <2>3. curLine \in 1 .. Len(strIn) /\ strIn \in Seq(Seq(Byte))
    BY <2>1 DEF IInv, Arguments
  <2>4. Line \in Seq(Byte)
    BY <2>3 DEF Line
  <2> QED
    BY <2>1, <2>2, <2>4
<1>2. Word[1] = buf[cur] /\ Word[2] = buf[cur + 1]
  <2>1. 1 \in 1 .. MaxLength /\ 2 \in 1 .. MaxLength /\ cur + 1 - 1 = cur /\ cur + 2 - 1 = cur + 1
    BY <1>1, ByteType
  <2> QED
    BY <2>1 DEF Word
<1> HIDE DEF Word, Line
<1>3. buf[cur] = Line[curOff + cur + 1]
  <2>1. cur \in 0 .. chunk - 1
    BY <1>1
  <2> QED
    BY <2>1 DEF Faced, InLoop
<1>4. cur + 2 > chunk => cur + 1 = chunk
  BY <1>1
<1> QED
  BY <1>1, <1>2, <1>3, <1>4 DEF Faced, InLoop

(* How far the chunk reaches into the word; the terminator follows it.     *)
Ahead == Min({MaxLength, chunk - cur})

LEMMA AheadType ==
  ASSUME IInv, Faced, InLoop
  PROVE  /\ Ahead \in 1 .. MaxLength /\ cur + Ahead <= chunk
         /\ Ahead < MaxLength => cur + Ahead = chunk /\ Word[Ahead + 1] = table.terminator
<1>1. cur \in Nat /\ chunk \in Nat /\ cur < chunk /\ MaxLength \in Nat /\ MaxLength >= 3
  BY ByteType DEF IInv, Buffered, InLoop
<1>2. Ahead = IF MaxLength <= chunk - cur THEN MaxLength ELSE chunk - cur
  BY <1>1, MinOfTwo DEF Ahead
<1> DEFINE n == Ahead
<1> HIDE DEF n
<1>3. n = IF MaxLength <= chunk - cur THEN MaxLength ELSE chunk - cur
  BY <1>2 DEF n
<1>4. n \in 1 .. MaxLength /\ cur + n <= chunk /\ (n < MaxLength => cur + n = chunk)
  BY <1>1, <1>3
<1>5. ASSUME n < MaxLength PROVE Word[n + 1] = table.terminator
  <2>1. n + 1 \in 1 .. MaxLength /\ cur + (n + 1) - 1 = chunk
    BY <1>1, <1>4, <1>5
  <2>2. Word[n + 1] = buf[cur + (n + 1) - 1]
    BY <2>1 DEF Word
  <2> HIDE DEF Word
  <2> QED
    BY <2>1, <2>2 DEF Faced, InLoop
<1> QED
  BY <1>4, <1>5 DEF n

(* One step: the codes it emits are the greedy choice for what the chunk   *)
(* has of the word, they stand for its bytes, and the read position is     *)
(* behind them, or one more when they were the final zero.                 *)
Stands(bytes, text) ==
  /\ out' = out \o bytes
  /\ Chosen(table, SubSeq(Word, 1, Ahead), bytes, text)
  /\ Decodes(Decoders[table], bytes, text)
  /\ cur + Len(text) <= chunk /\ Len(text) >= 1
  /\ \A i \in 1 .. Len(text) : text[i] = Word[i] /\ i \in 1 .. MaxLength
  /\ \/ cur' = cur + Len(text)
     \/ cur' = cur + Len(text) + 1 /\ cur + Len(text) = chunk

LEMMA EmitStands ==
  ASSUME Finalized, IInv, Faced, EmitCode
  PROVE  \E bytes, text : Stands(bytes, text)
<1>1. InLoop
  BY DEF EmitCode, EmitShortcut, EmitHashed, EmitPredicated, EmitTwoBytes, EmitOneByte
<1>2. PICK b : Ready(b) /\ NSymbols(b) > 0 /\ NoneAcross(b) /\ table = FinalizeTable(b)
  BY DEF Finalized, IInv, Arguments
<1> DEFINE w == Word
           n == Ahead
           s == SubSeq(w, 1, n)
           found == FinalLookup(table, w)
           bytes == CodesOf(found, w[1])
<1>3. w \in [1 .. MaxLength -> Byte]
  BY <1>1, WordType
<1>4. /\ n \in 1 .. MaxLength /\ cur + n <= chunk
      /\ n < MaxLength => w[n + 1] = b.terminator
  <2>1. table.terminator = b.terminator
    BY <1>2, FinalLimits
  <2> QED
    BY <2>1, <1>1, AheadType
<1>5. /\ out' = out \o bytes
      /\ \/ cur' = cur + found.len
         \/ cur' = cur + 2 /\ found.len = 1 /\ table.zeroTerminated /\ w[1] = 0
  BY LoopLooksUp
<1> HIDE DEF w, n
<1>6. s \in Symbol /\ Len(s) = n /\ n \in Nat /\ \A i \in 1 .. n : s[i] = w[i]
  BY <1>3, <1>4, FirstBytes
<1> HIDE DEF found, bytes, s
<1>7. PICK text : Chosen(table, s, bytes, text) /\ Len(text) = found.len
  BY <1>2, <1>3, <1>4, LookupChooses DEF found, bytes, s
<1>8. /\ text \in Seq(Byte) /\ Len(text) \in Nat /\ Len(text) >= 1 /\ Len(text) <= n
      /\ \A i \in 1 .. Len(text) : text[i] = s[i]
  <2>1. table.symbols \in Seq(Symbol)
    BY <1>2, FinalSymbols
  <2> QED
    BY <2>1, <1>6, <1>7, ChosenPrefix
<1>9. Decodes(Decoders[table], bytes, text)
  <2>1. Decoders[table] = ImportTable(ExportTable(table))
    BY DEF Decoders, IInv, Arguments
  <2>2. Decodes(ImportTable(ExportTable(table)), bytes, text)
    BY <1>2, <1>6, <1>7, ChosenDecodes
  <2> QED
    BY <2>1, <2>2
<1>10. cur \in Nat /\ chunk \in Nat /\ curOff \in Nat /\ curOff + chunk <= Len(Line)
  BY <1>1 DEF IInv, Arguments, Buffered, InLoop
<1>11. cur + Len(text) <= chunk
  BY <1>4, <1>6, <1>8, <1>10
<1>12. \A i \in 1 .. Len(text) : text[i] = w[i] /\ i \in 1 .. MaxLength
  <2>1. MaxLength \in Nat /\ n <= MaxLength
    BY <1>4, ByteType
  <2> QED
    BY <2>1, <1>6, <1>8
<1>13. ASSUME cur' = cur + 2, Len(text) = 1, table.zeroTerminated, w[1] = 0
       PROVE  cur' = cur + Len(text) + 1 /\ cur + Len(text) = chunk
  <2>1. Word[1] = Line[curOff + cur + 1] /\ curOff + cur + 1 \in 1 .. Len(Line)
    BY <1>1, WordInChunk
  <2>2. \A k \in DOMAIN Line : Line[k] = 0 <=> k = Len(Line)
    <3>1. table \in Tables /\ strIn \in Inputs(table) /\ curLine \in DOMAIN strIn
      BY <1>1 DEF IInv, Arguments, InLoop
    <3> QED
      BY <3>1, <1>13, LayoutAssumption DEF Line
  <2>3. Line \in Seq(Byte)
    BY <1>1 DEF IInv, Arguments, InLoop, Line
  <2> HIDE DEF Line, Word
  <2>4. Line[curOff + cur + 1] = 0
    BY <2>1, <1>13 DEF w
  <2>5. curOff + cur + 1 = Len(Line)
    BY <2>1, <2>2, <2>3, <2>4
  <2>6. cur + 1 = chunk
    BY <2>3, <2>5, <1>10, <1>11, <1>13
  <2> QED
    BY <2>6, <1>13, <1>10
<1>14. \/ cur' = cur + Len(text)
       \/ cur' = cur + Len(text) + 1 /\ cur + Len(text) = chunk
  BY <1>5, <1>7, <1>13
<1>15. Stands(bytes, text)
  BY <1>5, <1>7, <1>8, <1>9, <1>11, <1>12, <1>14 DEF Stands, s, w, n
<1> QED
  BY <1>15

--------------------------------------------------------------------------------
(* Where the output of each string starts and ends.                        *)
Starts ==
  /\ strOut \in Seq(Nat) /\ lenOut \in Seq(Nat)
  /\ Len(lenOut) = curLine - 1
  /\ \A i \in 1 .. Len(strOut) : strOut[i] <= Len(out)
  /\ \A i \in 1 .. Len(lenOut) : strOut[i] + lenOut[i] <= Len(out)
  /\ Len(strOut) \in {curLine - 1, curLine}
  /\ pc = "emit" => Len(strOut) = curLine
  /\ pc = "chunk" => Len(strOut) = IF curOff = 0 THEN curLine - 1 ELSE curLine
  /\ pc = "emit" /\ chunk = 0 => curOff = Len(Line)

(* The output only grows in the loop.                                      *)
LEMMA StartsEmit ==
  ASSUME IInv, Starts, EmitCode, NEW bytes \in Seq(Nat), out' = out \o bytes
  PROVE  Starts'
<1>1. UNCHANGED <<strOut, lenOut, curLine, pc, curOff, chunk, strIn>>
  BY DEF EmitCode, EmitShortcut, EmitHashed, EmitPredicated, EmitTwoBytes, EmitOneByte, Emit, arguments
<1>2. out \in Seq(Nat)
  BY DEF IInv, Accounted
<1>3. Len(out) \in Nat /\ Len(out') \in Nat /\ Len(out) <= Len(out')
  BY <1>2
<1> DEFINE old == Len(out)
           new == Len(out')
<1>4. old \in Nat /\ new \in Nat /\ old <= new
  BY <1>3
<1>5. /\ strOut \in Seq(Nat) /\ lenOut \in Seq(Nat) /\ Len(lenOut) = curLine - 1 /\ curLine \in Nat
      /\ Len(strOut) \in {curLine - 1, curLine}
      /\ \A i \in 1 .. Len(strOut) : strOut[i] <= old
      /\ \A i \in 1 .. Len(lenOut) : strOut[i] + lenOut[i] <= old
  BY DEF Starts, IInv, Arguments
<1> HIDE DEF old, new
<1>6. \A i \in 1 .. Len(strOut) : strOut[i] <= new
  BY <1>4, <1>5
<1>7. \A i \in 1 .. Len(lenOut) : strOut[i] + lenOut[i] <= new
  <2>1. ASSUME NEW i \in 1 .. Len(lenOut) PROVE strOut[i] + lenOut[i] <= new
    <3>1. i \in 1 .. Len(strOut)
      BY <1>5
    <3>2. strOut \in Seq(Nat) /\ lenOut \in Seq(Nat) /\ strOut[i] + lenOut[i] <= old
      BY <1>5
    <3>3. strOut[i] \in Nat
      BY <3>1, <3>2, ElementType
    <3>4. lenOut[i] \in Nat
      BY <3>2, ElementType
    <3> QED
      BY <3>2, <3>3, <3>4, <1>4
  <2> QED
    BY <2>1
<1> QED
  BY <1>1, <1>6, <1>7 DEF Starts, Line, new

(* A string's first chunk notes where its output starts.                   *)
LEMMA StartsChunk ==
  ASSUME IInv, Starts, StartChunk \/ OutOfMemory
  PROVE  /\ Starts'
         /\ \A i \in 1 .. Len(lenOut) : strOut'[i] = strOut[i]
         /\ Len(strOut') = curLine
         /\ IF curOff = 0 THEN Len(strOut) = curLine - 1 /\ strOut'[curLine] = Len(out)
                          ELSE strOut' = strOut
<1>1. /\ pc = "chunk" /\ UNCHANGED <<curLine, curOff, out, lenOut, strIn>> /\ strOut' = NewStrOut
      /\ pc' = "returned" \/ (pc' = "emit" /\ chunk' = NextChunk)
  BY DEF StartChunk, OutOfMemory, arguments
<1>2. /\ out \in Seq(Nat) /\ Len(out) \in Nat /\ curLine \in Nat /\ curLine >= 1 /\ curOff \in Nat
      /\ strOut \in Seq(Nat) /\ lenOut \in Seq(Nat)
      /\ Len(strOut) = IF curOff = 0 THEN curLine - 1 ELSE curLine
      /\ Len(lenOut) = curLine - 1
  BY <1>1 DEF Starts, IInv, Accounted, Arguments
<1>3. pc' = "emit" /\ chunk' = 0 => curOff' = Len(Line')
  <2>1. Line' = Line
    BY <1>1 DEF Line
  <2>2. Line \in Seq(Byte) /\ curOff <= Len(Line)
    BY <1>1, NextChunkType DEF IInv, Arguments
  <2>3. Len(Line) - curOff \in Nat /\ ChunkMax \in Nat \ {0}
    BY <1>2, <2>2, CompressAssumption
  <2>4. NextChunk = IF ChunkMax <= Len(Line) - curOff THEN ChunkMax ELSE Len(Line) - curOff
    BY <2>3, MinOfTwo DEF NextChunk
  <2> HIDE DEF Line, NextChunk
  <2>5. NextChunk = 0 => curOff = Len(Line)
    BY <2>2, <2>3, <2>4, <1>2
  <2> QED
    BY <2>1, <2>5, <1>1
<1>4. CASE curOff = 0
  <2>1. /\ strOut' = Append(strOut, Len(out)) /\ Len(strOut) = curLine - 1
        /\ strOut' \in Seq(Nat) /\ Len(strOut') = curLine /\ strOut'[curLine] = Len(out)
        /\ \A i \in 1 .. curLine - 1 : strOut'[i] = strOut[i]
    BY <1>1, <1>2, <1>4 DEF NewStrOut
  <2>2. \A i \in 1 .. curLine : i \in 1 .. curLine - 1 \/ i = curLine
    BY <1>2
  <2>3. \A i \in 1 .. Len(strOut') : strOut'[i] <= Len(out)
    <3>1. \A i \in 1 .. curLine - 1 : strOut[i] <= Len(out)
      BY <2>1 DEF Starts
    <3>2. Len(out) <= Len(out)
      BY <1>2
    <3> QED
      BY <3>1, <3>2, <2>1, <2>2
  <2>4. \A i \in 1 .. Len(lenOut) : strOut'[i] + lenOut[i] <= Len(out)
    BY <2>1, <1>2 DEF Starts
  <2>5. Starts'
    BY <2>1, <2>3, <2>4, <1>1, <1>2, <1>3 DEF Starts
  <2> QED
    BY <2>1, <2>5, <1>2, <1>4
<1>5. CASE curOff # 0
  <2>1. strOut' = strOut /\ Len(strOut) = curLine
    BY <1>1, <1>2, <1>5 DEF NewStrOut
  <2>2. Starts'
    BY <2>1, <1>1, <1>2, <1>3 DEF Starts
  <2> QED
    BY <2>1, <2>2, <1>5
<1> QED
  BY <1>4, <1>5

(* A string that is finished ends where the output does.                   *)
LEMMA StartsEnd ==
  ASSUME IInv, Starts, EndChunk
  PROVE  Starts'
<1>1. pc = "emit" /\ UNCHANGED <<strIn, out, strOut>> /\ pc' \in {"chunk", "returned"}
  BY DEF EndChunk, arguments
<1>2. /\ out \in Seq(Nat) /\ Len(out) \in Nat /\ curLine \in Nat /\ curLine >= 1 /\ curOff \in Nat
      /\ strOut \in Seq(Nat) /\ lenOut \in Seq(Nat)
      /\ Len(strOut) = curLine /\ Len(lenOut) = curLine - 1
      /\ chunk \in Nat
  BY <1>1 DEF Starts, IInv, Accounted, Arguments, Buffered
<1>3. CASE MoreChunks
  <2>1. curOff' = curOff + chunk /\ curLine' = curLine /\ lenOut' = lenOut /\ pc' = "chunk"
    BY <1>3 DEF EndChunk
  <2>2. curOff + chunk # 0
    <3>1. curOff + chunk < Len(Line) /\ (chunk = 0 => curOff = Len(Line))
      BY <1>1, <1>3 DEF MoreChunks, Starts
    <3>2. Len(Line) \in Nat
      BY <1>1, NextChunkType DEF IInv
    <3> HIDE DEF Line
    <3> QED
      BY <3>1, <3>2, <1>2
  <2> QED
    BY <2>1, <2>2, <1>1, <1>2 DEF Starts
<1>4. CASE ~ MoreChunks
  <2> DEFINE len == Len(out) - strOut[curLine]
  <2>1. curOff' = 0 /\ curLine' = curLine + 1 /\ lenOut' = Append(lenOut, len)
    BY <1>4 DEF EndChunk
  <2>2. len \in Nat /\ strOut[curLine] + len = Len(out)
    <3>1. curLine \in 1 .. Len(strOut)
      BY <1>2
    <3>2. strOut[curLine] \in Nat /\ strOut[curLine] <= Len(out)
      BY <3>1, <1>2 DEF Starts
    <3> QED
      BY <3>2, <1>2
  <2> HIDE DEF len
  <2>3. /\ lenOut' \in Seq(Nat) /\ Len(lenOut') = curLine /\ lenOut'[curLine] = len
        /\ \A i \in 1 .. curLine - 1 : lenOut'[i] = lenOut[i]
    BY <2>1, <2>2, <1>2
  <2>4. \A i \in 1 .. curLine : i \in 1 .. curLine - 1 \/ i = curLine
    BY <1>2
  <2>5. \A i \in 1 .. Len(lenOut') : strOut[i] + lenOut'[i] <= Len(out)
    <3>1. \A i \in 1 .. curLine - 1 : strOut[i] + lenOut[i] <= Len(out)
      BY <1>2 DEF Starts
    <3>2. strOut[curLine] + len <= Len(out)
      BY <2>2, <1>2
    <3> QED
      BY <3>1, <3>2, <2>3, <2>4
  <2>6. (curLine + 1) - 1 = curLine
    BY <1>2
  <2>7. \A i \in 1 .. Len(strOut) : strOut[i] <= Len(out)
    BY DEF Starts
  <2> QED
    BY <2>1, <2>3, <2>5, <2>6, <2>7, <1>1, <1>2 DEF Starts
<1> QED
  BY <1>3, <1>4

(* What is written so far stands for the strings that are finished and for *)
(* the part of the current one that is consumed.                           *)
Part(i) == SubSeq(out, strOut[i] + 1, strOut[i] + lenOut[i])

Decoded ==
  /\ \A i \in 1 .. Len(lenOut) : Decodes(Decoders[table], Part(i), strIn[i])
  /\ curLine <= Len(strIn) => Decodes(Decoders[table], Current, SubSeq(Line, 1, Consumed))

(* What is finished stays, when more is written.                           *)
LEMMA PartStays ==
  ASSUME IInv, Starts, NEW bytes \in Seq(Nat), NEW i \in 1 .. Len(lenOut),
         out' = out \o bytes, strOut'[i] = strOut[i], lenOut'[i] = lenOut[i]
  PROVE  Part(i)' = Part(i)
<1>1. /\ out \in Seq(Nat) /\ i \in 1 .. Len(strOut) /\ strOut \in Seq(Nat) /\ lenOut \in Seq(Nat)
      /\ strOut[i] + lenOut[i] <= Len(out)
  <2>1. Len(lenOut) = curLine - 1 /\ curLine \in Nat /\ Len(strOut) \in {curLine - 1, curLine}
    BY DEF Starts, IInv, Arguments
  <2>2. i \in 1 .. Len(strOut)
    BY <2>1
  <2> QED
    BY <2>2 DEF Starts, IInv, Accounted
<1> DEFINE a == strOut[i]
           b == strOut[i] + lenOut[i]
<1>2. a \in Nat /\ b \in Nat /\ a <= b /\ b <= Len(out) /\ Len(out) \in Nat
  <2>1. strOut[i] \in Nat /\ lenOut[i] \in Nat
    BY <1>1, ElementType
  <2>2. Len(out) \in Nat /\ strOut[i] + lenOut[i] <= Len(out)
    BY <1>1
  <2> DEFINE x == strOut[i]
             y == lenOut[i]
             z == Len(out)
  <2>3. x \in Nat /\ y \in Nat /\ z \in Nat /\ x + y <= z /\ a = x /\ b = x + y /\ Len(out) = z
    BY <2>1, <2>2
  <2> HIDE DEF x, y, z, a, b
  <2> QED
    BY <2>3
<1>3. Part(i)' = SubSeq(out \o bytes, a + 1, b) /\ Part(i) = SubSeq(out, a + 1, b)
  BY DEF Part
<1> HIDE DEF a, b
<1>4. a <= Len(out)
  BY <1>2
<1>5. SubSeq(out \o bytes, a + 1, b) = SubSeq(out, a + 1, b)
  BY <1>1, <1>2, <1>4, PartsStay
<1> QED
  BY <1>3, <1>5

(* A step of the loop lengthens the codes of the current string, and what  *)
(* is consumed of it, by what it stands for.                               *)
LEMMA EmitAdvances ==
  ASSUME IInv, Starts, EmitCode, NEW bytes, NEW text, Stands(bytes, text)
  PROVE  /\ Consumed = curOff + cur /\ Consumed' = Consumed + Len(text)
         /\ Current' = Current \o bytes
<1>1. InLoop
  BY DEF EmitCode, EmitShortcut, EmitHashed, EmitPredicated, EmitTwoBytes, EmitOneByte
<1>3. UNCHANGED <<table, strIn, strOut, lenOut, curLine, pc, curOff, chunk>>
  BY DEF EmitCode, EmitShortcut, EmitHashed, EmitPredicated, EmitTwoBytes, EmitOneByte, Emit, arguments
<1>4. /\ bytes \in Seq(Nat) /\ text \in Seq(Byte) /\ out' = out \o bytes
      /\ Decodes(Decoders[table], bytes, text)
  BY DEF Stands, Decodes
<1>7. /\ cur \in Nat /\ chunk \in Nat /\ cur < chunk /\ curOff \in Nat /\ out \in Seq(Nat)
      /\ curLine \in Nat /\ curLine >= 1 /\ curLine <= Len(strIn) /\ Line \in Seq(Byte)
      /\ curOff + chunk <= Len(Line) /\ Len(strOut) = curLine /\ strOut \in Seq(Nat)
      /\ strOut[curLine] <= Len(out)
  <2>1. pc = "emit" /\ cur < chunk
    BY <1>1 DEF InLoop
  <2>2. cur \in Nat /\ chunk \in Nat /\ curOff \in Nat /\ curOff + chunk <= Len(Line) /\ out \in Seq(Nat)
    BY <2>1 DEF IInv, Arguments, Buffered, Accounted
  <2>3. /\ curLine \in Nat /\ curLine >= 1 /\ curLine <= Len(strIn) /\ Len(strOut) = curLine
        /\ strOut \in Seq(Nat)
    BY <2>1 DEF IInv, Arguments, Starts
  <2>4. Line \in Seq(Byte)
    BY <2>1, NextChunkType DEF IInv
  <2>5. strOut[curLine] <= Len(out)
    <3>1. curLine \in 1 .. Len(strOut)
      BY <2>3
    <3> QED
      BY <3>1 DEF Starts
  <2> QED
    BY <2>1, <2>2, <2>3, <2>4, <2>5
<1> DEFINE n == Len(text)
           at == curOff + cur
<1>8. n \in Nat /\ cur + n <= chunk /\ at \in Nat /\ at + n <= Len(Line)
  BY <1>4, <1>7 DEF Stands
<1>9. Consumed = at /\ Consumed' = at + n
  <2>1. Consumed = at
    BY <1>7, ConsumedIs
  <2>2. Min({cur', chunk'}) = cur + n
    <3> DEFINE next == cur'
    <3>1. next = cur + n \/ (next = cur + n + 1 /\ cur + n = chunk)
      BY DEF Stands
    <3> HIDE DEF next
    <3>2. next \in Int /\ chunk \in Int
      BY <3>1, <1>7, <1>8
    <3>3. Min({next, chunk}) = IF next <= chunk THEN next ELSE chunk
      BY <3>2, MinOfTwo
    <3>4. Min({next, chunk}) = cur + n
      BY <3>1, <3>3, <1>7, <1>8
    <3> QED
      BY <3>4, <1>3 DEF next
  <2>3. Consumed' = curOff + (cur + n)
    BY <2>2, <1>3 DEF Consumed
  <2> HIDE DEF n
  <2> QED
    BY <2>1, <2>3, <1>7, <1>8
<1>11. Current' = Current \o bytes
  <2> DEFINE a == strOut[curLine]
  <2>1. a \in Nat /\ a <= Len(out)
    BY <1>7
  <2>2. Len(strOut) >= curLine
    BY <1>7
  <2>3. Current = SubSeq(out, a + 1, Len(out))
    BY <2>2 DEF Current
  <2>4. Current' = SubSeq(out \o bytes, a + 1, Len(out \o bytes))
    BY <2>2, <1>3, <1>4 DEF Current
  <2> HIDE DEF a
  <2>5. SubSeq(out \o bytes, a + 1, Len(out \o bytes)) = SubSeq(out, a + 1, Len(out)) \o bytes
    BY <2>1, <1>4, <1>7, PartsGrow
  <2> QED
    BY <2>3, <2>4, <2>5
<1> QED
  BY <1>9, <1>11

(* A step of the loop.                                                     *)
LEMMA DecodedEmit ==
  ASSUME Finalized, IInv, Faced, Starts, Decoded, EmitCode
  PROVE  Starts' /\ Decoded'
<1>1. InLoop
  BY DEF EmitCode, EmitShortcut, EmitHashed, EmitPredicated, EmitTwoBytes, EmitOneByte
<1>2. PICK bytes, text : Stands(bytes, text)
  BY EmitStands
<1>3. UNCHANGED <<table, strIn, strOut, lenOut, curLine, pc, curOff, chunk>>
  BY DEF EmitCode, EmitShortcut, EmitHashed, EmitPredicated, EmitTwoBytes, EmitOneByte, Emit, arguments
<1>4. /\ bytes \in Seq(Nat) /\ text \in Seq(Byte) /\ out' = out \o bytes
      /\ Decodes(Decoders[table], bytes, text)
  BY <1>2 DEF Stands, Decodes
<1>5. Starts'
  BY <1>4, StartsEmit
<1>6. ASSUME NEW i \in 1 .. Len(lenOut)
      PROVE  Decodes(Decoders[table], Part(i)', strIn[i])
  <2>1. Part(i)' = Part(i)
    BY <1>3, <1>4, PartStays
  <2> QED
    BY <2>1 DEF Decoded
<1>7. /\ cur \in Nat /\ chunk \in Nat /\ cur < chunk /\ curOff \in Nat /\ out \in Seq(Nat)
      /\ curLine \in Nat /\ curLine >= 1 /\ curLine <= Len(strIn) /\ Line \in Seq(Byte)
      /\ curOff + chunk <= Len(Line) /\ Len(strOut) = curLine /\ strOut \in Seq(Nat)
      /\ strOut[curLine] <= Len(out)
  <2>1. pc = "emit" /\ cur < chunk
    BY <1>1 DEF InLoop
  <2>2. cur \in Nat /\ chunk \in Nat /\ curOff \in Nat /\ curOff + chunk <= Len(Line) /\ out \in Seq(Nat)
    BY <2>1 DEF IInv, Arguments, Buffered, Accounted
  <2>3. /\ curLine \in Nat /\ curLine >= 1 /\ curLine <= Len(strIn) /\ Len(strOut) = curLine
        /\ strOut \in Seq(Nat)
    BY <2>1 DEF IInv, Arguments, Starts
  <2>4. Line \in Seq(Byte)
    BY <2>1, NextChunkType DEF IInv
  <2>5. strOut[curLine] <= Len(out)
    <3>1. curLine \in 1 .. Len(strOut)
      BY <2>3
    <3> QED
      BY <3>1 DEF Starts
  <2> QED
    BY <2>1, <2>2, <2>3, <2>4, <2>5
<1> DEFINE n == Len(text)
           at == curOff + cur
<1>8. n \in Nat /\ cur + n <= chunk /\ at \in Nat /\ at + n <= Len(Line)
  BY <1>2, <1>4, <1>7 DEF Stands
<1>9. Consumed = at /\ Consumed' = at + n /\ Current' = Current \o bytes
  BY <1>2, EmitAdvances
<1>10. SubSeq(Line, 1, at + n) = SubSeq(Line, 1, at) \o text
  <2>1. ASSUME NEW i \in 1 .. n PROVE text[i] = Line[at + i]
    <3>1. text[i] = Word[i] /\ i \in 1 .. MaxLength
      BY <1>2 DEF Stands
    <3>2. cur + i <= chunk
      BY <1>7, <1>8
    <3>3. Word[i] = Line[(curOff + cur) + i]
      BY <3>1, <3>2, <1>1, WordOfLine
    <3> QED
      BY <3>1, <3>3
  <2> DEFINE s == Line
  <2>2. s \in Seq(Byte) /\ at \in Nat /\ n \in Nat /\ text \in Seq(Byte)
    BY <1>4, <1>7, <1>8
  <2>3. at + n <= Len(s) /\ Len(text) = n
    BY <1>8
  <2>4. \A i \in 1 .. n : text[i] = s[at + i]
    BY <2>1
  <2> HIDE DEF s, n, at
  <2>5. SubSeq(s, 1, at + n) = SubSeq(s, 1, at) \o text
    BY <2>2, <2>3, <2>4, PartsMeet
  <2> QED
    BY <2>5 DEF s
<1>12. Decodes(Decoders[table], Current', SubSeq(Line', 1, Consumed'))
  <2>1. Decodes(Decoders[table], Current, SubSeq(Line, 1, at))
    BY <1>7, <1>9 DEF Decoded
  <2>2. Decodes(Decoders[table], Current \o bytes, SubSeq(Line, 1, at) \o text)
    BY <2>1, <1>4, DecodesBoth
  <2>3. Line' = Line
    BY <1>3 DEF Line
  <2> HIDE DEF n, at
  <2> QED
    BY <2>2, <2>3, <1>9, <1>10
<1>13. Decoders' = Decoders
  BY DEF Decoders
<1>14. Decoded'
  BY <1>3, <1>6, <1>12, <1>13 DEF Decoded
<1> QED
  BY <1>5, <1>14

(* The head of a chunk changes nothing of what is written and consumed.    *)
LEMMA ChunkKeeps ==
  ASSUME IInv, Spent, Starts, StartChunk \/ OutOfMemory
  PROVE  /\ table' = table /\ strIn' = strIn /\ curLine' = curLine /\ lenOut' = lenOut /\ Starts'
         /\ Line' = Line /\ Consumed' = Consumed /\ Current' = Current
         /\ \A i \in 1 .. Len(lenOut) : Part(i)' = Part(i)
<1>1. /\ UNCHANGED <<table, strIn, out, lenOut, curLine, curOff>> /\ pc = "chunk"
      /\ cur' = 0 /\ chunk' \in Nat
  <2>1. CASE StartChunk
    <3>1. NextChunk \in Nat
      BY <2>1, NextChunkType DEF StartChunk, IInv
    <3> QED
      BY <2>1, <3>1 DEF StartChunk, arguments
  <2>2. CASE OutOfMemory
    BY <2>2 DEF OutOfMemory, arguments, IInv, Buffered, Spent
  <2> QED
    BY <2>1, <2>2
<1>2. /\ Starts'
      /\ \A i \in 1 .. Len(lenOut) : strOut'[i] = strOut[i]
      /\ Len(strOut') = curLine
      /\ IF curOff = 0 THEN Len(strOut) = curLine - 1 /\ strOut'[curLine] = Len(out)
                       ELSE strOut' = strOut
  BY StartsChunk
<1>3. cur = 0 /\ chunk = 0 /\ curOff \in Nat /\ curLine \in Nat /\ out \in Seq(Nat) /\ Len(out) \in Nat
  BY <1>1 DEF Spent, IInv, Arguments, Accounted
<1>4. Consumed = curOff /\ Consumed' = curOff
  <2>1. Consumed = curOff + 0
    BY <1>3, ConsumedIs
  <2>2. Consumed' = curOff + 0
    BY <1>1, MinOfTwo DEF Consumed
  <2> QED
    BY <2>1, <2>2, <1>3
<1>5. Current' = Current
  <2>1. CASE curOff = 0
    <3>1. ~ (Len(strOut) >= curLine) /\ Len(strOut') >= curLine
      BY <2>1, <1>2, <1>3
    <3>2. Current = <<>>
      BY <3>1 DEF Current
    <3>3. Current' = SubSeq(out, Len(out) + 1, Len(out))
      BY <3>1, <2>1, <1>1, <1>2 DEF Current
    <3> QED
      BY <3>2, <3>3, <1>3
  <2>2. CASE curOff # 0
    BY <2>2, <1>1, <1>2 DEF Current
  <2> QED
    BY <2>1, <2>2
<1>6. \A i \in 1 .. Len(lenOut) : Part(i)' = Part(i)
  BY <1>1, <1>2 DEF Part
<1> QED
  BY <1>1, <1>2, <1>4, <1>5, <1>6 DEF Line

(* The first chunk of a string, the next one, or none.                     *)
LEMMA DecodedChunk ==
  ASSUME IInv, Spent, Starts, Decoded, StartChunk \/ OutOfMemory
  PROVE  Starts' /\ Decoded'
<1>1. Decoders' = Decoders
  BY DEF Decoders
<1>2. Decoded'
  BY <1>1, ChunkKeeps DEF Decoded
<1> QED
  BY <1>2, ChunkKeeps

(* The end of a chunk changes nothing either; the end of a string keeps    *)
(* its codes, and starts afresh.                                           *)
LEMMA EndKeeps ==
  ASSUME IInv, Starts, EndChunk
  PROVE  /\ table' = table /\ strIn' = strIn /\ Starts'
         /\ curLine \in 1 .. Len(strIn) /\ Len(lenOut) = curLine - 1
         /\ Line \in Seq(Byte) /\ Consumed = curOff + chunk
         /\ IF MoreChunks
              THEN /\ curLine' = curLine /\ lenOut' = lenOut /\ Line' = Line
                   /\ Consumed' = Consumed /\ Current' = Current /\ \A i : Part(i)' = Part(i)
              ELSE /\ curLine' = curLine + 1 /\ Len(lenOut') = curLine /\ Consumed = Len(Line)
                   /\ Consumed' = 0 /\ Current' = <<>>
                   /\ \A i \in 1 .. curLine - 1 : Part(i)' = Part(i)
                   /\ \A i : i = curLine => Part(i)' = Current
<1>1. /\ UNCHANGED <<table, strIn, out, strOut>> /\ pc = "emit" /\ cur >= chunk
      /\ cur' = 0 /\ chunk' = 0
  BY DEF EndChunk, arguments
<1>2. Starts'
  BY StartsEnd
<1>3. /\ cur \in Nat /\ chunk \in Nat /\ curOff \in Nat /\ out \in Seq(Nat) /\ Len(out) \in Nat
      /\ curLine \in Nat /\ curLine >= 1 /\ curLine <= Len(strIn) /\ Line \in Seq(Byte)
      /\ curOff + chunk <= Len(Line) /\ Len(strOut) = curLine /\ strOut \in Seq(Nat)
      /\ lenOut \in Seq(Nat) /\ Len(lenOut) = curLine - 1
  <2>1. cur \in Nat /\ chunk \in Nat /\ curOff \in Nat /\ curOff + chunk <= Len(Line) /\ out \in Seq(Nat)
    BY <1>1 DEF IInv, Arguments, Buffered, Accounted
  <2>2. /\ curLine \in Nat /\ curLine >= 1 /\ curLine <= Len(strIn) /\ Len(strOut) = curLine
        /\ strOut \in Seq(Nat) /\ lenOut \in Seq(Nat) /\ Len(lenOut) = curLine - 1
    BY <1>1 DEF IInv, Arguments, Starts
  <2>3. Line \in Seq(Byte)
    BY <1>1, NextChunkType DEF IInv
  <2> QED
    BY <2>1, <2>2, <2>3
<1>4. Consumed = curOff + chunk
  <2>1. cur = chunk \/ cur > chunk
    BY <1>1, <1>3
  <2> QED
    BY <2>1, <1>3, ConsumedIs
<1>5. curOff' \in Nat /\ Consumed' = curOff'
  <2>1. curOff' \in Nat
    BY <1>3 DEF EndChunk
  <2> QED
    BY <2>1, <1>1, MinOfTwo DEF Consumed
<1>6. CASE MoreChunks
  <2>1. curOff' = curOff + chunk /\ curLine' = curLine /\ lenOut' = lenOut
    BY <1>6 DEF EndChunk
  <2>2. Line' = Line /\ Current' = Current /\ \A i : Part(i)' = Part(i)
    BY <2>1, <1>1 DEF Line, Current, Part
  <2> QED
    BY <2>1, <2>2, <1>1, <1>2, <1>3, <1>4, <1>5, <1>6
<1>7. CASE ~ MoreChunks
  <2> DEFINE len == Len(out) - strOut[curLine]
  <2>1. curOff' = 0 /\ curLine' = curLine + 1 /\ lenOut' = Append(lenOut, len)
    BY <1>7 DEF EndChunk
  <2>2. len \in Nat /\ strOut[curLine] + len = Len(out)
    <3>1. curLine \in 1 .. Len(strOut)
      BY <1>3
    <3>2. strOut[curLine] \in Nat /\ strOut[curLine] <= Len(out)
      BY <3>1, <1>3 DEF Starts
    <3> QED
      BY <3>2, <1>3
  <2> HIDE DEF len
  <2>3. /\ Len(lenOut') = curLine /\ lenOut'[curLine] = len
        /\ \A i \in 1 .. curLine - 1 : lenOut'[i] = lenOut[i]
    BY <2>1, <2>2, <1>3
  <2>4. ASSUME NEW i \in 1 .. curLine - 1 PROVE Part(i)' = Part(i)
    BY <2>3, <1>1 DEF Part
  <2>5. ASSUME NEW i, i = curLine PROVE Part(i)' = Current
    <3>1. Part(i)' = SubSeq(out, strOut[curLine] + 1, Len(out))
      BY <2>2, <2>3, <2>5, <1>1 DEF Part
    <3>2. Len(strOut) >= curLine
      BY <1>3
    <3> QED
      BY <3>1, <3>2 DEF Current
  <2>6. Consumed = Len(Line)
    <3> DEFINE n == Len(Line)
    <3>1. n \in Nat
      BY <1>3
    <3>2. ~ (curOff + chunk < n) /\ curOff + chunk <= n
      BY <1>3, <1>7 DEF MoreChunks
    <3> HIDE DEF n
    <3>3. curOff + chunk = n
      BY <3>1, <3>2, <1>3
    <3> QED
      BY <3>3, <1>4 DEF n
  <2>7. Current' = <<>>
    <3>1. ~ (Len(strOut') >= curLine')
      BY <2>1, <1>1, <1>3
    <3> QED
      BY <3>1 DEF Current
  <2> QED
    BY <2>1, <2>3, <2>4, <2>5, <2>6, <2>7, <1>1, <1>2, <1>3, <1>4, <1>5, <1>7
<1> QED
  BY <1>6, <1>7

(* The end of a chunk, and of a string.                                    *)
LEMMA DecodedEnd ==
  ASSUME IInv, Starts, Decoded, EndChunk
  PROVE  Starts' /\ Decoded'
<1>1. /\ table' = table /\ strIn' = strIn /\ Starts'
      /\ curLine \in 1 .. Len(strIn) /\ Len(lenOut) = curLine - 1
      /\ Line \in Seq(Byte) /\ Consumed = curOff + chunk
  BY EndKeeps
<1>2. Decoders' = Decoders
  BY DEF Decoders
<1>3. Decodes(Decoders[table], Current, SubSeq(Line, 1, Consumed))
  BY <1>1 DEF Decoded
<1>4. CASE MoreChunks
  <2>1. /\ curLine' = curLine /\ lenOut' = lenOut /\ Line' = Line
        /\ Consumed' = Consumed /\ Current' = Current /\ \A i : Part(i)' = Part(i)
    BY <1>4, EndKeeps
  <2>2. Decoded'
    BY <2>1, <1>1, <1>2 DEF Decoded
  <2> QED
    BY <2>2, <1>1
<1>5. CASE ~ MoreChunks
  <2>1. /\ curLine' = curLine + 1 /\ Len(lenOut') = curLine /\ Consumed = Len(Line)
        /\ Consumed' = 0 /\ Current' = <<>>
        /\ \A i \in 1 .. curLine - 1 : Part(i)' = Part(i)
        /\ \A i : i = curLine => Part(i)' = Current
    BY <1>5, EndKeeps
  <2>2. ASSUME NEW i \in 1 .. curLine - 1 PROVE Decodes(Decoders[table], Part(i)', strIn[i])
    BY <2>1, <1>1 DEF Decoded
  <2>3. ASSUME NEW i, i = curLine PROVE Decodes(Decoders[table], Part(i)', strIn[i])
    <3>1. SubSeq(Line, 1, Consumed) = strIn[curLine]
      <4> DEFINE s == Line
      <4>1. s \in Seq(Byte) /\ Consumed = Len(s)
        BY <1>1, <2>1
      <4> HIDE DEF s
      <4>2. SubSeq(s, 1, Len(s)) = s
        BY <4>1
      <4> QED
        BY <4>1, <4>2 DEF s, Line
    <3> QED
      BY <3>1, <2>1, <2>3, <1>3
  <2>4. \A i \in 1 .. Len(lenOut') : Decodes(Decoders[table], Part(i)', strIn[i])
    <3>1. \A i \in 1 .. curLine : i \in 1 .. curLine - 1 \/ i = curLine
      BY <1>1
    <3> QED
      BY <3>1, <2>1, <2>2, <2>3
  <2>5. curLine' <= Len(strIn) =>
          Decodes(Decoders[table], Current', SubSeq(Line', 1, Consumed'))
    <3> SUFFICES ASSUME curLine' <= Len(strIn)
                 PROVE  Decodes(Decoders[table], Current', SubSeq(Line', 1, Consumed'))
      OBVIOUS
    <3>1. Line' \in Seq(Byte)
      <4>1. curLine + 1 \in 1 .. Len(strIn) /\ strIn \in Seq(Seq(Byte))
        BY <2>1, <1>1 DEF IInv, Arguments
      <4>2. Line' = strIn[curLine + 1]
        BY <2>1, <1>1 DEF Line
      <4> QED
        BY <4>1, <4>2
    <3> DEFINE s == Line'
    <3> HIDE DEF s
    <3>2. SubSeq(s, 1, 0) = <<>>
      BY <3>1 DEF s
    <3> QED
      BY <3>2, <2>1, DecodesNone DEF s
  <2>6. Decoded'
    BY <2>4, <2>5, <1>1, <1>2 DEF Decoded
  <2> QED
    BY <2>6, <1>1
<1> QED
  BY <1>4, <1>5

(* Every step.                                                             *)
LEMMA DecodedNext ==
  ASSUME Finalized, IInv, Faced, Spent, Starts, Decoded, [Next]_vars
  PROVE  Starts' /\ Decoded'
<1>1. CASE EmitCode
  BY <1>1, DecodedEmit
<1>2. CASE StartChunk \/ OutOfMemory
  BY <1>2, DecodedChunk
<1>3. CASE EndChunk
  BY <1>3, DecodedEnd
<1>4. CASE UNCHANGED vars
  <2>1. UNCHANGED <<table, strIn, pc, curLine, curOff, chunk, cur, out, strOut, lenOut>>
    BY <1>4 DEF vars, arguments
  <2>2. Starts'
    BY <2>1 DEF Starts, Line
  <2>3. /\ Line' = Line /\ Current' = Current /\ Consumed' = Consumed /\ Decoders' = Decoders
        /\ \A i : Part(i)' = Part(i)
    BY <2>1 DEF Line, Current, Consumed, Decoders, Part
  <2>4. Decoded'
    BY <2>1, <2>3 DEF Decoded
  <2> QED
    BY <2>2, <2>4
<1> QED
  BY <1>1, <1>2, <1>3, <1>4 DEF Next

(* Nothing is consumed, and nothing is written.                            *)
LEMMA DecodedInit == Init => Starts /\ Decoded
<1> SUFFICES ASSUME Init PROVE Starts /\ Decoded
  OBVIOUS
<1>1. /\ out = <<>> /\ strOut = <<>> /\ lenOut = <<>> /\ curLine = 1 /\ curOff = 0
      /\ cur = 0 /\ chunk = 0 /\ pc \in {"chunk", "returned"}
      /\ strIn \in Seq(Seq(Byte))
  BY CompressAssumption DEF Init
<1>2. Starts
  BY <1>1 DEF Starts
<1>3. curLine <= Len(strIn) => Decodes(Decoders[table], Current, SubSeq(Line, 1, Consumed))
  <2> SUFFICES ASSUME curLine <= Len(strIn)
               PROVE  Decodes(Decoders[table], Current, SubSeq(Line, 1, Consumed))
    OBVIOUS
  <2>1. Consumed = 0 /\ Current = <<>>
    BY <1>1, MinOfTwo DEF Consumed, Current
  <2>2. Line \in Seq(Byte)
    BY <1>1 DEF Line
  <2> HIDE DEF Line
  <2>3. SubSeq(Line, 1, 0) = <<>>
    BY <2>2
  <2> QED
    BY <2>1, <2>3, DecodesNone
<1>4. 1 .. Len(lenOut) = {}
  BY <1>1
<1> QED
  BY <1>2, <1>3, <1>4 DEF Decoded

(* For all finished tables whose longer symbols do not contain the         *)
(* terminator, all strings, all variants and all chunk lengths: what       *)
(* compressBulk has written are codes of the decoder that the receiver     *)
(* rebuilds from the header, whole, usable ones, that stand for exactly    *)
(* what it has read, whatever follows them.                                *)
THEOREM WrittenAlways == ASSUME Finalized PROVE Spec => [](Starts /\ Decoded)
<1>1. Init => IInv /\ Faced /\ Spent /\ Starts /\ Decoded
  <2>1. Init => Faced
    BY DEF Init, Faced
  <2> QED
    BY <2>1, InitInv, InitSpent, DecodedInit
<1>2. IInv /\ Faced /\ Spent /\ Starts /\ Decoded /\ [Next]_vars
        => (IInv /\ Faced /\ Spent /\ Starts /\ Decoded)'
  BY Finalized, NextInv, FacedNext, SpentNext, DecodedNext
<1> QED
  BY <1>1, <1>2, PTL DEF Spec

(* So it decodes, with that decoder, to the strings.                       *)
THEOREM RoundTripAlways == ASSUME Finalized PROVE Spec => []RoundTrip
<1>1. Starts /\ Decoded => RoundTrip
  <2> SUFFICES ASSUME Starts, Decoded PROVE RoundTrip
    OBVIOUS
  <2>1. lenOut \in Seq(Nat) /\ DOMAIN lenOut = 1 .. Len(lenOut)
    BY DEF Starts
  <2>2. ASSUME NEW i \in DOMAIN lenOut PROVE Decode(Decoders[table], Finished[i]) = strIn[i]
    <3>1. i \in 1 .. Len(lenOut) /\ Finished[i] = Part(i)
      BY <2>1 DEF Finished, Part
    <3> QED
      BY <3>1, DecodesIs DEF Decoded
  <2>3. curLine <= Len(strIn) => Decode(Decoders[table], Current) = SubSeq(Line, 1, Consumed)
    BY DecodesIs DEF Decoded
  <2> QED
    BY <2>2, <2>3 DEF RoundTrip
<1> QED
  BY <1>1, WrittenAlways, PTL

--------------------------------------------------------------------------------
(* Division by the length of a chunk gives back the chunk.                 *)
LEMMA WholeChunks ==
  ASSUME NEW n \in Nat \ {0}, NEW k \in Nat, NEW c \in Nat, c < n
  PROVE  (k * n + c) \div n = k
<1> DEFINE a == k * n + c
           q == a \div n
<1>1. k * n \in Nat /\ a \in Nat
  OBVIOUS
<1>2. q \in Int /\ n * q <= a /\ a < n * (q + 1)
  BY <1>1
<1> QED
  BY <1>1, <1>2

(* The chunks lie one behind the other, each as long as can be.            *)
Aligned ==
  /\ \E k \in Nat : curOff = k * ChunkMax
  /\ pc = "emit" => chunk = NextChunk

(* Where the specification has the end of the chunk.                       *)
LEMMA ChunkEndIs ==
  ASSUME IInv, Spent, Aligned, InLoop, NEW pos, pos = curOff + cur
  PROVE  Min({Len(Line), (pos \div ChunkMax + 1) * ChunkMax}) = curOff + chunk
<1>1. /\ cur \in Nat /\ chunk \in Nat /\ cur < chunk /\ curOff \in Nat /\ ChunkMax \in Nat \ {0}
      /\ Line \in Seq(Byte) /\ Len(Line) \in Nat /\ curOff <= Len(Line) /\ chunk = NextChunk
      /\ chunk <= ChunkMax
  BY NextChunkType, CompressAssumption DEF IInv, Arguments, Buffered, InLoop, Aligned
<1>2. PICK k \in Nat : curOff = k * ChunkMax
  BY DEF Aligned
<1>3. NextChunk = IF ChunkMax <= Len(Line) - curOff THEN ChunkMax ELSE Len(Line) - curOff
  BY <1>1, MinOfTwo DEF NextChunk
<1> HIDE DEF Line, NextChunk
<1>4. pos \div ChunkMax = k
  BY <1>1, <1>2, WholeChunks
<1>5. (pos \div ChunkMax + 1) * ChunkMax = curOff + ChunkMax
  <2>1. (k + 1) * ChunkMax = k * ChunkMax + ChunkMax
    BY <1>1
  <2> QED
    BY <1>4, <2>1, <1>2
<1>6. Min({Len(Line), curOff + ChunkMax})
        = IF Len(Line) <= curOff + ChunkMax THEN Len(Line) ELSE curOff + ChunkMax
  BY <1>1, MinOfTwo
<1>7. Min({Len(Line), curOff + ChunkMax}) = curOff + chunk
  BY <1>1, <1>3, <1>6
<1> QED
  BY <1>5, <1>7

LEMMA GreedyTerms ==
  /\ Greedy!ChunkEnd = Min({Len(Greedy!Line), (Consumed \div ChunkMax + 1) * ChunkMax})
  /\ Greedy!Matching = {i \in DOMAIN table.symbols : IsPrefix(table.symbols[i], Greedy!Rest)}
BY DEF Greedy!ChunkEnd, Greedy!Min, Min, Greedy!Matching, Greedy!IsPrefix, IsPrefix

(* What a step of the loop has in sight is what the specification has, as  *)
(* far as a symbol goes.                                                   *)
LEMMA RestIs ==
  ASSUME IInv, Faced, Spent, Aligned, InLoop, Consumed = curOff + cur, Len(Finished) = curLine - 1
  PROVE  /\ Greedy!Line = Line
         /\ Greedy!Rest[1] = SubSeq(Word, 1, Ahead)[1]
         /\ \A x \in Symbol : IsPrefix(x, Greedy!Rest) <=> IsPrefix(x, SubSeq(Word, 1, Ahead))
<1> DEFINE rest == Greedy!Rest
           n == Ahead
           s == SubSeq(Word, 1, n)
<1>1. /\ cur \in Nat /\ chunk \in Nat /\ cur < chunk /\ curOff \in Nat /\ curLine \in Nat
      /\ Line \in Seq(Byte) /\ curOff + chunk <= Len(Line)
  BY NextChunkType DEF IInv, Arguments, Buffered, InLoop
<1>2. Greedy!Line = Line
  BY <1>1 DEF Greedy!Line, Line
<1>3. rest = SubSeq(Line, (curOff + cur) + 1, curOff + chunk)
  BY <1>2, ChunkEndIs, GreedyTerms DEF Greedy!Rest
<1>4. n \in 1 .. MaxLength /\ cur + n <= chunk /\ (n < MaxLength => cur + n = chunk)
  BY AheadType
<1>5. /\ s \in Symbol /\ Len(s) = n /\ n \in Nat /\ n >= 1 /\ MaxLength \in Nat
      /\ \A i \in 1 .. n : s[i] = Word[i]
  <2> DEFINE w == Word
  <2>1. w \in [1 .. MaxLength -> Byte]
    BY WordType
  <2> HIDE DEF w, n
  <2>2. /\ SubSeq(w, 1, n) \in Symbol /\ Len(SubSeq(w, 1, n)) = n /\ n \in Nat /\ n >= 1
        /\ MaxLength \in Nat /\ \A i \in 1 .. n : SubSeq(w, 1, n)[i] = w[i]
    BY <2>1, <1>4, FirstBytes
  <2> QED
    BY <2>2 DEF w
<1>6. ASSUME NEW i \in 1 .. n PROVE s[i] = Line[(curOff + cur) + i]
  <2>1. cur + i <= chunk /\ i \in 1 .. MaxLength
    BY <1>1, <1>4, <1>5
  <2> QED
    BY <2>1, <1>5, WordOfLine
<1> DEFINE line == Line
           pos == curOff + cur
<1>7. /\ rest \in Seq(Byte) /\ Len(rest) = chunk - cur
      /\ \A i \in 1 .. chunk - cur : rest[i] = line[pos + i]
  <2>1. rest = SubSeq(line, pos + 1, curOff + chunk) /\ line \in Seq(Byte)
    BY <1>1, <1>3
  <2>2. pos \in Nat /\ pos <= curOff + chunk /\ curOff + chunk <= Len(line)
        /\ (curOff + chunk) - pos = chunk - cur
    BY <1>1
  <2> HIDE DEF rest, line, pos
  <2>3. ASSUME NEW q \in Nat, pos <= q, q <= Len(line)
        PROVE  /\ SubSeq(line, pos + 1, q) \in Seq(Byte) /\ Len(SubSeq(line, pos + 1, q)) = q - pos
               /\ \A i \in 1 .. q - pos : SubSeq(line, pos + 1, q)[i] = line[pos + i]
    BY <2>1, <2>2, <2>3
  <2> QED
    BY <2>1, <2>2, <2>3, <1>1
<1>8. \A i \in 1 .. n : rest[i] = s[i]
  <2>1. \A i \in 1 .. n : i \in 1 .. chunk - cur /\ s[i] = line[pos + i]
    BY <1>1, <1>4, <1>5, <1>6
  <2> HIDE DEF rest, line, pos, n, s
  <2> QED
    BY <2>1, <1>7
<1> HIDE DEF rest, line, pos, n, s
<1>9. ASSUME NEW x \in Symbol PROVE IsPrefix(x, rest) <=> IsPrefix(x, s)
  <2>1. x \in Seq(Byte) /\ Len(x) \in Nat /\ Len(x) <= MaxLength
    BY SymbolIsSeq, <1>5
  <2>2. s \in Seq(Byte)
    BY <1>5, SymbolIsSeq
  <2>3. \A q \in Seq(Byte) :
          IsPrefix(x, q) <=> Len(x) <= Len(q) /\ \A i \in 1 .. Len(x) : x[i] = q[i]
    BY <2>1, PrefixElements
  <2>4. Len(x) <= Len(rest) <=> Len(x) <= Len(s)
    BY <2>1, <1>1, <1>4, <1>5, <1>7
  <2>5. Len(x) <= Len(s) => \A i \in 1 .. Len(x) : rest[i] = s[i]
    BY <2>1, <1>5, <1>8
  <2> QED
    BY <2>2, <2>3, <2>4, <2>5, <1>7
<1>10. rest[1] = s[1]
  BY <1>5, <1>8
<1> QED
  BY <1>2, <1>9, <1>10 DEF rest, s, n

LEMMA AlignedNext == ASSUME IInv, Spent, Aligned, [Next]_vars PROVE Aligned'
<1>1. CASE StartChunk
  <2>1. UNCHANGED <<strIn, curLine, curOff>> /\ chunk' = NextChunk
    BY <1>1 DEF StartChunk, arguments
  <2>2. NextChunk' = NextChunk
    BY <2>1 DEF NextChunk, Line
  <2> QED
    BY <2>1, <2>2 DEF Aligned
<1>2. CASE EmitCode
  <2>1. UNCHANGED <<strIn, pc, curLine, curOff, chunk>>
    BY <1>2 DEF EmitCode, EmitShortcut, EmitHashed, EmitPredicated, EmitTwoBytes, EmitOneByte,
                Emit, arguments
  <2>2. NextChunk' = NextChunk
    BY <2>1 DEF NextChunk, Line
  <2> QED
    BY <2>1, <2>2 DEF Aligned
<1>3. CASE EndChunk
  <2>1. pc = "emit" /\ pc' # "emit"
    BY <1>3 DEF EndChunk
  <2>2. PICK k \in Nat : curOff = k * ChunkMax
    BY DEF Aligned
  <2>3. /\ chunk = NextChunk /\ curOff \in Nat /\ ChunkMax \in Nat \ {0} /\ chunk \in Nat
        /\ Line \in Seq(Byte) /\ Len(Line) \in Nat /\ curOff + chunk <= Len(Line)
    BY <2>1, NextChunkType, CompressAssumption DEF Aligned, IInv, Arguments, Buffered
  <2>4. NextChunk = IF ChunkMax <= Len(Line) - curOff THEN ChunkMax ELSE Len(Line) - curOff
    BY <2>3, MinOfTwo DEF NextChunk
  <2>5. CASE MoreChunks
    <3>1. curOff + chunk < Len(Line) /\ curOff' = curOff + chunk
      BY <1>3, <2>5 DEF EndChunk, MoreChunks
    <3> HIDE DEF Line, NextChunk
    <3>2. chunk = ChunkMax
      BY <3>1, <2>3, <2>4
    <3>3. (k + 1) * ChunkMax = k * ChunkMax + ChunkMax /\ k + 1 \in Nat
      BY <2>3
    <3>4. curOff' = (k + 1) * ChunkMax
      BY <3>1, <3>2, <3>3, <2>2
    <3> QED
      BY <3>3, <3>4, <2>1 DEF Aligned
  <2>6. CASE ~ MoreChunks
    <3>1. curOff' = 0
      BY <1>3, <2>6 DEF EndChunk
    <3>2. 0 = 0 * ChunkMax
      BY <2>3
    <3> QED
      BY <3>1, <3>2, <2>1 DEF Aligned
  <2> QED
    BY <2>5, <2>6
<1>4. CASE OutOfMemory
  BY <1>4 DEF OutOfMemory, Aligned
<1>5. CASE UNCHANGED vars
  BY <1>5 DEF vars, arguments, Aligned, NextChunk, Line
<1> QED
  BY <1>1, <1>2, <1>3, <1>4, <1>5 DEF Next

(* The finished strings, one by one.                                       *)
LEMMA FinishedIs ==
  ASSUME IInv, Starts
  PROVE  /\ Finished = [i \in 1 .. Len(lenOut) |-> Part(i)]
         /\ Finished \in Seq(Seq(Nat)) /\ Len(Finished) = Len(lenOut)
         /\ Len(lenOut) = curLine - 1 /\ curLine \in Nat /\ curLine >= 1
<1>1. /\ lenOut \in Seq(Nat) /\ Len(lenOut) \in Nat /\ out \in Seq(Nat) /\ curLine \in Nat
      /\ curLine >= 1 /\ Len(lenOut) = curLine - 1
  BY DEF Starts, IInv, Accounted, Arguments
<1>2. ASSUME NEW i \in 1 .. Len(lenOut) PROVE Part(i) \in Seq(Nat)
  <2> DEFINE a == strOut[i]
             b == strOut[i] + lenOut[i]
  <2>1. a \in Nat /\ b \in Nat /\ a <= Len(out) /\ b <= Len(out)
    <3>1. i \in 1 .. Len(strOut)
      <4>1. Len(strOut) \in {curLine - 1, curLine}
        BY DEF Starts
      <4> QED
        BY <4>1, <1>1
    <3>2. strOut \in Seq(Nat) /\ a <= Len(out) /\ b <= Len(out)
      BY <3>1 DEF Starts
    <3>3. a \in Nat
      BY <3>1, <3>2, ElementType
    <3>4. lenOut[i] \in Nat
      BY <1>1, ElementType
    <3> QED
      BY <3>2, <3>3, <3>4
  <2>2. Part(i) = SubSeq(out, a + 1, b)
    BY DEF Part
  <2> HIDE DEF a, b
  <2>3. <<>> \in Seq(Nat)
    OBVIOUS
  <2>4. SubSeq(out, a + 1, b) \in Seq(Nat)
    BY <2>1, <2>3, <1>1, PartsStay
  <2> QED
    BY <2>2, <2>4
<1>3. Finished = [i \in 1 .. Len(lenOut) |-> Part(i)]
  BY DEF Finished, Part
<1> DEFINE n == Len(lenOut)
           P(i) == Part(i)
<1> HIDE DEF n, P
<1>4. Finished = [i \in 1 .. n |-> P(i)] /\ n \in Nat /\ \A i \in 1 .. n : P(i) \in Seq(Nat)
  BY <1>1, <1>2, <1>3 DEF n, P
<1>5. Finished \in Seq(Seq(Nat)) /\ Len(Finished) = n
  BY <1>4
<1> QED
  BY <1>1, <1>3, <1>5 DEF n

(* The head of a chunk is no step of the specification.                    *)
LEMMA GreedyChunk ==
  ASSUME IInv, Spent, Starts, StartChunk \/ OutOfMemory
  PROVE  UNCHANGED Greedy!vars
<1>1. /\ table' = table /\ strIn' = strIn /\ lenOut' = lenOut
      /\ Consumed' = Consumed /\ Current' = Current
      /\ \A i \in 1 .. Len(lenOut) : Part(i)' = Part(i)
  BY ChunkKeeps
<1>2. Finished' = Finished
  BY <1>1 DEF Finished, Part
<1> QED
  BY <1>1, <1>2 DEF Greedy!vars

(* Nor is the end of a chunk; the end of a string is.                      *)
LEMMA GreedyEnd ==
  ASSUME IInv, Starts, EndChunk
  PROVE  Greedy!EndString \/ UNCHANGED Greedy!vars
<1>1. /\ table' = table /\ strIn' = strIn /\ Starts'
      /\ curLine \in 1 .. Len(strIn) /\ Len(lenOut) = curLine - 1
      /\ Line \in Seq(Byte)
  BY EndKeeps
<1>2. /\ Finished = [i \in 1 .. Len(lenOut) |-> Part(i)]
      /\ Finished \in Seq(Seq(Nat)) /\ Len(Finished) = Len(lenOut)
      /\ curLine \in Nat /\ curLine >= 1
  BY FinishedIs
<1>3. CASE MoreChunks
  <2>1. /\ lenOut' = lenOut /\ Consumed' = Consumed /\ Current' = Current /\ \A i : Part(i)' = Part(i)
    BY <1>3, EndKeeps
  <2>2. Finished' = Finished
    BY <2>1 DEF Finished, Part
  <2> QED
    BY <1>1, <2>1, <2>2 DEF Greedy!vars
<1>4. CASE ~ MoreChunks
  <2>1. /\ curLine' = curLine + 1 /\ Len(lenOut') = curLine /\ Consumed = Len(Line)
        /\ Consumed' = 0 /\ Current' = <<>>
        /\ \A i \in 1 .. curLine - 1 : Part(i)' = Part(i)
        /\ \A i : i = curLine => Part(i)' = Current
    BY <1>4, EndKeeps
  <2>2. Len(Finished) < Len(strIn) /\ Greedy!Line = Line
    BY <1>1, <1>2 DEF Greedy!Line, Line
  <2>3. Finished' = Append(Finished, Current)
    <3> DEFINE n == curLine - 1
               P(i) == Part(i)
               Q(i) == Part(i)'
               c == Current
    <3>1. n \in Nat /\ Finished = [i \in 1 .. n |-> P(i)] /\ n + 1 = curLine
      BY <1>1, <1>2
    <3>2. Finished' = [i \in 1 .. n + 1 |-> Q(i)]
      BY <2>1, <3>1 DEF Finished, Part
    <3>3. (\A i \in 1 .. n : Q(i) = P(i)) /\ \A i : i = curLine => Q(i) = c
      BY <2>1
    <3> HIDE DEF n, P, Q, c
    <3>4. Append([i \in 1 .. n |-> P(i)], c) = [i \in 1 .. n + 1 |-> Q(i)]
      BY <3>1, <3>3
    <3> QED
      BY <3>1, <3>2, <3>4 DEF c
  <2>4. Greedy!EndString
    BY <2>1, <2>2, <2>3, <1>1 DEF Greedy!EndString
  <2> QED
    BY <2>4
<1> QED
  BY <1>3, <1>4

(* A step of the loop emits the longest match, or escapes a byte.          *)
LEMMA GreedyEmits ==
  ASSUME Finalized, IInv, Faced, Spent, Starts, Aligned, EmitCode
  PROVE  Greedy!Emit
<1>1. InLoop
  BY DEF EmitCode, EmitShortcut, EmitHashed, EmitPredicated, EmitTwoBytes, EmitOneByte
<1>2. PICK bytes, text : Stands(bytes, text)
  BY EmitStands
<1>3. /\ UNCHANGED <<table, strIn, strOut, lenOut>>
      /\ table \in Tables
  BY <1>1 DEF EmitCode, EmitShortcut, EmitHashed, EmitPredicated, EmitTwoBytes, EmitOneByte,
     Emit, arguments, IInv, Arguments
<1>4. Consumed = curOff + cur /\ Consumed' = Consumed + Len(text) /\ Current' = Current \o bytes
  BY <1>2, EmitAdvances
<1>5. /\ Len(Finished) = curLine - 1 /\ curLine \in Nat /\ curLine >= 1
      /\ Len(Finished) = Len(lenOut)
  BY FinishedIs
<1>6. /\ cur \in Nat /\ chunk \in Nat /\ cur < chunk /\ curOff \in Nat
      /\ curOff + chunk <= Len(Line) /\ Line \in Seq(Byte) /\ curLine <= Len(strIn)
      /\ out \in Seq(Nat)
  BY <1>1, NextChunkType DEF IInv, Arguments, Buffered, Accounted, InLoop
<1> DEFINE s == SubSeq(Word, 1, Ahead)
           us == table.symbols
<1>7. /\ Greedy!Line = Line
      /\ Greedy!Rest[1] = s[1]
      /\ \A x \in Symbol : IsPrefix(x, Greedy!Rest) <=> IsPrefix(x, s)
  BY <1>1, <1>4, <1>5, RestIs
<1>8. Len(Finished) < Len(strIn) /\ Consumed < Len(Greedy!Line) /\ Len(strIn) \in Nat
  <2>1. Len(strIn) \in Nat
    BY <1>1 DEF IInv, Arguments
  <2> HIDE DEF Line
  <2> QED
    BY <2>1, <1>4, <1>5, <1>6, <1>7
<1>9. Finished' = Finished
  <2>1. bytes \in Seq(Nat) /\ out' = out \o bytes
    BY <1>2 DEF Stands, Decodes
  <2>2. \A i \in 1 .. Len(lenOut) : Part(i)' = Part(i)
    BY <2>1, <1>3, PartStays
  <2> QED
    BY <2>2, <1>3 DEF Finished, Part
<1>10. us \in Seq(Symbol) /\ \A i \in DOMAIN us : us[i] \in Symbol /\ i \in Nat
  <2>1. PICK b : Ready(b) /\ NSymbols(b) > 0 /\ NoneAcross(b) /\ table = FinalizeTable(b)
    BY <1>3 DEF Finalized
  <2>2. us \in Seq(Symbol)
    BY <2>1, FinalSymbols
  <2> HIDE DEF us
  <2> QED
    BY <2>2
<1> HIDE DEF s, us
<1>11. \A i \in DOMAIN us : i \in Greedy!Matching <=> IsPrefix(us[i], s)
  <2>1. Greedy!Matching = {i \in DOMAIN us : IsPrefix(us[i], Greedy!Rest)}
    BY GreedyTerms DEF us
  <2> QED
    BY <2>1, <1>7, <1>10
<1>12. Greedy!Matching \subseteq DOMAIN us
  BY GreedyTerms DEF us
<1>13. Chosen(table, s, bytes, text)
  BY <1>2 DEF Stands, s
<1>14. Current \in Seq(Nat)
  <2> DEFINE a == strOut[curLine]
  <2>1. strOut \in Seq(Nat) /\ Len(strOut) = curLine /\ a <= Len(out)
    <3>1. strOut \in Seq(Nat) /\ Len(strOut) = curLine
      BY <1>1 DEF Starts, InLoop
    <3>2. curLine \in 1 .. Len(strOut)
      BY <3>1, <1>5
    <3> QED
      BY <3>1, <3>2 DEF Starts
  <2>2. a \in Nat /\ Current = SubSeq(out, a + 1, Len(out)) /\ Len(out) \in Nat
    BY <2>1, <1>5, <1>6 DEF Current
  <2>3. <<>> \in Seq(Nat) /\ Len(out) <= Len(out)
    BY <2>2
  <2> HIDE DEF a
  <2> QED
    BY <2>1, <2>2, <2>3, <1>6, PartsStay
<1>15. (\E i \in Greedy!Matching : Greedy!EmitSymbol(i)) \/ Greedy!EmitEscape
  <2>1. CASE \E i \in DOMAIN us :
               bytes = <<i - 1>> /\ text = us[i] /\ IsPrefix(text, s) /\ Longest(table, s, text)
    <3>1. PICK i \in DOMAIN us :
               bytes = <<i - 1>> /\ text = us[i] /\ IsPrefix(text, s) /\ Longest(table, s, text)
      BY <2>1
    <3>2. i \in Greedy!Matching
      BY <3>1, <1>11
    <3>3. \A j \in Greedy!Matching : Len(us[j]) <= Len(us[i])
      <4>1. ASSUME NEW j \in Greedy!Matching PROVE Len(us[j]) <= Len(us[i])
        <5>1. j \in DOMAIN us /\ IsPrefix(us[j], s)
          BY <1>11, <1>12
        <5>2. us[j] \in Range(us)
          BY <5>1 DEF Range
        <5> QED
          BY <5>1, <5>2, <3>1 DEF Longest, us
      <4> QED
        BY <4>1
    <3>4. Current' = Append(Current, i - 1)
      <4>1. i - 1 \in Int
        BY <1>10
      <4>2. Current \o <<i - 1>> = Append(Current, i - 1)
        BY <4>1, <1>14
      <4> QED
        BY <4>2, <3>1, <1>4
    <3>5. Greedy!EmitSymbol(i)
      BY <3>1, <3>2, <3>3, <3>4, <1>4 DEF Greedy!EmitSymbol, us
    <3> QED
      BY <3>2, <3>5
  <2>2. CASE /\ bytes = <<ESC, s[1]>> /\ text = <<s[1]>>
             /\ \A x \in Range(us) : ~ IsPrefix(x, s)
    <3>1. Greedy!Matching = {}
      <4>1. ASSUME NEW j \in Greedy!Matching PROVE FALSE
        <5>1. j \in DOMAIN us /\ IsPrefix(us[j], s)
          BY <1>11, <1>12
        <5>2. us[j] \in Range(us)
          BY <5>1 DEF Range
        <5> QED
          BY <5>1, <5>2, <2>2
      <4> QED
        BY <4>1
    <3>2. Len(text) = 1
      BY <2>2
    <3>3. Greedy!EmitEscape
      BY <3>1, <3>2, <2>2, <1>4, <1>7 DEF Greedy!EmitEscape
    <3> QED
      BY <3>3
  <2> QED
    BY <2>1, <2>2, <1>13 DEF Chosen, us
<1> QED
  BY <1>3, <1>8, <1>9, <1>15 DEF Greedy!Emit

(* At the start nothing is compressed.                                     *)
LEMMA GreedyInit == Init => Aligned /\ Greedy!Init
<1> SUFFICES ASSUME Init PROVE Aligned /\ Greedy!Init
  OBVIOUS
<1>1. /\ strOut = <<>> /\ lenOut = <<>> /\ curLine = 1 /\ curOff = 0 /\ cur = 0 /\ chunk = 0
      /\ pc # "emit" /\ ChunkMax \in Nat
  BY CompressAssumption DEF Init
<1>2. Consumed = 0 /\ Current = <<>>
  BY <1>1, MinOfTwo DEF Consumed, Current
<1>3. Finished = <<>>
  BY <1>1 DEF Finished
<1>4. 0 = 0 * ChunkMax
  BY <1>1
<1> QED
  BY <1>1, <1>2, <1>3, <1>4 DEF Aligned, Greedy!Init

(* For all such tables, all strings, all variants and all chunk lengths,   *)
(* compressBulk implements the greedy compressor: whatever shortcut finds  *)
(* it, each code is that of the longest symbol that the rest of the chunk  *)
(* starts with, so that all variants of the loop emit the same codes.      *)
THEOREM ImplementsGreedyAlways == ASSUME Finalized PROVE Spec => ImplementsGreedy
<1> DEFINE I == IInv /\ Faced /\ Spent /\ Starts /\ Decoded /\ Aligned
<1>1. Init => I /\ Greedy!Init
  <2>1. Init => Faced
    BY DEF Init, Faced
  <2> QED
    BY <2>1, InitInv, InitSpent, DecodedInit, GreedyInit
<1>2. I /\ [Next]_vars => I'
  BY Finalized, NextInv, FacedNext, SpentNext, DecodedNext, AlignedNext
<1>3. I /\ [Next]_vars => [Greedy!Emit \/ Greedy!EndString]_Greedy!vars
  <2> SUFFICES ASSUME I, [Next]_vars PROVE [Greedy!Emit \/ Greedy!EndString]_Greedy!vars
    OBVIOUS
  <2>1. CASE StartChunk \/ OutOfMemory
    BY <2>1, GreedyChunk
  <2>2. CASE EmitCode
    BY <2>2, Finalized, GreedyEmits
  <2>3. CASE EndChunk
    BY <2>3, GreedyEnd
  <2>4. CASE UNCHANGED vars
    <3>1. Finished' = Finished /\ Current' = Current /\ Consumed' = Consumed
      BY <2>4 DEF vars, arguments, Finished, Current, Consumed
    <3> QED
      BY <3>1, <2>4 DEF vars, arguments, Greedy!vars
  <2> QED
    BY <2>1, <2>2, <2>3, <2>4 DEF Next
<1> QED
  BY <1>1, <1>2, <1>3, PTL DEF Spec, ImplementsGreedy, Greedy!Spec
================================================================================
