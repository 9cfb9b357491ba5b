----------------------------- MODULE CompressBulk ------------------------------
(***************************************************************************)
(* The scalar compressor (libfsst.cpp, compressBulk): strings are copied   *)
(* chunk by chunk to a small buffer, closed with the terminator byte, and  *)
(* each step of the inner loop looks at the next MaxLength bytes of that   *)
(* buffer, emits one code and advances.  Three variants of the loop differ *)
(* in the shortcuts they take.  _compressAuto picks the variant from       *)
(* statistics of the table; here any table may meet any variant, as it may *)
(* through compressImpl.                                                   *)
(***************************************************************************)
EXTENDS Decoding

CONSTANTS
  ChunkMax,    \* the longest chunk, 511
  Slack,       \* the room asked for on top of the worst case, 7
  Tables,      \* the finished symbol tables to compress with
  Inputs(_),   \* the batches of strings that may be compressed with a table
  Sizes        \* the sizes of the output buffer

ASSUME CompressAssumption ==
  /\ ChunkMax \in Nat \ {0}
  /\ Slack \in Nat \ {0}
  /\ Sizes \subseteq Nat
  /\ \A t \in Tables :
       /\ t.terminator \in Byte
       /\ \A p \in Byte \X Byte : t.shortCodes[p].code \in Nat /\ t.shortCodes[p].len \in {1, 2}
       /\ \A k \in Bucket : t.hashTab[k] # FreeSlot =>
            t.hashTab[k].code \in Nat /\ t.hashTab[k].str \in Seq(Byte) \ {<<>>}
       /\ Inputs(t) \subseteq Seq(Seq(Byte))

(* What finalize leaves behind: a longer symbol does not contain the       *)
(* terminator; what the loop takes for two bytes, whichever way, is a      *)
(* symbol of two bytes, which does not contain it either, or the final     *)
(* zero.  A zero-terminated string has no other zero.                      *)
PassesForTwo(t, entry) ==
  entry.len = 2 \/ CodeByte(entry.code) < ByteLim(t) \/ CodeByte(entry.code) < t.suffixLim

ASSUME LayoutAssumption ==
  \A t \in Tables :
    /\ \A k \in Bucket : t.hashTab[k] # FreeSlot => t.terminator \notin Range(t.hashTab[k].str)
    /\ \A p \in Byte \X Byte : PassesForTwo(t, t.shortCodes[p]) =>
         t.terminator \notin {p[1], p[2]} \/ (t.zeroTerminated /\ p[1] = 0)
    /\ t.zeroTerminated => \A strings \in Inputs(t) : \A i \in DOMAIN strings :
         \A k \in DOMAIN strings[i] : strings[i][k] = 0 <=> k = Len(strings[i])

Variants == {"noSuffixOpt", "avoidBranch", "plain"}

VARIABLES
  table, variant, strIn, size,   \* the arguments of the call
  pc,        \* "chunk": at the head of the chunk loop, "emit", "returned"
  curLine,   \* the string being compressed, from 1
  curOff,    \* how much of it lies in finished chunks
  chunk,     \* the length of the current chunk
  buf,       \* the buffer; what it held before is never erased
  cur,       \* the read position in buf
  out,       \* the bytes written before the output pointer
  strOut,    \* where the output of each string starts
  lenOut,    \* the compressed length of each finished string
  touched    \* how many bytes of the output buffer were ever written (history)

arguments == <<table, variant, strIn, size>>
vars == <<table, variant, strIn, size,
          pc, curLine, curOff, chunk, buf, cur, out, strOut, lenOut, touched>>

BufIndex == 0 .. ChunkMax + MaxLength

Init ==
  /\ table \in Tables
  /\ variant \in Variants
  /\ strIn \in Inputs(table)
  /\ size \in Sizes
  /\ pc = IF strIn = <<>> THEN "returned" ELSE "chunk"
  /\ curLine = 1
  /\ curOff = 0
  /\ chunk = 0
  /\ buf = [i \in BufIndex |-> 0]
  /\ cur = 0
  /\ out = <<>>
  /\ strOut = <<>>
  /\ lenOut = <<>>
  /\ touched = 0

Line == strIn[curLine]
NextChunk == Min({ChunkMax, Len(Line) - curOff})
NewStrOut == IF curOff = 0 THEN Append(strOut, Len(out)) ELSE strOut

(* The room asked for before a chunk is compressed; mutants: an escape     *)
(* counted as one byte, every chunk counted as a full one.                 *)
Room_single(n) == n + Slack
Room_full(n)   == 2 * ChunkMax + Slack
Room(n)        == 2 * n + Slack

(* The worst case of the chunk does not fit: the call returns curLine.     *)
OutOfMemory ==
  /\ pc = "chunk"
  /\ Room(NextChunk) > size - Len(out)
  /\ strOut' = NewStrOut
  /\ pc' = "returned"
  /\ UNCHANGED <<arguments, curLine, curOff, chunk, buf, cur, out, lenOut, touched>>

(* Mutant of Filled: no terminator.                                        *)
Filled_open(old, from, n) ==
  [i \in BufIndex |-> IF i < n THEN Line[from + i + 1] ELSE old[i]]

(* memcpy of the chunk, and the terminator behind it.                      *)
Filled(old, from, n) ==
  [i \in BufIndex |-> IF i < n THEN Line[from + i + 1]
                      ELSE IF i = n THEN table.terminator ELSE old[i]]

StartChunk ==
  /\ pc = "chunk"
  /\ Room(NextChunk) <= size - Len(out)
  /\ strOut' = NewStrOut
  /\ chunk' = NextChunk
  /\ buf' = Filled(buf, curOff, NextChunk)
  /\ cur' = 0
  /\ pc' = "emit"
  /\ UNCHANGED <<arguments, curLine, curOff, out, lenOut, touched>>

--------------------------------------------------------------------------------
(* One step of the inner loop: the word at cur and the code shortCodes has *)
(* for its first two bytes.                                                *)
Word == [i \in 1 .. MaxLength |-> buf[cur + i - 1]]
Short == table.shortCodes[First2(Word)]

(* bytes are appended to the output and n bytes of the chunk are consumed. *)
(* When the loop has tried the hash table it has also written the byte     *)
(* behind the output pointer, speculatively.                               *)
Emit(bytes, n, speculative) ==
  /\ out' = out \o bytes
  /\ cur' = cur + n
  /\ touched' = Max({touched, Len(out) + (IF speculative THEN 2 ELSE 1)})
  /\ UNCHANGED <<arguments, pc, curLine, curOff, chunk, buf, strOut, lenOut>>

InLoop == pc = "emit" /\ cur < chunk

(* Mutant: the first code that does have a longer symbol is taken, too.    *)
TakesShortcut_late ==
  variant = "noSuffixOpt" /\ CodeByte(Short.code) <= table.suffixLim

TakesShortcut == variant = "noSuffixOpt" /\ CodeByte(Short.code) < table.suffixLim

(* Mutant of CodeOrEscape: the byte kept is the one behind the escaped.    *)
CodeOrEscape_next ==
  IF EscapeBit(Short.code) = 1 THEN <<CodeByte(Short.code), Word[2]>>
                               ELSE <<CodeByte(Short.code)>>

(* A code, or the escape code and the byte it escapes.                     *)
CodeOrEscape ==
  IF EscapeBit(Short.code) = 1 THEN <<CodeByte(Short.code), Word[1]>>
                               ELSE <<CodeByte(Short.code)>>

(* A two-byte code that no longer symbol starts with.                      *)
EmitShortcut ==
  /\ InLoop
  /\ TakesShortcut
  /\ Emit(<<CodeByte(Short.code)>>, 2, FALSE)

EmitHashed ==
  /\ InLoop
  /\ ~ TakesShortcut
  /\ HashMatch(table, Word)
  /\ LET slot == table.hashTab[BucketOf(Word)]
     IN  Emit(<<CodeByte(slot.code)>>, Len(slot.str), TRUE)

(* avoidBranch: code, escape and length all come from shortCodes.          *)
EmitPredicated ==
  /\ InLoop
  /\ ~ TakesShortcut
  /\ ~ HashMatch(table, Word)
  /\ variant = "avoidBranch"
  /\ Emit(CodeOrEscape, Short.len, TRUE)

(* The other variants tell the lengths apart by byteLim.                   *)
EmitTwoBytes ==
  /\ InLoop
  /\ ~ TakesShortcut
  /\ ~ HashMatch(table, Word)
  /\ variant # "avoidBranch"
  /\ CodeByte(Short.code) < ByteLim(table)
  /\ Emit(<<CodeByte(Short.code)>>, 2, TRUE)

EmitOneByte ==
  /\ InLoop
  /\ ~ TakesShortcut
  /\ ~ HashMatch(table, Word)
  /\ variant # "avoidBranch"
  /\ CodeByte(Short.code) >= ByteLim(table)
  /\ Emit(CodeOrEscape, 1, TRUE)

(* The condition of the chunk loop.                                        *)
MoreChunks      == curOff + chunk < Len(Line)

(* The chunk is finished; with the last chunk the string is, too.          *)
EndChunk ==
  /\ pc = "emit"
  /\ cur >= chunk
  /\ IF MoreChunks
       THEN /\ curOff' = curOff + chunk
            /\ pc' = "chunk"
            /\ UNCHANGED <<curLine, lenOut>>
       ELSE /\ curOff' = 0
            /\ lenOut' = Append(lenOut, Len(out) - strOut[curLine])
            /\ curLine' = curLine + 1
            /\ pc' = IF curLine < Len(strIn) THEN "chunk" ELSE "returned"
  /\ cur' = 0
  /\ chunk' = 0
  /\ UNCHANGED <<arguments, buf, out, strOut, touched>>

EmitCode ==
  \/ EmitShortcut
  \/ EmitHashed
  \/ EmitPredicated
  \/ EmitTwoBytes
  \/ EmitOneByte

Next == OutOfMemory \/ StartChunk \/ EmitCode \/ EndChunk

(* A call runs in one thread, to its end.                                  *)
Spec == Init /\ [][Next]_vars /\ WF_vars(Next)
--------------------------------------------------------------------------------
(* The compressed strings that are finished, and the codes and the number  *)
(* of bytes of the one in progress.                                        *)
Finished ==
  [i \in 1 .. Len(lenOut) |-> SubSeq(out, strOut[i] + 1, strOut[i] + lenOut[i])]

Current ==
  IF Len(strOut) >= curLine THEN SubSeq(out, strOut[curLine] + 1, Len(out)) ELSE <<>>

Consumed == curOff + Min({cur, chunk})

(* What the receiver of the header decodes.                                *)
Decoders == [t \in Tables |-> ImportTable(ExportTable(t))]

(* Whatever the variant, the codes written so far decode to exactly the    *)
(* strings finished so far and the part of the current one that the loop   *)
(* has passed: no byte is lost, repeated or taken from beyond a chunk.     *)
RoundTrip ==
  /\ \A i \in DOMAIN lenOut : Decode(Decoders[table], Finished[i]) = strIn[i]
  /\ curLine <= Len(strIn) =>
       Decode(Decoders[table], Current) = SubSeq(Line, 1, Consumed)

(* The loop stops at the end of the chunk although it looks beyond it, but *)
(* for one case: the code of the final zero byte of a zero-terminated      *)
(* string passes for a two-byte code and the read position ends up one     *)
(* byte behind.                                                            *)
NoOverrun ==
  pc = "emit" /\ cur > chunk =>
    /\ table.zeroTerminated
    /\ cur = chunk + 1
    /\ curOff + chunk = Len(Line)
    /\ Line[Len(Line)] = 0

(* Nothing is written outside [output, output+size), not even by the       *)
(* speculative write of an escaped byte; nor before the check of the room  *)
(* left (fsst.h:139).                                                      *)
InBounds == touched <= size /\ Len(out) <= touched

(* "At least conservative space (7+2*inputlength)" (fsst.h:129): as many   *)
(* strings are compressed as fit when every byte takes two.                *)
EnoughRoom ==
  pc = "returned" =>
    \A n \in 1 .. Len(strIn) :
      size >= Slack + 2 * SumFunctionOnSet([i \in 1 .. n |-> Len(strIn[i])], 1 .. n)
        => Len(lenOut) >= n

(* The loop implements the greedy compressor: each step emits the longest  *)
(* match within the chunk, whatever shortcut finds it and whatever bytes   *)
(* earlier chunks left in the buffer.                                      *)
Greedy == INSTANCE GreedyCompress
  WITH symbols <- table.symbols, pos <- Consumed, current <- Current, finished <- Finished

ImplementsGreedy == Greedy!Spec

================================================================================
