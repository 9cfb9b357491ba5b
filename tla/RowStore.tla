------------------------------- MODULE RowStore --------------------------------
(***************************************************************************)
(* How the benchmarks keep compressed rows and read some of them back:     *)
(* all strings of one fsst_compress, end to end (FSSTCompressionRunner),   *)
(* blocks of rows compressed by LZ4, the last of which stays unpacked      *)
(* (LZ4CompressionRunner of filtertest.cpp), or rows compressed one by one *)
(* (linetest.cpp).  Rows are numbered from 0.                              *)
(***************************************************************************)
EXTENDS Integers, Sequences, FiniteSets, SequencesExt

CONSTANTS
  Corpora,       \* what may be stored, sequences of rows
  BlockSize,     \* rows per block
  Encode(_),     \* a row as fsst_compress or LZ4 compress it,
  Decode(_),     \*   and what they make of any bytes
  NewLine

Admissible ==
  /\ BlockSize \in Nat \ {0}
  /\ \A c \in Corpora : c # <<>> /\ \A i \in DOMAIN c : Decode(Encode(c[i])) = c[i]

VARIABLES
  storePc,        \* "store", "stored", "read"
  kind,           \* "fsst", "blocks", "lines"
  corpus,
  stored,         \* how many rows are
  packed, ends,   \* compressedData and offsets: where each row ends
  blocks,         \* the blocks, as LZ4 will return them
  hits,           \* decompressRows: the rows still to be read, ascending,
  asked,          \*   and those it was called with
  currentBlock, unpacked,  \* decompressionBuffer and the block it is of
  target          \* what was written

reading == <<hits, asked, currentBlock, unpacked, target>>

Init ==
  /\ storePc = "store"
  /\ kind \in {"fsst", "blocks", "lines"}
  /\ corpus \in Corpora
  /\ stored = 0
  /\ packed = <<>> /\ ends = <<>> /\ blocks = <<>>
  /\ hits = <<>> /\ asked = <<>>
  /\ currentBlock = 0 /\ unpacked = <<>> /\ target = <<>>

(* Nothing, where another program runs.                                    *)
Idle ==
  /\ storePc = "off" /\ kind = "none"
  /\ corpus = <<>> /\ stored = 0
  /\ packed = <<>> /\ ends = <<>> /\ blocks = <<>>
  /\ hits = <<>> /\ asked = <<>>
  /\ currentBlock = 0 /\ unpacked = <<>> /\ target = <<>>

After(n) == IF n = Len(corpus) THEN "stored" ELSE "store"

(* fsst_compress lays the strings end to end and returns where each begins;*)
(* behind the last of these the end of all is put, so that a row ends      *)
(* where the next one begins.                                              *)
StoreAll ==
  /\ storePc = "store" /\ kind = "fsst"
  /\ LET codes  == [i \in DOMAIN corpus |-> Encode(corpus[i])]
         begins == [i \in 1 .. Len(corpus) + 1 |-> Len(FlattenSeq(SubSeq(codes, 1, i - 1)))]
     IN  /\ packed' = FlattenSeq(codes)
         /\ ends' = [i \in DOMAIN corpus |-> begins[i + 1]]
  /\ stored' = Len(corpus)
  /\ storePc' = "stored"
  /\ UNCHANGED <<kind, corpus, blocks, reading>>

StoreLine ==
  /\ storePc = "store" /\ kind = "lines"
  /\ packed' = packed \o Encode(corpus[stored + 1])
  /\ ends' = Append(ends, Len(packed'))
  /\ stored' = stored + 1
  /\ storePc' = After(stored')
  /\ UNCHANGED <<kind, corpus, blocks, reading>>

(* A block: the number of its rows, where each ends, and their bytes.      *)
BlockOf(rows) ==
  <<Len(rows)>> \o [i \in DOMAIN rows |-> Len(FlattenSeq(SubSeq(rows, 1, i)))] \o FlattenSeq(rows)

StoreBlock ==
  /\ storePc = "store" /\ kind = "blocks"
  /\ stored' = Min({stored + BlockSize, Len(corpus)})
  /\ blocks' = Append(blocks, BlockOf(SubSeq(corpus, stored + 1, stored')))
  /\ storePc' = After(stored')
  /\ UNCHANGED <<kind, corpus, packed, ends, reading>>

--------------------------------------------------------------------------------
(* decompressRows, for the rows that were hit; one row for linetest.cpp.   *)
Call ==
  /\ storePc = "stored"
  /\ \E rows \in SUBSET (0 .. Len(corpus) - 1) \ {{}} :
       /\ kind = "lines" => Cardinality(rows) = 1
       /\ asked' = SetToSortSeq(rows, <)
  /\ hits' = asked'
  /\ currentBlock' = 0 /\ unpacked' = <<>> /\ target' = <<>>
  /\ storePc' = "read"
  /\ UNCHANGED <<kind, corpus, stored, packed, ends, blocks>>

(* linetest.cpp asks for one row and wants it without a newline.           *)
Ended(row) == IF kind = "lines" THEN row ELSE Append(row, NewLine)

(* Between the end of the row before and the end of this one.              *)
ReadRow ==
  /\ storePc = "read" /\ kind # "blocks" /\ hits # <<>>
  /\ LET l     == Head(hits)
         start == IF l > 0 THEN ends[l] ELSE 0
     IN  target' = target \o Ended(Decode(SubSeq(packed, start + 1, ends[l + 1])))
  /\ hits' = Tail(hits)
  /\ UNCHANGED <<storePc, kind, corpus, stored, packed, ends, blocks, asked, currentBlock, unpacked>>

(* Whether a row is in another block than the unpacked one; mutant: the    *)
(* first row of the next block is looked for in this one.                  *)
Switches_late(l) ==
  unpacked = <<>> \/ l < currentBlock * BlockSize \/ l > (currentBlock + 1) * BlockSize
Switches(l) ==
  unpacked = <<>> \/ l < currentBlock * BlockSize \/ l >= (currentBlock + 1) * BlockSize

(* A buffer that is large enough keeps its size, and what lies behind.     *)
Unpack(block) ==
  [i \in 1 .. Max({Len(unpacked), Len(block)}) |-> IF i <= Len(block) THEN block[i] ELSE unpacked[i]]

ReadFromBlock ==
  /\ storePc = "read" /\ kind = "blocks" /\ hits # <<>>
  /\ LET l    == Head(hits)
         b    == IF Switches(l) THEN l \div BlockSize ELSE currentBlock
         buf  == IF Switches(l) THEN Unpack(blocks[b + 1]) ELSE unpacked
         ofs  == l - b * BlockSize
         text == SubSeq(buf, buf[1] + 2, Len(buf))
         start == IF ofs > 0 THEN buf[1 + ofs] ELSE 0
     IN  /\ currentBlock' = b
         /\ unpacked' = buf
         /\ target' = target \o Ended(SubSeq(text, start + 1, buf[2 + ofs]))
  /\ hits' = Tail(hits)
  /\ UNCHANGED <<storePc, kind, corpus, stored, packed, ends, blocks, asked>>

Return ==
  /\ storePc = "read" /\ hits = <<>>
  /\ storePc' = "stored"
  /\ UNCHANGED <<kind, corpus, stored, packed, ends, blocks, reading>>

Next == StoreAll \/ StoreLine \/ StoreBlock \/ Call \/ ReadRow \/ ReadFromBlock \/ Return
--------------------------------------------------------------------------------
(* What was read are the rows asked for, as NoCompressionRunner returns    *)
(* them, whichever blocks they are in and whatever a larger block left in  *)
(* the buffer (filtertest.cpp:279).                                        *)
RowsReturned ==
  target = FlattenSeq([i \in 1 .. Len(asked) - Len(hits) |-> Ended(corpus[asked[i] + 1])])
================================================================================
