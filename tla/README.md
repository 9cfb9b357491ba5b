# A verification of FSST

FSST ("Fast Static Symbol Table", `libfsst.cpp`, `libfsst.hpp`, `fsst.h`, `fsst.cpp`) compresses
short strings with a table of at most 255 symbols of one to eight bytes. This directory holds TLA+
models of its parts, the TLC runs that check them on small instances, and theorems about them that
TLAPS proves for every value of the constants.

## The system

| part | code | state it keeps | operations |
|---|---|---|---|
| symbol table | `libfsst.hpp`, `SymbolTable` | `byteCodes`, `shortCodes`, `hashTab`, `symbols`, `lenHisto`, `suffixLim`, `terminator` | constructor, `add`, `clear`, `findLongestSymbol`, `finalize` |
| frequency counters | `libfsst.hpp`, `Counters` | counters split in low and high parts | `count1Set`, `count1Inc`, `count2Inc`, `count1GetNext`, `count2GetNext`, backup and restore |
| symbol table search | `libfsst.cpp`, `buildSymbolTable` | the current and the best table, the counters, the candidates | choose the terminator; five rounds of `compressCount` and `makeTable`; `finalize` |
| sampling | `libfsst.cpp`, `makeSample` | the sample and its lengths | one pass |
| header | `libfsst.cpp` | none | `fsst_export`, `fsst_import` |
| scalar compression | `libfsst.cpp`, `compressBulk` | chunk buffer, read and output positions | one call, three variants of its loop |
| SIMD batching | `libfsst.cpp`, `compressSIMD`; `fsst_avx512*` | up to 512 jobs, staging area, output budget | fill a batch, sort, run the kernel, finish, copy out |
| decompression | `fsst.h`, `fsst_decompress` | positions in input and output | an unrolled loop, a short tail, a byte-at-a-time loop |
| encoder API | `libfsst.cpp` | a shared pointer to the table, scratch space | `fsst_create`, `fsst_duplicate`, `fsst_destroy`, `fsst_decoder` |
| command line tool | `fsst.cpp` | two input and two output buffers, eight semaphores, three threads | reader, main loop, writer, shutdown |
| binary semaphore | `fsst.cpp`, `BinarySemaphore` | a flag, a mutex, a condition variable | `wait`, `post` |
| FSST12 | `libfsst12.*`, `fsst12.h` | a map of 4096 codes, the drawn sample, the counters | as above with 12-bit codes: `makeSample`, `buildSymbolMap`, `compressBulk`, `fsst_export`, `fsst_import`, `fsst_decompress` |
| first paper version | `paper/cw.cpp` | the suffix and LCP arrays of the corpus, a heap of candidates, the covered positions | `add`, `buildSymbolTable`, `compress`, `compress128`, `decompress` |
| second paper version | `paper/vcw.cpp` | the symbol map and its index, the best map so far | `compressAdaptive`, `buildSymbolMap`, `finalize`, `compressBulk`, `decompress` |
| row stores | `paper/filtertest.cpp`, `paper/linetest.cpp` | compressed rows and offsets, or compressed blocks and the one unpacked | `compressCorpus`, `decompressRows`, `decompressRow` |

The search builds a table with `add` and `clear`, guided by the counters; `finalize` gives it the
layout the compressors need; the table then only is read. `fsst_export` writes it to a header,
`fsst_import` makes a decoder of it. The tool runs all of this for one block at a time in its main
thread, between a thread that reads and one that writes. FSST12 and the programs of the paper are
built beside the library; they share no state with it or with each other.

What is hard about it:

* The table is three lookup structures that must agree with one list. `clear` erases them "with
  minimal effort"; `finalize` renumbers every code in place, in two directions at once.
* The compressor reads eight bytes wherever it is, beyond the end of the string too, takes shortcuts
  that are right only for one order of the codes, and writes a byte it may not need.
* The batching compressor cuts strings into jobs, sorts them, finishes them in any order, and must
  put the strings together again, also those that two batches share; it counts output bytes twice,
  as what strings may need and as what they took.
* The decompressor stores whole words, hands over between loops in the middle of a string, and an
  escape may lie across the border.
* The counters increment their high part early, share bytes and are scanned in windows; those of
  pairs are small enough to overflow, and then what is read is not what occurred.
* The tool's threads hand buffers over through semaphores that lose a post when they are up, and are
  stopped by posts that nobody has asked for.
* The search keeps two tables and two sets of counters and mixes them at the end, when it rebuilds
  the best table; joined symbols are sound only as long as counters and table belong together.
* In FSST12 two codes make three bytes, stores are eight bytes wide and an odd last code is shorter.
* `cw` updates the gains in its heap only when they reach the top; `vcw` renumbers its codes after
  its index was built; the row store of blocks reuses an unpacked block and a buffer that is too
  long.

The hazards are listed in `PROJECT.json`, each at its line, with the properties that watch it.

## The modules

| module | what it models |
|---|---|
| `SymbolTable` | the table as a record, its operations as functions on records; the lookup of the compressors in a finished table |
| `Serialization` | `fsst_export` and `fsst_import` as functions |
| `SymbolTableLife` | the life of one table: `Add`, `Clear`, `Finalize`, in the orders `makeTable` and `buildSymbolTable` can produce; its properties, and that of its header |
| `Decoding` | abstract: what a compressed string means |
| `GreedyCompress` | abstract: each code is that of the longest symbol the rest of the chunk starts with |
| `CompressBulk` | `compressBulk`: an action per check, chunk and branch of its loop |
| `SIMDKernel` | the AVX512 kernel as a function: loading idle lanes, one iteration of all lanes, scattering, handing over; any unrolling |
| `CompressSIMD` | `compressSIMD`: an action per string, chunk, call and iteration of the kernel, code of the scalar finish, and per batch copied out |
| `Decompress` | `fsst_decompress`: its three loops, in the builds for little-endian, big-endian and aligning machines |
| `SplitCounters` | what the counters of pairs read after any number of increments, as functions |
| `Counters` | `count1` or a row of `count2`: increments, the artificial count of the terminator, the scan |
| `FileCopy` | abstract: blocks reach the output whole, in order, and all of them before the tool believes it |
| `Pipeline` | `reader`, `writer` and `main` of the tool, one access to shared state per step |
| `AtomicSemaphore` | abstract: a semaphore whose `wait` is one step |
| `BinarySemaphore` | the class, one access to mutex, condition variable and flag per step |
| `MakeSample` | `makeSample` of the library: lines and chunks drawn for any random numbers |
| `BuildSymbolTable` | `buildSymbolTable`: the terminator, a round as its count, its candidates, one addition per step; the best table and `finalize` |
| `FsstCreate` | `fsst_create`: the two above, one after the other |
| `SymbolMap12` | FSST12: the map as a record, `add`, `findExpansion`, `fsst_export`, `fsst_import` |
| `BuildSymbolMap12` | FSST12: `makeSample` (passes over the lines) and `buildSymbolMap` |
| `Compress12`, `Decompress12` | FSST12: `compressBulk` and `fsst_decompress`, an action per pair of codes |
| `Fsst12` | create, compress and decompress, one after the other, for any sizes and rooms |
| `Cw` | the first version: suffix array, candidates, greedy choice, both compressors, decoder |
| `Vcw` | the second version: map and index, counting, sample, finalize, both compressors, decoder |
| `RowStore` | the row stores: by offsets, by blocks, line by line |
| `Versions` | FSST12, the two paper versions and the row stores, of which one runs |
| `MCSymbolTable`, `MCCompressBulk`, `MCCompressSIMD`, `MCDecompress`, `MCFsstCreate`, `MCFsst12`, `MCVersions` | small instances |
| `TableTheorems` | lemmas: sums over finite sets, the operators of the symbol table, header, decoding, the greedy choice |
| `SymbolTableProof`, `CountersProof`, `CompressBulkProof`, `CompressSIMDProof`, `DecompressProof`, `FsstCreateProof`, `PipelineProof` | theorems |

`SymbolTable` is at the bottom: `SymbolTableLife` keeps one table, `Serialization`, `Decoding`, both
compressors and `Decompress` work on finished ones; `CompressSIMD` drives `SIMDKernel`, and
`Decompress` gets its decoder through `Serialization`. `Pipeline` uses atomic semaphores;
`BinarySemaphore` justifies that by implementing `AtomicSemaphore`. `Counters` increments the
counters of a row one by one; `SplitCounters` says what is read in the end, and both searches read
their pairs through it (`Count2Read`), which `RowRead` justifies. `FsstCreate` runs `MakeSample`,
then `BuildSymbolTable`, on one sample, and is shown to implement `SymbolTableLife`: what the
properties of the table need of its history is what the search really does. `Fsst12` composes the
modules of the 12-bit variant. `Versions` puts programs side by side that never meet, so that one
run checks them; each keeps its own variables.

**Abstractions.** A symbol is the sequence of its bytes; the packing of code and length in one word
(`icl`) and the masks are modelled by what they do (`FindLongestSymbol` matches an entry when it is
a prefix of the string, which is what the comparison of the two `icl` words together with the masked
comparison amounts to). The number of byte values is the constant `CodeBase`: 256 in the code, small
in the runs, any number in the proofs (an even one in those of the search, whose counters share bytes
in twos). The narrowing of a code to a byte is kept (`CodeByte`), since
finalize and the loops rest on it. The hash function is a constant. `CharIsSigned` says whether
`char` is signed, as the comparison with the terminator depends on it. `SymbolTableLife` lets
`makeTable` add any symbol its candidate rules allow, in any order: frequencies decide which, and no
property may depend on them. In `CompressBulk` any variant may meet any table. In `SIMDKernel` a
vector instruction is modelled by what it does to each lane, and an iteration of the loop is one
step: the lanes move in lockstep. The packing of a job into 64 bits is left out; the room the fields
have is that of the constants. In `CompressSIMD` the staging areas hold garbage before the call, of
which no result may depend, and `SizeRange` is the width of `size_t`, in which the budget is a
difference that may wrap. `Decompress` keeps its block of four codes as it is, since its branches
are about these four; words are `MaxLength` bytes. In `Pipeline` a file is a sequence of items, the
three bytes of a block's size are one item, and the codec is a table followed by one code per item.
Mutants of definitions stand beside them in the modules, named `Definition_what`; nothing but the
mutation checks uses them. In `BuildSymbolTable` and `BuildSymbolMap12` what occurred is a bag of
codes and one of pairs, and what `makeTable` reads is derived from it, at the width of the counters:
the pairs through `SplitCounters`, and in FSST12 the codes through `Count1Read`. In the library the
counters of codes have 16 bits, more than the sample has bytes, so they read what occurred. In `Vcw`
the counters are functions to numbers below `CounterRange`. `clear` does not erase the array of
symbols, and an overflown pair may name a slot behind the last symbol; what it finds there is
`InSlot`. The generator that draws the sample may return anything; the hash that skips lines in
the early rounds (`Rnd128`) is a constant function. The heap of candidates is the set of what it
holds, ordered by the comparison of the code, ties by the bytes of the symbol where the code does
so. A vector of a run is a sequence; memory is modelled as memory only where stores are wider than
what is meant (`Compress12.mem`, `Decompress12.text`). Slots of `Vcw` that were never filled hold
any of `Leftover`, the memory behind a buffer any of `Behind`. In `RowStore` the codec of a row is a
pair of operators of which only `Decode(Encode(row)) = row` is assumed, and LZ4 returns a block as
it was. The suffix array in `Cw` is what `saisxx` of
`sais.hxx` returns, the sorted suffixes; how it gets there is not modelled.

## The runs

| run | question | bounds |
|---|---|---|
| `symbol_table` | Do the three structures always give the longest match? Does `clear` leave nothing, does `finalize` change no lookup, does the layout hold that the compressor assumes, does the importer rebuild the decoder? | 3 byte values, symbols up to 3 bytes, 5 symbols, 3 buckets: collisions, all lengths, full tables, both zero-terminated and not |
| `compress_bulk` | Does each variant emit the greedy codes, which decode to the input, in bounds? | chunks of 3 bytes, strings up to 5 bytes (two chunks, one of them dirty from before), six tables that between them have every kind of code, outputs of 6, 8 and 54 bytes with one byte of slack instead of 7, which would hide that a chunk of three does not fit: no room for a full chunk, room for one chunk of escapes but not for the next, room for everything |
| `compress_simd` | Do batching, splitting, sorting, lanes and scalar finish deliver the greedy codes of each string, in order and in bounds, and does the call return? | chunks of 3 bytes, strings up to 11 (four chunks, so that they are split over batches), up to five strings, 4 jobs per batch, a staging area that four full jobs overflow, two groups of one lane, so that lanes go idle at different times, scatters of 3 bytes, outputs of 8, 14, 26 and 80 bytes: one short string, some strings, four chunks of escapes, everything |
| `decompress` | Does every loop, and every hand-over between them, write the decoded text, cut to the output? | strings of up to five codes and escapes with symbols of one to three bytes and the escape value as an escaped byte; outputs of 0, 1, 4, 12, 14, 20 bytes: none, less than a word, just enough for four words, more than that; zero-terminated or not; the three builds |
| `counters` | Do the split counters count, through wraps; what do they read when they overflow; and does a scan find each? | low parts of 2, high parts of 4 and 3 values, 6 counters, windows of 3 and 4, 8 increments: every wrap, overflow of a shared part into its neighbour, windows that end beyond the last counter |
| `pipeline` | Are buffers handed over without a race, is the output complete, does the tool exit? | blocks of 2, files of 0 to 9 items: up to five blocks, of either parity, a last block that is full or not, both directions |
| `create` | Does the sample stay in its buffer? Does each symbol of a table occur in it, but for those that an overflown pair puts in the table of a round? Is the table that is finalized the best of the rounds, from counters of its own round? Are all tables on the way ones that `SymbolTableLife` allows? | four byte values, six codes for bytes, symbols up to 3 bytes, batches that are taken whole and batches that are sampled, with empty lines, lines of one chunk and of several, zero-terminated or not, any random choice of the lines; counters of pairs with low parts of 4 and high parts of 2 values, so that a pair that occurs more than four times overflows, into the counter of a byte, of a symbol or of a slot left from an earlier table |
| `versions` | FSST12: is the sample of the size it should have, do symbols occur but for overflown pairs, does the importer agree, do compressor and decoder stay in bounds, does the text come back but for the last code? `cw`: exact candidates, greedy choice, fewest codes? Both versions and the row stores: does everything come back? | for FSST12 a byte of two bits and a code of three, with symbols of 5 bytes, so that all its loops are entered; low parts of 2, high parts of 8 and 4 values, which a line of 20 equal bytes overflows; outputs of 5, 11 and 40, rooms of 0 to 70 bytes; for `cw` and `vcw` eight byte values; texts of 6 to 18 bytes in chunks of 5, with overlapping candidates and a queue of 3, for `cw`; for `vcw` targets met in the first, second and last sample, and texts with zero bytes, but none behind a newline (`Vcw!Admissible`); corpora of one to seven rows in blocks of two, any rows asked for |
| `binary_semaphore` | Does the class implement an atomic semaphore? | two waiters, two posters, two posts each |
| `signed_terminator` | "multi-byte symbols cannot contain the terminator byte" (`libfsst.cpp:192`) | violated |
| `fsst12_even` | "bytesize of the decompressed string" (`fsst12.h:125`) | violated |
| `simd_budget` | "will all point into [output,output+size)" (`fsst.h:139`) | violated |

Deadlock is checked in `pipeline` and `binary_semaphore`, where everyone could wait for everyone. In
the other runs the system stops when the call or the life of the table is over.

Properties worth knowing:

* `LongestMatch`, `FinalizePreserves`: the second compares the finished table with the one it was
  made from, for every string and every content of the bytes behind it, under the rule that the byte
  behind the string is the terminator.
* `ImplementsGreedy`: whatever shortcut finds a code, it is the greedy one. So the variants agree,
  and equal strings have equal codes.
* `NoOverrun`: the read position may end one byte behind the chunk, in one case only: code 0 of a
  zero-terminated table is below `byteLim` and so taken for a two-byte code.
* `ByteCompatible`: what was copied out of a string is, after each batch, a prefix of the codes
  `compressBulk` would emit, and all of them when the call returns.
* `StagingInside`: a lane that is not done has room in its job for a whole scatter, so it never
  touches the codes of the next job; it meets the end of its chunk exactly, as the kernel tests for
  equality.
* `ConservativeSpace`: with the space the documentation asks for, all strings are compressed, inside
  the buffer. `InBoundsUnlessSplit`: with less, the output stays inside as long as no batch ended in
  the middle of a string; `simd_budget` shows what happens else.
* `Faithful`: at every moment the output is the text of the codes read so far, whichever loop wrote
  it, although each store writes a whole word.
* `HighEarly`: a counter is exact as long as neither it nor the counter it shares a byte with
  exceeded its limit (15 * 256 for pairs, where the comment says 4K).
* `RowRead`: beyond the limit too, a row of `count2` reads what `SplitCounters` says, in whatever
  order the counters were incremented: what overflows a nibble is added to the other one of the byte.
* `NoBufferRace`: no access to a buffer at the same time as a write to it, also while the shutdown
  posts semaphores that are up.
* `FinalEarned`: at `finalize` the table is the one that `makeTable` builds from the counts of the
  best round's table on its sample, not from the counters that happen to be current.
* `SymbolsOccur`: a symbol is a piece of the sample, the join of two symbols that really followed
  each other. A counter of another round, or a join in the wrong order, breaks it. The exception is
  stated exactly: the table of a round may have the join of the first of a pair that occurred more
  than `PairLimit` (3840) times with what the code after its second one stands for (`Overflown`). The
  finished table of the library has none, since the last `makeTable` takes no pairs, and a symbol
  that does not occur has no count. FSST12 takes the map of a round as it is, so there one may stay,
  for a code that is lost to others.
* `ImplementsLife`: `buildSymbolTable` refines `SymbolTableLife`, on which `symbol_table` and the
  proofs rest.
* `DecodesUpTo`: the decoder of FSST12 returns a prefix of the text, without a wrong byte and
  without a write outside, and misses at most the last code of a string with an even number of codes
  when there is room.
* `InBounds` of `versions`: that of the compressor and that of the decoder of FSST12, and that its
  sample is enough and no more.
* `CandidatesExact`, `PicksBest`, `Minimal`: definitions by brute force (all substrings, all covered
  positions, all ways to cut) with which the scan of the LCP array, the lazy heap and the dynamic
  program of `cw` are compared.
* `RoundTrip` of `versions`: also that `vcw`, which compares first bytes only and pads symbols with
  zeros, finds the longest one (`LongestFound`, a part of it), in texts without a zero byte right
  behind a newline.
* `RowsReturned`: the rows asked for come back, across blocks and from a buffer with the rest of a
  longer block in it.
* `NoLostWakeup`: notifying after the mutex was released loses no wakeup.

**Fairness.** `CompressSIMD` and `CompressBulk` are one thread inside a call: weak fairness of its
next step, for `Returns` of `compress_simd`; `ImplementsGreedy` is a safety property and needs none.
`Pipeline` has weak
fairness for each of the three threads, which is what a scheduler gives that runs every thread that
can run; no strong fairness is needed, as each semaphore has one waiter. `BinarySemaphore` has weak
fairness for the steps inside `wait` and `post`, none for calling them and none for spurious
wakeups. With two waiters that compete for the mutex this suffices for the progress of one of them,
and no more is claimed.

### Findings

* **The terminator and signed characters** (`signed_terminator`). `makeTable` compares a `char` with
  the terminator. Where `char` is signed, a terminator of 128 or more is not recognised, and a
  symbol that contains it can enter the table. Since a chunk is closed with that byte, the symbol
  matches across the end of a string, and the string comes back one byte longer: this was reproduced
  with the compiled library on x86-64. `symbol_table` checks `FinalizePreserves` and `compress_bulk`
  checks `RoundTrip` with tables in which the rule holds (their bytes are below `CodeBase \div 2`).
* **The output budget of a split string** (`simd_budget`). `compressSIMD` charges a string to the
  budget when it is accepted, and sets the budget anew to what is left of the buffer after each
  batch (`libfsst.cpp:372`). If the batch ended inside a string, the rest of that string is no
  longer charged, the next string is accepted although both do not fit, and the output passes the
  end of the buffer; the difference then wraps, and everything is accepted. This was reproduced with
  the compiled library, the kernel replaced by one that leaves all jobs to the scalar code: for 600
  strings of 511 bytes and a buffer of 521227 bytes, 613200 were written. With the recommended space
  it cannot happen (`ConservativeSpace`).
* **An even number of codes in FSST12** (`fsst12_even`). The loops of the decoder that take two
  codes from three bytes ask for a byte behind these (`fsst12.h:139` and 159), and the single code
  after them ends the input (`fsst12.h:150` and 171). Of the last pair of a string one code is lost.
  `versions` checks `DecodesUpTo`, that nothing else goes wrong.

Seen on the way, and described here only:

* The comments on `count2Inc` say that the high part is zero exactly if the count is
  (`libfsst.hpp:396`), and "we take our chances with overflow.. (4K maxval, on a 8K sample)" (398).
  The high part has four bits and is incremented early, so the 3841st occurrence of a pair overflows
  it, and a sample has 16K, or all of a smaller input. When the second code is even, the overflow
  lands in the counter of the next code: a pair that occurred thousands of times is not seen, and
  one that never did reads 256 or more. In the compiled library, one string of 8000 times `b` puts
  `bc` in the table of a round. The text comes back, and the finished table has no such symbol; what
  is lost is compression. `create` reaches this in several ways and checks that there is no other
  harm (`SymbolsOccur`), `counters` what exactly is read (`RowRead`). FSST12 has the same counters
  (`libfsst12.hpp:265`) and samples of 128K; `versions` reaches the overflow there.
* For an empty file the tool divides by the length of the input in its closing message
  (`fsst.cpp:186`) and dies before it stops its threads: `MainReport` goes to `crashed`. `Completes`
  is about the other files.
* For a zero-terminated decoder `fsst_decompress` closes a truncated output with a zero at
  `strOut[size-1]` (`fsst.h:220`), which for size 0 lies in front of it. `InBounds` of `decompress`
  leaves out this case and no other.
* The hash of FSST12 reads four bytes of a symbol (`libfsst12.hpp:100`), so that a symbol of three
  bytes is found only where a zero byte follows it, or the end of the string.
* `makeSample` of FSST12 asserts that it has drawn something, which it cannot from strings that are
  all empty; and with a very small sample the early rounds may skip every line.
* `finalize` of `vcw` also regroups the slots that were never filled, whose length is not
  initialized; one with a length in range can push a symbol to another place ("renumber codes",
  `vcw.cpp:188`). `RoundTrip` holds for whatever these slots contain, since the index is rebuilt.
* `compressBulk` of `vcw` looks at eight bytes behind its text, and the zeros that pad a symbol are
  compared as text: the round trip needs the newline at the end of each line, and no zero byte right
  after one, which is stated in `Vcw!Admissible`. From a bulk sample with such bytes the search can
  make a symbol of a newline and a zero; it also matches the last newline of the sample
  (`vcw.cpp:75` takes what is missing for zeros), `cur` passes `end`, and the loop that waits for
  equality (`vcw.cpp:261`) leaves the sample. What happens there is undefined, and not modelled.
  `cw` does not bring back zero bytes.
* The comparison of sizes in `filtertest.cpp:241` compresses the block buffer before the strings are
  copied to it.

Smaller disagreements between comments and code, not modelled as findings: the comment on
`suffixLim` (`libfsst.hpp:182`) says "higher" where the code means "lower"; the count 65535 that
`makeTable` gives the terminator is read back as 65279, since `count1Set` does not know of the early
high part (`TerminatorLargest` shows that this is still the largest below the limit).

## The proofs

TLAPS checks these for every value of the constants allowed by the named assumptions.

* `SymbolTableProof`, from `TableAssumption`, for any hash function, alphabet and length limit. While
  a table is built, the inductive invariant is *agreement*: every symbol is where it will be looked
  for, under its code (`Entered`), and every entry of the three structures belongs to a symbol or is
  the initial one (`Owned`). `LongestMatch` alone is not inductive: it says nothing of entries that
  are never hit now but would be after `clear`. `Entered` gives that no longer symbol is missed (a
  prefix of three bytes lies in the same bucket), `Owned` that what is found is a prefix, and that
  `clear`, which visits the places of its own symbols only, visits every place that needs it. Hence
  `LongestMatchAlways` and `ClearErasesAllAlways`.

  For what follows the invariant also has the histogram: it counts the symbols of each length, and
  a finished table is what `FinalizeTable` makes of such a table (`ReadyAlways`). `finalize` gives
  the codes out from both ends of the group of two bytes and one by one in the others; that no code
  is given out twice and none is left over is an account of cardinalities: the code of a symbol is
  the start of its group, a sum over the histogram, and the number of symbols of that group before
  it. From this come `CodeLayoutAlways` and that every entry of the structures is renumbered to the
  new place of its own symbol, hence `FinalizePreservesAlways`: under `NoTerminatorInside` the
  compressor's lookup finds what `findLongestSymbol` found. `NoTerminatorInsideAlways` gives that
  condition for builds in which `char` is unsigned or the bytes are below 128 (`PlainChars`; the run
  `signed_terminator` shows that it cannot be dropped), so that `LookupAlways` has no other
  hypothesis. `ImportAgreesAlways`: the runs of codes that the importer computes from the histogram
  are the groups of `finalize`, and the number of bytes it has read before a code is the total
  length of the symbols before it.
* `CountersProof`, from `SplitAssumption` and `CountersAssumption`, for any base of the parts, any
  window and number of counters. `HighEarly` is inductive only with what the parts are: the low part is the count modulo
  its base, and the high part, taken out of a byte that two counters may share, the count divided by
  it and *rounded up* (`Parts`), as long as neither of the two has passed the limit. The increment
  of a neighbour does not reach across the byte, which needs that the neighbour is below its limit.
  `TerminatorLargestAlways` compares the value that is set with the limit. `ScanCompleteAlways`
  needs that the scan has returned exactly what lies before its position (`Scanned`), where a jump
  passes only counters whose high part is zero, which with `Parts` are those whose count is zero.
  These stop at the limit. `RowReadAlways` goes on: a byte of high parts is the sum of what its two
  counters have added, the odd one times the base, modulo the square of the base (`RowBytes`,
  inductive with the other), and the two high parts are the digits of that number (`TwoDigits`).
* `CompressBulkProof`, from `TableAssumption` and `CompressAssumption` (the entries of a table are
  codes, and no string in it is empty).
  - *Bounds.* `InBounds` is not inductive: nothing in it says how much a chunk may still write. The
    account of the room does: while a chunk of `chunk - cur` more bytes is compressed there is room
    for twice as many and the slack. The check of the room opens the account; each step of the loop
    passes one byte or more, writes two or less, and looks, speculatively, no further
    (`PassesPreserves`); the last step may pass the end of the chunk, which costs nothing more.
    Hence `InBoundsAlways`, for every chunk length, slack, batch and table, also for one `finalize`
    would never make. The same invariant keeps the words that the loop looks at in its buffer
    (`LooksInsideAlways`).
  - *Room.* What is written is at most twice what is read, over all strings finished and the one in
    progress (`Spent`, with sums over the lines); so where the room is refused, the documented space
    was not there: `EnoughRoomAlways`.
  - *Ends.* With `LayoutAssumption`, which states of a table what `finalize` establishes (longer
    symbols without the terminator; what passes for two bytes is two bytes, or the final zero), and
    the fact that the byte behind the chunk is the terminator (`Faced`), no match reaches beyond the
    chunk (`HashedInside`, `TwoInside`): `NoOverrunAlways`. `LayoutJustified` proves that
    assumption of every table that `finalize` leaves.
  - *Codes.* What follows is for `Finalized` tables: those that `FinalizeTable` makes of a
    table that is `Ready`, has a symbol and no longer symbol with the terminator, which is what
    `ReadyAlways` and `NoTerminatorInsideAlways` say of the tables of the search. Every branch of
    the loop looks up what `FinalLookup` finds for the word it reads (`LoopLooksUp`: the shortcuts
    are right because of the layout), and that lookup makes the greedy choice for the rest of the
    chunk, whatever lies behind it (`LookupChooses`). Since decoding is compositional, a code can
    be appended to what already decodes (`EmitStands`); the inductive invariant says where each
    finished string lies in the output and that it decodes to its line (`Starts`, `Decoded`), hence
    `RoundTripAlways`. With the chunks in step with the abstract compressor (`Aligned`), every step
    is one of `GreedyCompress` or a stutter: `ImplementsGreedyAlways`, the whole of what the run
    checks, as the abstract specification is a safety property.
  - *The output as input.* `WrittenAlways` states the invariant itself: what is written are codes of
    the receiver's decoder, whole and usable, that stand for what was read, whatever follows them.

  `MCCompressBulk` extends this module, so that TLC evaluates the assumptions and, as
  `MCAssumption`, the hypothesis `Finalized` on the tables of `compress_bulk`: it is satisfied
  there by tables with every kind of code.
* `DecompressProof`, from `TableAssumption` and `DecompressAssumption`, for any decoder, size and
  build, and any `WellFormed` input: one that can be cut into codes whose entry fits a word, and
  escapes followed by their byte. `Faithful` says nothing of where a code begins. The inductive
  invariant does (`Written`): the read position is a cut, the codes before it stand for what is in
  the output *whatever follows them*, and the output is untouched beyond its size. One code more
  keeps it (`WrittenNext`), whether stored as a word (`WordStored`, the words of one block by
  induction in `StoredWritten`), as a byte (`ByteStored`) or byte by byte. For the hand-overs it
  also says that the tail is entered with less than a block to read and room for a block, and its
  last step with at most one byte, which cannot be an escape as nothing would follow it
  (`LastPreserves`). Hence `FaithfulAlways` and `InBoundsAlways`. `DecodersFit` ties the hypothesis
  to the header: every entry that `fsst_import` makes of a finished table fits. `RestoredAlways` has
  another hypothesis, `Compressed`, that the inputs are codes which stand for a text: this is what
  `WrittenAlways` says of the output of `compressBulk`, so the two are the round trip from one
  program to the other. It concludes that length and bytes of the text come back. `MCDecompress`
  extends this module, and TLC evaluates on every input of the run what `WellFormed` asks for
  (`MCAssumption`).
* `TableTheorems` holds the lemmas. The library's induction theorems have an
  operator as parameter; induction over numbers is done with the *set* of the numbers that have a
  property (`LeastNat`, `SetInduction`), and for the functions that define sums, decoding and the
  words of a block it is proved first that there is one. `TableTheorems` begins with sums: adding an
  element, splitting, changing one term. Its last part is about decoding: what `Decode` gives for a
  code or an escape does not depend on what follows.
* `CompressSIMDProof`, from `TableAssumption`, `KernelAssumption` and `SIMDAssumption`, for any
  number of lanes and jobs, any chunks, any areas at least as large as the code's, and `Finalized`
  tables (as above; `MCCompressSIMD` has TLC evaluate all of these). The invariant says of a batch
  that each of its jobs is still to come, in a lane, or done (`InKernel`), and of a job in work that
  it is inside its own room (`Inside`): it has not read beyond its end, and has written at most two
  bytes for each it has read. One iteration keeps this because a code found for the rest of a chunk
  is not longer than the rest (the terminator stands behind it, `NoneAcross`), and because the room
  of a job includes the slack that a scatter of a whole word needs. That `compressstore` stores each
  chosen lane once and that the radix sort permutes the jobs are lemmas about ranks in finite sets.
  Hence `StagingInsideAlways`. The other two come from the accounts in `Budget`: what was copied out
  and twice the bytes in jobs is at most twice the bytes cut into jobs so far; as long as no string
  was split, this and twice the rest of the string and the budget are at most the size, hence
  `InBoundsUnlessSplitAlways`; and with the documented space the budget is at least the size less
  twice what was accepted, so that no string is refused: `ConservativeSpaceAlways`.

  `ByteCompatibleAlways` needs the content of the staging areas besides (`CInv`). Of a job, wherever
  it is, `Emitted` says that what it has written so far and the greedy codes of what is left of its
  chunk are together the greedy codes of the chunk; a step of a lane, and one of the scalar code,
  moves the next code from one part to the other. That the lanes of one iteration can scatter their
  words in any order needs that jobs of different numbers have different rooms (`RoomsApart`) and
  that no two lanes hold one job (`LanesApart`). Of the batch, `Content` says that the output
  followed by the texts of the jobs is the codes of the strings as far as they have been cut, string
  after string, so that copying out only moves the border; `PieceGrows` is the step from one chunk
  to the next, also when a batch ends inside a string.
* `FsstCreateProof`, from `TableAssumption`, `SampleAssumption`, `SplitAssumption` and
  `SearchAssumption`, for every input, alphabet, hash, width of the counters of pairs, and choice of
  lines to skip. `SearchAssumption` says that the count given to the terminator outweighs the sample:
  eight times that count, its gain as a candidate of one byte, is at least what any candidate gains
  if every byte of the largest sample counts for it three times, as a code, as the first of a pair
  and as the first of a pair whose overflow is taken for one; and that a byte and the one it shares
  its high parts with are codes both. In the code the count that is read is 65279, the largest sample
  has less than 16384 + 512 bytes, and the longest symbol 8.
  - *Sample.* `SampleInside` becomes inductive with the types and the sharper bound: below the
    target one piece more is at most `SampleLine` bytes (`MostBytes`). `SampleInsideAlways`.
  - *Counts.* The codes of a line lie one behind the other on its bytes (`Layout`), so there are no
    more of them, or of pairs of them, than the sample has bytes, and the symbol of a code, or two
    adjacent ones joined, is a piece of a line. `CountsOk` and `PairsOk` say this of the counters
    for the table they were made with. `NoneIn` says that a symbol does not contain the terminator.
  - *Overflow.* What is read of a pair is at most what it and the one before it occurred together
    (`ReadOf`), so it is charged to the events of both (`ReadEvents`). If it did not occur, the one
    before it passed the limit, and its second code is a byte, a symbol of the table, or names a
    slot behind the last one. What such a slot holds follows from the tables so far (`Recorded`,
    `Latest`): nothing, or a symbol of the latest that had one there (`SlotGood`). So what is joined
    is what `SymbolsOccur` lets the table of a round have (`Allowed`, which only grows:
    `RecordedNext`), and does not contain the terminator (`JoinedGood`).
  - *Candidates.* The gain of a candidate is a sum over the counters that propose it. Every event
    of the sample is charged to at most three counters, a code and two pairs, which bounds each of
    these sums by what the sample can give (`WeightBound`, `GainBounds`), and the terminator's is
    larger: so it is taken first. Each proposed symbol is in the queue once (`QueueOk`).
  - *Search.* `SearchInv` states for each place of the program of which table the counters are
    counters: at `propose`, in rounds 1 to 4 of `st`, in the last of `bestTable` (`AtPropose`).
    `bestGain` starts low enough for the first round to be kept, which needs that an escape loses at
    most one byte (`GainAtLeast`). `SymbolsOccurAlways` follows from it by place: in a round, every
    symbol of its table is allowed; the last `makeTable` reads no pairs, and a symbol that does not
    occur has no count, so all of the finished table occur.
  - *Refinement.* `ImplementsLifeAlways`: `Start` is `Init`, `AddBest` an `Add`, `Propose` a
    `Clear`, also when it clears the best table in place of the one of the round, as both have the
    same terminator and a cleared table depends on nothing else; `Finalize` is `Finalize`, since the
    terminator was a candidate and so the table has a symbol. The rest is a stutter.
  - *Result.* `CreatedAlways`: the table that is returned satisfies what `Finalized` asks for in the
    theorems about the compressors, if the terminator can be compared with a `char` (it is 0 or
    below 128, or `char` is unsigned). With it nothing in the chain from `fsst_create` through
    `compressBulk` to `fsst_decompress` rests on a hypothesis about tables that only the runs show.
  - *What the table is made of.* `FinalEarnedAlways`. `EarnInv` keeps the best round so far in view:
    `bestTable` is its table, `bestGain` its gain and `bestCounters` the counters of its codes on its
    part of the sample (`Earned`), whatever later rounds that gain less leave in the current ones;
    the last `makeTable` is given `bestCounters`, at the full fraction of the sample (`Finalists`).
    What a candidate gains there is the worth that the
    property counts by events (`FinalistsWorth`); this takes the place-by-place sums of the counters
    to cardinalities (`CountsTogether`). While the best are added, `TakenFrom` relates the table
    to the queue: each candidate that is no longer in it is in the table, or lost its bucket to one
    that is worth at least as much, and none that is left is worth more than one that was taken.
    `finalize` only moves symbols.
* `PipelineProof`, from `PipelineAssumption`, for any block size, any file length and both directions.
  `FlowInv` (`FlowInvariance`; also checked by TLC on the run's instance) says that the three
  threads agree on which block is where. It has three counts, which the code does not keep: `r`
  blocks were read, main has sent off `s`, and `w` were written. The threads take the two buffers in
  turns, so a count says which buffer a thread is at (`Turn`).
  - *Input* (`SourceFlow`). The reader is at most two blocks ahead of main. A semaphore that is up
    says which side of the count its block is on. A buffer whose block was read has `Input(i)` in it,
    or nothing when `i` is past the end. `srcPos` and `blksz` are where the reader must be after `r`
    reads (`AfterReads`). For decompression this needs to know where each block lies in the
    compressed file and that its size field is what the reader got with the block before
    (`CompressedFile`, `Found`, `ReadCoded`), an induction over the blocks of the file.
  - *Output* (`TargetFlow`). The same between main and the writer; a buffer that is sent has
    `Result[i + 1]` in it, which is never empty, so the writer does not stop early.
  - *End* (`Ending`). Once main has met the empty buffer, all that is left is at most one block that
    the writer has not written, and the buffer whose length main set to zero. That buffer's `dstDoneIO`
    does not come up before the writer has reached it, and main waits for both (fsst.cpp:188).

  From this, `NoBufferRaceAlways`: while both hold a buffer the reader is one block ahead of main, and
  main one ahead of the writer, so they are at different buffers, and afterwards main touches none.
  And `ImplementsCopyAlways`: `WriterWrite` is `Write(w + 1)` of `FileCopy`, the second `MainAwait` is
  `Finish`, everything else a stutter. What stays with TLC is that the end comes, `Completes`.
  `SourceInvariance` and `TargetInvariance` add that each buffer is with exactly one thread or
  semaphore until main releases the others. `DecodeBlock(Encode(x)) = x` here is by the abstract
  codec; that the real one restores is what `RoundTripAlways` and `ByteCompatibleAlways` say of
  the two compressors.

  The module also has the semaphores, from `SemaphoreAssumption`, for any number of threads
  (`SemaphoreSpec` is what `binary_semaphore` checks). `TypeOK` with mutual exclusion, where each
  kind of thread can be, and that sleepers are in `cv.wait` make `NoLostWakeup` inductive.
  `SemaphoreRefinement` maps `WaitTake` to the atomic `Take`, `PostSet` to `Post`, and everything
  else but `CallWait` to a stutter.

Only model-checked:

* FSST12, the paper's programs and the row stores (`versions`): most of these compare a recursive
  or a greedy computation with a brute-force definition, an induction over the data;
* everything about liveness, which the prover cannot treat: `Returns`, `Completes`, and the fairness
  part of `ImplementsAtomic`.

Every property of the runs `symbol_table`, `counters`, `compress_bulk` and `decompress` is also a
theorem, and but for liveness every one of `compress_simd`, `create`, `pipeline` and
`binary_semaphore`.

## Not modelled, and the plan

Left out, and why:

* `fsst_duplicate` and `fsst_destroy`: they share and free a table that nobody writes after
  `finalize`; each encoder has its own scratch space. `_compressAuto`: which variant it picks is
  left open, as any table may meet any variant. The plain counters of `NONOPT_FSST` builds, and
  `backup1` and `restore1`, which are copies (their use is modelled in `BuildSymbolTable.ForLast`).
* The drivers of the experiments (`hcw.cpp`, the `main` functions, timing, printing, reading of
  files), the builds of `vcw` with `ADAPTIVE_THRESHOLD` or `GREEDY_CONVERGE`, and the LZ4 dictionary
  runner of `linetest.cpp`, a copy of the line store with another codec.
* Vendored code (`sais.hxx`, of which `Cw` has the result, `PerfEvent.hpp`, the headers of zstd) and
  build files.

There is one type invariant, in `BinarySemaphore`, where it carries a proof; elsewhere the
properties fail when a type does.

Next, a proof: `StringsIntact` of `Compress12`.
