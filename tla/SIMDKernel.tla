------------------------------ MODULE SIMDKernel -------------------------------
(***************************************************************************)
(* The vector kernel (fsst_avx512.cpp, fsst_avx512_unroll*.inc) as a       *)
(* function from states to states.  It has Groups * Width lanes, each of   *)
(* which compresses one job.  An iteration of its loop loads jobs into the *)
(* idle lanes and finds one code for every lane; lanes whose job is done   *)
(* hand it over and are idle again.  All lanes move in lockstep.           *)
(*                                                                         *)
(* A job: bytes cur .. end - 1 of the input area are still to be           *)
(* compressed, the next code goes to out; pos says which job it is.        *)
(***************************************************************************)
EXTENDS Serialization

CONSTANTS
  Groups,         \* the unrolling, 1 .. 4
  Width,          \* the lanes of a vector, 8
  ScatterWidth    \* how many bytes a lane writes at once, 8

ASSUME KernelAssumption ==
  /\ Groups \in Nat \ {0}
  /\ Width \in Nat \ {0}
  /\ ScatterWidth \in Nat \ {0, 1}

Lanes == Groups * Width
Lane  == 1 .. Lanes
Idle  == [cur |-> 0, end |-> 0, pos |-> 0, out |-> 0]

(* jobs is the input array; done collects the finished jobs.               *)
KernelStart(jobs, mem) ==
  [jobs |-> jobs, next |-> 0, lane |-> [l \in Lane |-> Idle], done |-> <<>>, mem |-> mem]

IdleLanes(k) == {l \in Lane : k.lane[l] = Idle}

(* The loop goes on as long as there are more jobs than idle lanes.        *)
KernelGoesOn(k) == k.next + Cardinality(IdleLanes(k)) < Len(k.jobs)

(* expandload: the idle lanes take the next jobs, in the order of lanes.   *)
Loaded(k) ==
  [l \in Lane |-> IF l \in IdleLanes(k)
                    THEN k.jobs[k.next + Cardinality({i \in IdleLanes(k) : i <= l})]
                    ELSE k.lane[l]]

(* A code was found for the job: cur moves by its length, out by one byte  *)
(* or, for an escape, two.                                                 *)
Advanced(job, found) ==
  [job EXCEPT !.cur = job.cur + found.len, !.out = job.out + 1 + EscapeBit(found.code)]

(* scatter: the code, the first byte of the word, and zeros.               *)
Scattered(mem, out, code, first) ==
  [i \in DOMAIN mem |-> IF i = out THEN CodeByte(code)
                        ELSE IF i = out + 1 THEN first
                        ELSE IF i \in out + 2 .. out + ScatterWidth - 1 THEN 0
                        ELSE mem[i]]

(* gather: the bytes of the input area from a position on.                 *)
WordAt(base, pos) == [i \in 1 .. MaxLength |-> base[pos + i - 1]]

(* compressstore: the lanes of a set, one behind the other.                *)
Packed(lane, S) ==
  [n \in 1 .. Cardinality(S) |->
     lane[CHOOSE l \in S : Cardinality({i \in S : i < l}) = n - 1]]

KernelStep(k, t, base) ==
  LET job   == Loaded(k)
      found == [l \in Lane |-> FinalLookup(t, WordAt(base, job[l].cur))]
      moved == [l \in Lane |-> Advanced(job[l], found[l])]
      finished == {l \in Lane : moved[l].cur = moved[l].end}
      mem[l \in 0 .. Lanes] ==
        IF l = 0 THEN k.mem
        ELSE Scattered(mem[l - 1], job[l].out, found[l].code, WordAt(base, job[l].cur)[1])
  IN  [ jobs |-> k.jobs,
        next |-> k.next + Cardinality(IdleLanes(k)),
        lane |-> [l \in Lane |-> IF l \in finished THEN Idle ELSE moved[l]],
        done |-> k.done \o Packed(moved, finished),
        mem  |-> mem[Lanes] ]

(* The unfinished jobs follow, the last group of lanes first.              *)
KernelOutput(k) ==
  LET fromLast == [i \in Lane |-> k.lane[(Groups - 1 - (i - 1) \div Width) * Width
                                           + ((i - 1) % Width) + 1]]
  IN  k.done \o Packed(fromLast, {i \in Lane : fromLast[i] # Idle})
================================================================================
