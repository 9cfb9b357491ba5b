---------------------------- MODULE MCCompressSIMD -----------------------------
(***************************************************************************)
(* Small batches: four jobs of up to three bytes, two groups of one lane,  *)
(* a staging area that four full jobs overflow.                            *)
(***************************************************************************)
EXTENDS CompressSIMDProof

MCBucket == 0 .. 2
MCHash(key) == (key[1] + 2 * key[2] + 2 * key[3]) % 3

Built(terminator, zeroTerminated, symbols) ==
  FoldLeft(AddSymbol, EmptyTable(terminator, zeroTerminated), <<<<terminator>>>> \o symbols)

(* The tables before finalize.                                             *)
MCBuilt == {
  Built(2, FALSE, << <<0, 1>>, <<0, 1, 0>>, <<1, 1>>, <<0>> >>),
  Built(1, FALSE, << >>),
  Built(0, TRUE,  << <<1, 1, 2>>, <<1, 2>>, <<2, 1>>, <<1>> >>) }

MCTables == { FinalizeTable(b) : b \in MCBuilt }

(* They are such tables as the theorems about the batches are for: what    *)
(* Finalized asks for is true of them.                                     *)
ASSUME MCAssumption ==
  \A b \in MCBuilt : Ready(b) /\ NSymbols(b) > 0 /\ NoneAcross(b)

(* Zero-terminated strings contain their final zero and no other.          *)
Strings(t) ==
  IF t.zeroTerminated
    THEN { Append(s, 0) : s \in {<<>>, <<1>>, <<2, 1>>, <<1, 1, 2>>, <<1, 2, 2, 1, 1, 2>>,
                                 <<2, 2, 1, 2, 2, 1, 1, 2, 2, 1>>} }
    ELSE {<<>>, <<0>>, <<2, 1>>, <<0, 1, 0>>, <<0, 1, 2, 0, 1, 1, 0>>,
          <<2, 0, 1, 0, 2, 2, 1, 1, 0, 1, 0>>}

(* Up to three strings; five that alternate, so that batches begin and end *)
(* in every part of a string; and many full chunks of escapes.             *)
Escapes == <<0, 2, 0>>
MCInputs(t) ==
  UNION { [1 .. n -> Strings(t)] : n \in 0 .. 3 }
    \cup { <<s, r, s, r, s>> : s \in Strings(t), r \in Strings(t) }
    \cup { [i \in 1 .. n |-> Escapes] : n \in IF t.zeroTerminated THEN {} ELSE {4, 5} }

(* Room for one short string, for less than three, for four full chunks    *)
(* of escapes, for everything.                                             *)
MCSizes == {8, 14, 26, 80}
================================================================================
