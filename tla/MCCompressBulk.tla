---------------------------- MODULE MCCompressBulk -----------------------------
(***************************************************************************)
(* Small batches: chunks of three bytes, so that strings of up to five     *)
(* bytes are split, and tables in which every shortcut of the loop can be  *)
(* taken and every kind of code occurs.                                    *)
(***************************************************************************)
EXTENDS CompressBulkProof

MCBucket == 0 .. 2
MCHash(key) == (key[1] + 2 * key[2] + 2 * key[3]) % 3

Built(terminator, zeroTerminated, symbols) ==
  FoldLeft(AddSymbol, EmptyTable(terminator, zeroTerminated), <<<<terminator>>>> \o symbols)

(* The tables before finalize.                                             *)
MCBuilt == {
  Built(2, FALSE, << <<0, 1>>, <<0, 1, 0>>, <<1, 1>>, <<0>> >>),
  Built(0, FALSE, << <<1, 2, 1>>, <<2, 2>>, <<2, 1>>, <<2>> >>),
  Built(2, FALSE, << <<0, 0, 1>>, <<1, 0, 0>>, <<1, 0>>, <<0, 0>> >>),
  Built(1, FALSE, << >>),
  Built(0, TRUE,  << <<1, 2>>, <<1, 2, 1>>, <<2, 2>>, <<2>> >>),
  Built(0, TRUE,  << <<1, 1, 2>>, <<1, 2>>, <<2, 1>>, <<1>> >>) }

MCTables == { FinalizeTable(b) : b \in MCBuilt }

(* They are such tables as the theorems about compressBulk are for: what   *)
(* Finalized asks for is true of them.                                     *)
ASSUME MCAssumption ==
  \A b \in MCBuilt : Ready(b) /\ NSymbols(b) > 0 /\ NoneAcross(b)

(* Zero-terminated strings contain their final zero and no other.          *)
Strings(t, n) ==
  IF t.zeroTerminated
    THEN { Append(s, 0) : s \in BoundedSeq(Byte \ {0}, n) }
    ELSE BoundedSeq(Byte, n)

MCInputs(t) == { <<a, b>> : a \in Strings(t, 4), b \in Strings(t, 1) }

(* With the one byte of slack of this instance (7 bytes would hide that a  *)
(* chunk of three does not fit): no room for a full chunk; room for one    *)
(* chunk of escapes but not for the next; room for everything.             *)
MCSizes == {6, 8, 54}
================================================================================
