----------------------------- MODULE MCSymbolTable -----------------------------
(***************************************************************************)
(* Small symbol tables: three byte values, at most MaxSymbols symbols of   *)
(* up to MaxLength bytes, and a hash function that makes unrelated long    *)
(* symbols collide, as the 1024 buckets of the real one do.                *)
(***************************************************************************)
EXTENDS SymbolTableLife

MCBucket == 0 .. 2
MCHash(key) == (key[1] + 2 * key[2] + 2 * key[3]) % 3
================================================================================
