------------------------------- MODULE MCFsst12 --------------------------------
(***************************************************************************)
(* A byte of two bits and a code of three: four bytes and four longer      *)
(* symbols, of up to five bytes.                                           *)
(***************************************************************************)
EXTENDS Fsst12

MCBucket == 0 .. 2
MCHash(key) == (key[1] + 2 * key[2] + key[3] + key[4]) % 3
MCRnd128(i, frac) == 1 + ((37 * i * frac) % 128)

Times(s, n) == [i \in 1 .. n |-> s[1 + ((i - 1) % Len(s))]]

MCLines ==
  { <<Times(<<1, 2, 3>>, n), <<>>, Times(<<1, 1>>, m)>> : n \in {1, 12}, m \in {3, 4, 11} }
  \cup { << Times(<<3, 0>>, 30), <<2>> >>,
          << Times(<<1, 2, 0>>, 17), <<1, 2>> >>, << Times(<<1>>, 20) >>,
          << <<3, 0>>, <<1, 2, 1>>, Times(<<1, 2, 1, 1, 0>>, 45) >> }
================================================================================
