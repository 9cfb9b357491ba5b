----------------------------- MODULE MCFsstCreate ------------------------------
(***************************************************************************)
(* fsst_create on small inputs: all pairs of short lines, and longer ones  *)
(* of which a sample must be drawn.                                        *)
(***************************************************************************)
EXTENDS FsstCreate

MCBucket == 0 .. 2
MCHash(key) == (key[1] + 2 * key[2] + 2 * key[3]) % 3
MCRnd128(i, frac) == IF (i + frac \div 30) % 3 = 0 THEN 128 ELSE 1

Times(s, n) == [i \in 1 .. n * Len(s) |-> s[1 + ((i - 1) % Len(s))]]

Short == { <<1>>, <<0, 1>>, Times(<<1>>, 6), Times(<<1, 2>>, 4), Times(<<1, 2, 0>>, 3) }
Pieces == { <<1>>, <<1, 2>>, <<2, 1, 1>>, <<0, 1, 2>>, <<1, 1, 2, 2>>,
            <<2>>, <<2, 3>>, <<3, 2, 2, 2>> }

MCLines ==
  { <<a, b>> : a \in Short \cup {<<>>}, b \in Short }
  \cup { <<Times(p, 24 \div Len(p))>> : p \in Pieces }
  \cup { <<Times(<<1, 1, 2>>, 5), <<>>, Times(<<2, 1>>, 8) \o <<0>>>> }
================================================================================
