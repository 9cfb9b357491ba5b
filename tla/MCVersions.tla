------------------------------ MODULE MCVersions -------------------------------
(***************************************************************************)
(* The paper's versions with eight byte values, of which 1 is the newline. *)
(***************************************************************************)
EXTENDS Versions, MCFsst12

Pieces == {<<2, 3>>, <<2, 3, 4>>, <<4, 3, 2>>}
Joined(n) == {FlattenSeq(p) : p \in [1 .. n -> Pieces]}

MCFirstTexts ==
  { <<Append(s, 1)>> : s \in Joined(6) }
  \cup { <<Append(s, 1), Append(t, 1)>> : s \in Joined(3), t \in Joined(2) \cup {<<>>} }
  \cup { << <<2, 3, 2, 3, 2, 3, 4, 2, 3, 4, 2, 3, 4, 2, 2, 2, 3, 1>> >> }

MCTargets == <<2, 4, 5>>
MCSecondTexts ==
  { << <<2, 3, 2, 3, 1>>, <<2, 3, 4, 2, 3, 4, 4, 1>> >>,
    << <<2, 3, 0, 2, 3, 0, 1>>, <<1>> >>,
    << <<2, 1>>, <<3, 1>>, <<1>> >>,
    << <<4, 4, 4, 4, 4, 4, 1>>, <<3, 4, 3, 4, 1>> >>,
    << <<2, 1>> >> }

(* What a slot that was never filled, and the memory behind, contain.      *)
MCLeftover == {<<>>, <<3, 2>>, <<2>>}
MCBehind == { Times(<<0>>, 9), Times(<<2, 3>>, 9) }

(* Rows and blocks of several lengths.  The byte 4 is escaped by 7.        *)
MCCorpora ==
  { << <<2>> >>,
    << <<2, 4>>, <<>>, <<3, 3, 4>>, <<4>>, <<2>> >>,
    << <<>>, <<3>>, <<4, 2, 4, 2>>, <<2, 3>>, <<3>>, <<>>, <<4>> >> }
MCEncode(row) == FlattenSeq([i \in DOMAIN row |-> IF row[i] = 4 THEN <<7, 4>> ELSE <<row[i]>>])
MCDecode(bytes) == FlattenSeq([i \in DOMAIN bytes |-> IF bytes[i] = 7 THEN <<>> ELSE <<bytes[i]>>])
================================================================================
