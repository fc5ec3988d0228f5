------------------------- MODULE NumberedSequences -------------------------
(***************************************************************************)
(* Sequences of consecutive numbers: how the models of message queues tell *)
(* that no message is lost, duplicated or overtaken.                       *)
(***************************************************************************)
EXTENDS Naturals, Sequences

\* s is k + 1, k + 2, ... without a gap.
Numbered(s, k) == \A i \in 1 .. Len(s) : s[i] = k + i
=============================================================================
