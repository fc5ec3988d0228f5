----------------------------- MODULE Selection -----------------------------
(***************************************************************************)
(* The part of a sequence that is in a set: what removeAll and the loops   *)
(* with a condition leave of a list.  A recursive function of the length,  *)
(* so that SequenceLemmas can prove what it does.                          *)
(***************************************************************************)
EXTENDS Naturals, Sequences

Only(s, S) ==
    LET kept[n \in 0 .. Len(s)] ==
            IF n = 0 THEN <<>>
            ELSE IF s[n] \in S THEN Append(kept[n - 1], s[n]) ELSE kept[n - 1]
    IN  kept[Len(s)]
=============================================================================
