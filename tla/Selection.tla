----------------------------- MODULE Selection ------------------------------
(***************************************************************************)
(* Selection from a sequence by a set: SelectSeq for tests that are        *)
(* memberships, as a recursive function.                                   *)
(***************************************************************************)
EXTENDS Integers, Sequences

(* The elements of s that are in S, in the order of s.                     *)
Only(s, S) ==
  LET kept[n \in 0 .. Len(s)] ==
        IF n = 0 THEN << >>
        ELSE IF s[n] \in S THEN Append(kept[n - 1], s[n]) ELSE kept[n - 1]
  IN  kept[Len(s)]
=============================================================================
