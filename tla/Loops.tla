------------------------------- MODULE Loops -------------------------------
(* What the program's loops over a slice leave, for Release and ConfigParse. *)
EXTENDS Naturals, Sequences

\* The first place at which a loop stops.
Least(S) == CHOOSE n \in S : \A m \in S : n <= m

\* What a loop over s that appends leaves of it: the elements at the places of keep.
Kept(s, keep) ==
    LET kept[n \in 0..Len(s)] ==
            IF n = 0 THEN <<>>
            ELSE IF n \in keep THEN Append(kept[n - 1], s[n])
            ELSE kept[n - 1]
    IN kept[Len(s)]
=============================================================================
