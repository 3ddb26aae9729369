------------------------------- MODULE Filter -------------------------------
(***************************************************************************)
(* The list comprehension of the code, [x for x in s if x in T].  It is    *)
(* SelectSeq with a set in the place of the operator: a set is what a      *)
(* lemma can be stated about (Filter_proofs).                              *)
(***************************************************************************)
EXTENDS Naturals, Sequences

Elements(s) == {s[i] : i \in DOMAIN s}

Only(s, T) ==
    LET kept[n \in 0 .. Len(s)] ==
            IF n = 0 THEN <<>>
            ELSE IF s[n] \in T THEN Append(kept[n - 1], s[n]) ELSE kept[n - 1]
    IN  kept[Len(s)]

=============================================================================
