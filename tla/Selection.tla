------------------------------ MODULE Selection ------------------------------
(***************************************************************************)
(* The elements of a sequence that are in a set, in their order: what the  *)
(* code writes as [x for x in s if ...].  SelectSeq says the same, but the *)
(* prover has no definition of it.                                         *)
(***************************************************************************)
EXTENDS Naturals, Sequences

Sifted(s, A) ==
    LET upTo[i \in 0 .. Len(s)] ==
            IF i = 0 THEN <<>>
            ELSE IF s[i] \in A THEN Append(upTo[i - 1], s[i]) ELSE upTo[i - 1]
    IN  upTo[Len(s)]
=============================================================================
