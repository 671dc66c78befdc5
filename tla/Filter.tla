-------------------------------- MODULE Filter --------------------------------
(***************************************************************************)
(* What is left of a sequence, or of a Map kept as one, when some of its   *)
(* elements are deleted.  A recursive function, which the provers can work *)
(* on.                                                                     *)
(***************************************************************************)
EXTENDS Naturals, Sequences

\* The sequence s without the elements of the set dropped, in its order.
Drop(s, dropped) ==
  LET kept[i \in 0..Len(s)] ==
        IF i = 0 THEN <<>>
        ELSE IF s[i] \in dropped THEN kept[i - 1] ELSE Append(kept[i - 1], s[i])
  IN  kept[Len(s)]

\* The elements of s that pass the test, in its order: Array.filter.
Only(s, Passes(_)) == Drop(s, {s[i] : i \in {j \in DOMAIN s : ~Passes(s[j])}})
=============================================================================
