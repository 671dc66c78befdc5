-------------------------------- MODULE Phrases --------------------------------
(***************************************************************************)
(* The explanations the answers carry, as sets of phrases: which lines a   *)
(* generate...Explanation function pushes, not how they are worded.        *)
(***************************************************************************)
EXTENDS Integers, Sequences

\* The first word from `high` on, the second from `low` on, else the third.
Graded(value, high, low, words) ==
  IF value >= high THEN words[1] ELSE IF value >= low THEN words[2] ELSE words[3]

\* The same of four, in the steps of every classify...Risk: 70, 45 and 20.
Graded4(value, words) ==
  IF value >= 700 THEN words[1] ELSE Graded(value, 450, 200, Tail(words))

\* The phrases whose condition holds; `lines` are pairs of both.
Said(lines) == {line[1] : line \in {l \in lines : l[2]}}
=============================================================================
