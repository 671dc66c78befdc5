--------------------------- MODULE MCResponseCache ---------------------------
(***************************************************************************)
(* A POST is about one wallet (/reputation/record) or about two (/delegate *)
(* and /revoke).                                                           *)
(***************************************************************************)
EXTENDS ResponseCache

CONSTANTS w1, w2

MCSymmetry == Permutations(Readers)
MCEvent == {{w1}}
MCDelegation == {{w1, w2}}
=============================================================================
