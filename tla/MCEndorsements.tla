--------------------------- MODULE MCEndorsements ---------------------------
(***************************************************************************)
(* Three wallets that endorse each other round both ways, and one that     *)
(* endorses itself.                                                        *)
(***************************************************************************)
EXTENDS Endorsements

CONSTANTS w1, w2, w3

Report(wallet, eventType, counterparty) ==
  [wallet |-> wallet, eventType |-> eventType, counterparty |-> counterparty]

\* A cycle of three with a chord, and an endorsement of oneself.
MCReports == {Report(w1, "endorsement", w2), Report(w2, "endorsement", w3),
              Report(w3, "endorsement", w1), Report(w1, "endorsement", w3),
              Report(w3, "endorsement", w3)}

\* For the race: two wallets that endorse each other, and an endorsement that names
\* nobody.
MCMutual == {Report(w1, "endorsement", w2), Report(w2, "endorsement", w1),
             Report(w2, "endorsement", NoWallet)}
=============================================================================
