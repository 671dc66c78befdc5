------------------------------ MODULE MCAnalyses ------------------------------
(***************************************************************************)
(* The wallet w, rich enough to be approved, and three others.  Payments   *)
(* go between any two, so that four of them make every graph of up to four *)
(* edges; 400 days make a wallet old and, without a payment, idle.         *)
(***************************************************************************)
EXTENDS Analyses

CONSTANTS w, a, b, c

MCWallets == {w, a, b, c}
MCAccounts == [x \in MCWallets |->
  [balance |-> IF x = w THEN 50000 ELSE 1000, assets |-> IF x = w THEN 10 ELSE 0, createdRound |-> 0]]
\* The other wallets differ in nothing but their names.
MCSymmetry == Permutations({a, b, c})

\* Half an ALGO is registered as 0.
MCAmounts == {5, 20}
MCRequested == {0, 3000, 12000}
MCPauses == {20, 900}
MCMaxSteps == [account |-> 5, registry |-> 3, payments |-> 4, decision |-> 5]
=============================================================================
