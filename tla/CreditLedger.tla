---------------------------- MODULE CreditLedger ----------------------------
(***************************************************************************)
(* What the exposure store promises, free of files and queues: a ledger of *)
(* outstanding credit, one entry per wallet and a total, that only ever    *)
(* grants within two caps, can be cleared, and after a restart resumes     *)
(* from a ledger that was once committed.                                  *)
(***************************************************************************)
EXTENDS Naturals

CONSTANTS
  Wallets,
  MaxSystemExposure,  \* the cap on the total, in cents
  MaxWalletShare      \* the cap on one wallet, in cents

VARIABLES
  ledger,     \* [total, wallets]
  committed   \* every ledger ever committed

EmptyLedger == [total |-> 0, wallets |-> [w \in Wallets |-> 0]]

Within(l) ==
  /\ l.total <= MaxSystemExposure
  /\ \A w \in Wallets : l.wallets[w] <= MaxWalletShare

Init ==
  /\ ledger = EmptyLedger
  /\ committed = {EmptyLedger}

Commit(l) ==
  /\ ledger' = l
  /\ committed' = committed \union {l}

\* One wallet is granted a positive amount that both caps still leave room for.
Grant ==
  \E w \in Wallets, amount \in 1..MaxWalletShare :
    LET l == [total   |-> ledger.total + amount,
              wallets |-> [ledger.wallets EXCEPT ![w] = @ + amount]]
    IN  Within(l) /\ Commit(l)

Clear == Commit(EmptyLedger)

\* The process restarted: it resumes from some committed ledger.
Resume ==
  /\ ledger' \in committed
  /\ UNCHANGED committed

Next == Grant \/ Clear \/ Resume

Spec == Init /\ [][Next]_<<ledger, committed>>
=============================================================================
