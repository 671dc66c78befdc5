------------------------------ MODULE Submissions ------------------------------
(***************************************************************************)
(* What is checked, and what is made of the arguments, before a call to a  *)
(* contract is submitted: the delegation registry (src/registry.ts) and    *)
(* the reputation contract (src/reputation.ts), as operators.  What        *)
(* happens to the call afterwards is WritePath and Endorsements.           *)
(*                                                                         *)
(* Amounts that a caller gives are tenths of an ALGO.  An address that is  *)
(* none is left out: the callers of both refuse it with 400.               *)
(***************************************************************************)
EXTENDS Decisions

\* The amount of a request; a refused one is None.
validateAmount(amount) ==
  IF amount = None THEN 0 ELSE IF amount <= 0 THEN None ELSE amount

validateArgs(sponsor, agent, tenths) == sponsor # agent /\ tenths > 0

\* delegate encodes the whole part of the amount.
delegate(sponsor, agent, tenths) ==
  [kind |-> "add", from |-> sponsor, to |-> agent, amount |-> tenths \div 10]

revoke(sponsor, agent) == [kind |-> "revoke", from |-> sponsor, to |-> agent, amount |-> 0]

-----------------------------------------------------------------------------
(* The evidence for an event.  `e` is what the caller claims and what the  *)
(* reads return: [counterparty, round, createdAt, failed], where `failed`  *)
(* says which of the two reads, "account" and "transactions", fails.       *)

verifyCounterparty(e) == "account" \notin e.failed /\ e.createdAt > 0

\* Some transfer between the two; the round only has to be positive.
TransferBetween(wallet, other, history) ==
  \E i \in DOMAIN history : history[i].kind = "pay" /\ {history[i].from, history[i].to} = {wallet, other}

\* Mutant: transactions that could not be read count as proof.
disputeUnlessRefuted(wallet, e, history) ==
  /\ e.counterparty # None /\ e.round > 0
  /\ "transactions" \in e.failed \/ TransferBetween(wallet, e.counterparty, history)

verifyDisputeEvent(wallet, e, history) ==
  /\ e.counterparty # None /\ e.round > 0
  /\ "transactions" \notin e.failed
  /\ TransferBetween(wallet, e.counterparty, history)

\* Disputes and endorsements are not asked for it.
verifySelfReportedEvent(t, e, history) ==
  /\ "transactions" \notin e.failed
  /\ t \in {"payment", "purchase"} => \E i \in DOMAIN history : history[i].kind = "pay"
  /\ t = "service" => \E i \in DOMAIN history : history[i].kind # "pay"

\* recordEvent up to the submission: the event submitted, or None.  A payment,
\* purchase, service or refund without evidence is logged and submitted all the
\* same; `verified` goes nowhere.  For an endorsement see Endorsements.
recordEvent(wallet, t, e, history) ==
  IF t \in Negative /\ e.counterparty # None /\ ~verifyCounterparty(e) THEN None
  ELSE IF t = "dispute" /\ ~verifyDisputeEvent(wallet, e, history) THEN None
  ELSE [type |-> t, verified |-> t \in {"endorsement", "dispute"} \/ verifySelfReportedEvent(t, e, history)]
=============================================================================
