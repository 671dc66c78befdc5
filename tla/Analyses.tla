------------------------------- MODULE Analyses -------------------------------
(***************************************************************************)
(* The read side of the service: requests about one wallet answered from   *)
(* the chain while the chain moves on and reads fail.                      *)
(*                                                                         *)
(* The chain (external) is a sequence of payments and registry calls with  *)
(* the day each was confirmed, and the counters of the reputation          *)
(* contract.  A request is one step: it reads, in the order and with the   *)
(* failures the step chooses, and leaves its answer.                       *)
(*                                                                         *)
(* Bounds: MaxSteps chain steps, then one request, for an answer depends   *)
(* on no earlier one; `focus` is the one kind of activity a behaviour has. *)
(* MaxFailures reads of a decision, or the read of one account, fail.      *)
(***************************************************************************)
EXTENDS Submissions, Sybil

CONSTANTS
  Wallets,       \* every account
  Subject,       \* the wallet the requests are about
  Accounts,      \* wallet -> [balance, assets, createdRound]
  PageLimit,     \* registry calls the indexer returns at most
  FirstDay,      \* the day the chain starts with
  Pauses,        \* how many days may pass at once
  Amounts,       \* tenths of an ALGO a sponsor may delegate
  Requested,     \* cents a credit may be asked for
  MaxSteps,      \* focus -> how many chain steps
  MaxFailures    \* failed reads in one request

ASSUME AnalysesConstants ==
  /\ IsFiniteSet(Wallets) /\ Subject \in Wallets
  /\ Accounts \in [Wallets -> [balance : Nat, assets : Nat, createdRound : Nat]]
  /\ PageLimit \in Nat \ {0}
  /\ FirstDay \in Nat /\ FirstDay > GenesisRound
  /\ Pauses \subseteq Nat /\ Amounts \subseteq Nat /\ Requested \subseteq Nat

\* None stands for undefined: it is no wallet, no number and no answer.
ASSUME NoneIsNothing ==
  /\ None \notin Wallets
  /\ None \notin Nat
  /\ None \notin [balance : Nat, assets : Nat, createdRound : Nat, lastRound : Nat]
  /\ None \notin [reputation : Nat, riskLevel : {"low", "medium", "high", "critical"}, totalEvents : Nat,
       explanation : SUBSET (EventTypes \cup {"no events", "strong", "moderate", "weak", "poor"}),
       confidence : Nat]

VARIABLES
  focus,     \* the kind of activity of this behaviour
  now,       \* today
  chain,     \* [kind, from, to, amount, day]: "pay", "add" or "revoke"
  counters,  \* the boxes of the reputation contract
  disputed,  \* (history) whom the disputes counted there were claimed to be about
  steps,     \* chain steps taken
  answer     \* what the last request returned, and what it read

vars == <<focus, now, chain, counters, disputed, steps, answer>>

NoAnswer == [ask |-> "nothing"]

Init ==
  /\ focus \in DOMAIN MaxSteps
  /\ now = FirstDay
  /\ chain = <<>>
  /\ counters = [t \in EventTypes |-> 0]
  /\ disputed = {}
  /\ steps = 0
  /\ answer = NoAnswer

-----------------------------------------------------------------------------
(* The chain *)

ChainStep(kinds) ==
  /\ focus \in kinds
  /\ steps < MaxSteps[focus]
  /\ answer = NoAnswer
  /\ steps' = steps + 1
  /\ UNCHANGED <<focus, answer>>

Confirm(kind, from, to, amount) ==
  chain' = Append(chain, [kind |-> kind, from |-> from, to |-> to, amount |-> amount, day |-> now])

Pay(from, to) ==
  /\ ChainStep({"account", "payments", "registry", "decision"})
  /\ from # to
  /\ focus # "payments" => from = Subject
  /\ focus = "decision" => chain = <<>>
  /\ Confirm("pay", from, to, 1)
  /\ UNCHANGED <<now, counters, disputed>>

Naming(w) == Only(chain, LAMBDA c : c.kind = "pay" /\ w \in {c.from, c.to})

\* What the registry itself holds active for a sponsor, in a box for each pair.
Active(sponsor) ==
  LET last == [w \in Wallets |->
        Only(chain, LAMBDA c : c.kind # "pay" /\ c.from = sponsor /\ c.to = w)]
  IN  {[to |-> w, amount |-> last[w][Len(last[w])].amount] :
         w \in {v \in Wallets : last[v] # <<>> /\ last[v][Len(last[v])].kind = "add"}}

\* POST /delegate and POST /revoke, accepted and confirmed.
Submit(call) ==
  /\ Confirm(call.kind, call.from, call.to, call.amount)
  /\ UNCHANGED <<now, counters, disputed>>

Delegate(sponsor, agent, tenths) ==
  /\ ChainStep({"registry"})
  /\ validateArgs(sponsor, agent, tenths)
  /\ Submit(delegate(sponsor, agent, tenths))

Revoke(sponsor, agent) ==
  /\ ChainStep({"registry"})
  /\ agent \in {d.to : d \in Active(sponsor)}
  /\ Submit(revoke(sponsor, agent))

PassTime(days) ==
  /\ ChainStep({"account", "decision"})
  /\ chain # <<>>
  /\ now' = now + days
  /\ UNCHANGED <<chain, counters, disputed>>

\* POST /reputation/record, three times with the same claim and the same reads.
RecordEvents(t, evidence) ==
  /\ ChainStep({"decision"})
  /\ evidence.counterparty # Subject
  /\ recordEvent(Subject, t, evidence, Naming(Subject)) # None
  /\ counters' = [counters EXCEPT ![t] = @ + 3]
  /\ disputed' = disputed \cup (IF t = "dispute" THEN {evidence.counterparty} ELSE {})
  /\ UNCHANGED <<now, chain>>

-----------------------------------------------------------------------------
(* What the reads return *)

\* The indexer's list of a wallet's transactions, newest first.
RoundsNewestFirst(w) == Reverse([i \in DOMAIN Naming(w) |-> Naming(w)[i].day])

AccountInfo(w) ==
  [balance |-> Accounts[w].balance, assets |-> Accounts[w].assets,
   createdRound |-> Accounts[w].createdRound, lastRound |-> now]

\* The registry calls that name a wallet, in one of two orders, cut to a page.
RegistryPage(w, newestFirst) ==
  LET calls == Only(chain, LAMBDA c : c.kind # "pay" /\ w \in {c.from, c.to})
      page == IF newestFirst THEN Reverse(calls) ELSE calls
  IN  [i \in 1 .. Least(PageLimit, Len(page)) |->
        [kind |-> page[i].kind, agent |-> page[i].to, sponsor |-> page[i].from, amount |-> page[i].amount]]

\* The payments of a wallet, as the compatibility path reads them.
TransfersOf(w) == [i \in DOMAIN Naming(w) |-> [to |-> Naming(w)[i].to, amount |-> Naming(w)[i].amount]]

ReadOf(w, app, legacy, newestFirst) ==
  [app |-> app, page |-> RegistryPage(w, newestFirst), legacy |-> legacy, transfers |-> TransfersOf(w)]

GoodRead(w) == ReadOf(w, "ok", "ok", FALSE)

\* The transfers of the chain, as sybil detection keeps them.
Payments ==
  LET paid == Only(chain, LAMBDA c : c.kind = "pay")
  IN  [i \in DOMAIN paid |->
        [from |-> paid[i].from, to |-> paid[i].to, round |-> paid[i].day, amount |-> paid[i].amount]]

Infos(failed) ==
  [w \in Wallets |-> IF w \in failed THEN Unread
     ELSE [balance |-> Accounts[w].balance \div 1000, createdRound |-> Accounts[w].createdRound]]

TrustOf(w) == scoreWallet(AccountInfo(w), fetchTransactionHistory(RoundsNewestFirst(w), MaxPages, FALSE))

-----------------------------------------------------------------------------
(* The requests *)

Ask(kinds) ==
  /\ focus \in kinds
  /\ answer = NoAnswer
  /\ UNCHANGED <<focus, now, chain, counters, disputed, steps>>

\* GET /score, with the pages that were answered before a refusal or a timeout.
AskTrust(accountRead, answered, threw) ==
  /\ Ask({"account"})
  /\ LET history == fetchTransactionHistory(RoundsNewestFirst(Subject), answered, threw)
     IN  answer' = [ask |-> "trust", accountRead |-> accountRead, history |-> history,
           result |-> scoreWallet(IF accountRead THEN AccountInfo(Subject) ELSE None, history)]

\* POST /credit-estimate for this amount; the history is complete.
AskCredit(amount, accountRead) ==
  /\ Ask({"account"})
  /\ validateAmount(amount) # None
  /\ LET trust == scoreWallet(IF accountRead THEN AccountInfo(Subject) ELSE None,
                     fetchTransactionHistory(RoundsNewestFirst(Subject), MaxPages, FALSE))
     IN  answer' = [ask |-> "credit", requested |-> validateAmount(amount),
                    result |-> estimateCredit(trust, validateAmount(amount))]

\* GET /delegation: the list behind it and the graph's, from the same answers.
AskDelegations(app, legacy, newestFirst) ==
  /\ Ask({"registry"})
  /\ LET read == ReadOf(Subject, app, legacy, newestFirst)
         own == fetchDelegations(Subject, read)
         lists == [w \in Wallets |-> fetchDelegations(w, GoodRead(w))]
     IN  answer' = [ask |-> "delegation", read |-> read, newestFirst |-> newestFirst, list |-> own,
           edges |-> fetchDelegationEdges(Subject, read),
           result |-> scoreDelegation(Subject, own, lists, [w \in Wallets |-> TrustOf(w).trustScore])]

Lists == [w \in Wallets |-> fetchDelegationEdges(w, GoodRead(w))]

\* GET /trust-graph?simulateSponsorLost=
AskTrustGraph(lost) ==
  /\ Ask({"registry"})
  /\ LET scores == [w \in Wallets |-> TrustOf(w).trustScore]
         graph == analyzeTrustGraph(Subject, Lists, scores)
     IN  answer' = [ask |-> "trustGraph", lost |-> lost, graph |-> graph,
           without |-> simulateSponsorLoss(graph, Subject, lost),
           with |-> simulateSponsorAdd(graph, Subject, lost, 1)]

\* GET /sybil-check
AskSybil(unread) ==
  /\ Ask({"payments"})
  /\ answer' = [ask |-> "sybil", unread |-> unread,
       result |-> detectSybil(Subject, Infos({}), unread, Payments)]

Reads == {"account", "history", "delegation", "credit", "sybil", "payment", "dispute", "sanctions"}

\* The parts of a decision when these reads failed, under this sanctions list.
PartsWith(trust, sybil, failed, denyList) ==
  [trust |-> trust,
   delegation |-> IF "delegation" \in failed THEN None
                  ELSE scoreDelegation(Subject, <<>>, [w \in Wallets |-> <<>>], [w \in Wallets |-> 0]),
   credit |-> IF "credit" \in failed THEN None ELSE estimateCredit(trust, 0),
   sybil |-> IF sybil = Unread THEN None ELSE sybil,
   reputation |-> computeReputation(readCounters(counters, failed \cap EventTypes)),
   sanctions |-> checkSanctions(Subject, denyList, "sanctions" \in failed)]

PartsWithout(failed, denyList) ==
  PartsWith(
    scoreWallet(IF "account" \in failed THEN None ELSE AccountInfo(Subject),
      fetchTransactionHistory(RoundsNewestFirst(Subject), MaxPages, "history" \in failed)),
    detectSybil(Subject, Infos(IF "sybil" \in failed THEN {Subject} ELSE {}), {}, Payments),
    failed, denyList)

DecidedBy(parts) ==
  [underwrite |-> underwrite(parts),
   counterparty |-> checkCounterparty(parts.trust, parts.delegation, parts.sanctions),
   passport |-> generatePassport(parts, now)]

Decided(failed, denyList) == DecidedBy(PartsWithout(failed, denyList))

\* GET /underwrite, POST /counterparty-check and GET /passport; `full` is what
\* the same wallet gets when every read comes back.
Decide(failed, denyList) ==
  /\ Ask({"decision"})
  /\ answer' = [ask |-> "decision", failed |-> failed, denyList |-> denyList,
                 result |-> Decided(failed, denyList), full |-> Decided({}, denyList)]

-----------------------------------------------------------------------------
\* A claim about a wallet and what the reads for it return.
Evidence ==
  [counterparty : Wallets \cup {None}, round : {0, FirstDay}, createdAt : {0, FirstDay},
   failed : SUBSET {"account", "transactions"}]

UpTo(n, S) == UNION {kSubset(k, S) : k \in 0 .. n}

Next ==
  \/ \E from, to \in Wallets : Pay(from, to)
  \/ \E sponsor, agent \in Wallets, tenths \in Amounts : Delegate(sponsor, agent, tenths)
  \/ \E sponsor, agent \in Wallets : Revoke(sponsor, agent)
  \/ \E days \in Pauses : PassTime(days)
  \/ \E t \in {"payment", "dispute"}, evidence \in Evidence : RecordEvents(t, evidence)
  \/ \E accountRead, threw \in BOOLEAN, answered \in 0 .. MaxPages : AskTrust(accountRead, answered, threw)
  \/ \E amount \in Requested \cup {None}, accountRead \in BOOLEAN : AskCredit(amount, accountRead)
  \/ \E app \in {"ok", "refused", "threw"}, legacy \in {"ok", "refused"}, newestFirst \in BOOLEAN :
       AskDelegations(app, legacy, newestFirst)
  \/ \E lost \in Wallets \ {Subject} : AskTrustGraph(lost)
  \/ \E unread \in UpTo(1, Wallets) : AskSybil(unread)
  \/ \E failed \in UpTo(MaxFailures, Reads), denyList \in {{}, {Subject}} : Decide(failed, denyList)

Spec == Init /\ [][Next]_vars

-----------------------------------------------------------------------------
(* Properties *)

(***************************************************************************)
(* What the caps and the decay of the trust score are for, whatever part   *)
(* of the history came back: a wallet younger than 30 days, by its account *)
(* or, where that does not say, by its first transaction, scores at most   *)
(* 30 and is not approved, and one that has been idle for a year and more  *)
(* keeps at most 71 percent of what its own breakdown adds up to.  Both    *)
(* are lost when no transaction was read, the decay also when the account  *)
(* was not.                                                                *)
(***************************************************************************)
YoungAndIdleStayLow ==
  answer.ask = "trust" =>
    LET days == RoundsNewestFirst(Subject)
        told == answer.history.totalTxns > 0
        score == answer.result.trustScore
        created == IF answer.accountRead THEN Accounts[Subject].createdRound ELSE 0
        born == IF created # 0 THEN created ELSE days[Len(days)]
    IN  /\ told /\ now - born < 30 => score <= 300 /\ ~answer.result.approved
        /\ told /\ answer.accountRead /\ now - days[1] >= 365 =>
             score <= Rounded(computeTrustScore(answer.result.breakdown) * 71, 100)

(***************************************************************************)
(* Replaying the registry calls named by one page gives the delegations    *)
(* the registry holds active for the wallet, no revoked one and no old     *)
(* amount, in both copies of the algorithm, when the page is complete and  *)
(* oldest first and names a registry call; and without any registry call   *)
(* the list is what the wallet paid to others.  An empty list, be it that  *)
(* nothing is registered or that nothing could be read, scores 35 of 100,  *)
(* because depth 0 is the best depth.                                      *)
(***************************************************************************)
DelegationsAsRegistered ==
  answer.ask = "delegation" =>
    LET calls == Only(chain, LAMBDA c : c.kind # "pay" /\ Subject \in {c.from, c.to})
        paid == ToSet(answer.read.transfers)
        complete == answer.read.app = "ok" /\ ~answer.newestFirst /\ Len(calls) <= PageLimit
    IN  /\ complete /\ calls # <<>> =>
             ToSet(answer.list) = Active(Subject) /\ ToSet(answer.edges) = Active(Subject)
        /\ calls = <<>> => ToSet(answer.list) \subseteq {d \in paid : d.to # Subject}
        /\ answer.list = <<>> => answer.result.trustScore = 350

(***************************************************************************)
(* The exposure said to remain when a sponsor is lost is never less than   *)
(* what an analysis without that sponsor finds, as long as no wallet has   *)
(* more targets than the walk follows, and never more than the exposure    *)
(* of the whole graph less the wallet's own delegation to it.              *)
(***************************************************************************)
LossNeverUnderstated ==
  answer.ask = "trustGraph" =>
    LET left == answer.without.exposure.totalExposure
        lists == [w \in Wallets |-> IF w = answer.lost THEN <<>>
                    ELSE Only(Lists[w], LAMBDA d : d.to # answer.lost)]
        again == analyzeTrustGraph(Subject, lists, [w \in Wallets |-> 0])
    IN  /\ (\A w \in Wallets : Len(Lists[w]) <= Branching) => left >= again.exposure.totalExposure
        /\ answer.lost \in DOMAIN answer.graph.whatIfs => left <= answer.graph.whatIfs[answer.lost]

(***************************************************************************)
(* The batch clustering of the whole graph, which counts common neighbours *)
(* edge by edge, gives every wallet the coefficient of the pairwise        *)
(* definition; the components found in a cluster part it into the classes  *)
(* of its connectedness: no edge leaves one, and none can be split.        *)
(***************************************************************************)
GraphAlgorithmsAgree ==
  LET adj == buildAdjacencyList(Payments)
      closed(S, within) == \A w \in S : getNeighbors(adj, w) \cap within \subseteq S
      all == computeAllClusteringCoefficients(adj)
  IN  answer = NoAnswer =>
        /\ \A w \in DOMAIN adj : all[w] = computeClusteringCoefficient(adj, w)
        /\ \A within \in SUBSET Wallets :
             LET parts == findConnectedComponents(adj, SetToSeq(within))
             IN  /\ UNION parts = within
                 /\ \A p \in parts : closed(p, within)
                 /\ \A p \in parts : \A S \in (SUBSET p) \ {{}, p} : ~closed(S, within)

(***************************************************************************)
(* Sybil detection reads the transfers of the wallet itself and no one     *)
(* else's, so its graph is a star: the two signals for rings, clustering   *)
(* of the neighbourhood and density of intermediaries, are always 0, and   *)
(* where the node gives no creation round either the risk stays under the  *)
(* 70 percent at which underwriting denies a wallet.                       *)
(***************************************************************************)
SybilSeesAStar ==
  (answer.ask = "sybil" /\ answer.result # Unread) =>
    /\ answer.result.signals.neighborhoodClustering = 0
    /\ answer.result.signals.intermediateDensity = 0
    /\ (\A w \in Wallets : Accounts[w].createdRound = 0) => answer.result.sybilRisk < 70

\* Reads whose failure the code takes for good news.
TakenForGood == {"account", "history", "sybil", "dispute"}

(***************************************************************************)
(* A failed read never turns a denial into an approval nor raises a limit: *)
(* neither the failure of screening, of delegation scoring, of the credit  *)
(* estimate nor of a counter of good events; a listed wallet that could    *)
(* not be screened stays denied.  The other reads are not                  *)
(* covered: with the account or the history a wallet loses its decay, with *)
(* sybil detection its risk, with the counter of disputes the disputes.    *)
(***************************************************************************)
DenialsStand ==
  (answer.ask = "decision" /\ answer.failed \cap TakenForGood = {}) =>
    LET full == answer.full
    IN  /\ answer.result.underwrite.approved => full.underwrite.approved
        /\ answer.result.underwrite.recommendedLimit <= full.underwrite.recommendedLimit
        /\ answer.result.counterparty.allow => full.counterparty.allow
        /\ answer.result.passport.creditLimit <= full.passport.creditLimit

(***************************************************************************)
(* Whomever a dispute on record was claimed to be about exchanged a        *)
(* transfer with the subject, whatever else the caller claimed and         *)
(* whichever reads failed: no transfer with a third wallet will do.        *)
(* Payments on record need none, and weigh in full all the same: three     *)
(* that no transaction shows make a reputation of 75, where the comments   *)
(* promise half the weight.                                                *)
(***************************************************************************)
RecordedAsEvidenced ==
  /\ \A w \in disputed : TransferBetween(Subject, w, chain)
  /\ /\ answer.ask = "decision" /\ counters["payment"] = 3 /\ counters["dispute"] = 0
     /\ Naming(Subject) = <<>> /\ answer.failed = {}
     => answer.result.passport.reputation = 750

(***************************************************************************)
(* The words of an answer agree with its decision, though each is computed *)
(* apart: trust called weak is trust refused; a credit said to be within   *)
(* capacity is granted, and one refused is at high risk at least; a        *)
(* counterparty refused at a low or medium risk was not cleared by the     *)
(* screening; a passport called clean is eligible.                         *)
(* One does not: a wallet with any transfer is told that its cluster was   *)
(* created within 48 hours, also where no creation round is known.         *)
(***************************************************************************)
ExplanationsAgree ==
  LET words == answer.result.explanation
  IN  CASE answer.ask \in {"trust", "delegation"} ->
             /\ "weak" \in words <=> ~answer.result.approved
             /\ "strong" \in words <=> answer.result.riskLevel = "low"
        [] answer.ask = "credit" /\ answer.requested > 0 ->
             /\ "within capacity" \in words <=> answer.result.approved
             /\ answer.result.approved => answer.result.risk # "critical"
             /\ ~answer.result.approved => answer.result.risk \in {"high", "critical"}
        [] answer.ask = "sybil" /\ answer.result # Unread ->
             Naming(Subject) # <<>> => "created together" \in words
        [] answer.ask = "decision" ->
             LET counterparty == answer.result.counterparty
                 passport == answer.result.passport
             IN  /\ counterparty.explanation.verdict = "approved" <=> counterparty.allow
                 /\ ~counterparty.allow /\ counterparty.riskLevel \in {"low", "medium"} =>
                      counterparty.explanation.screening # "passed"
                 /\ passport.summary.sybil = "clean" => passport.capabilities.sybilClear
                 /\ passport.summary.risk = "low" <=> passport.overallRiskLevel = "low"
        [] OTHER -> TRUE
=============================================================================
