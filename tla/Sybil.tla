-------------------------------- MODULE Sybil --------------------------------
(***************************************************************************)
(* Sybil detection (src/sybil.ts): the cluster around a wallet, built from *)
(* the transactions of that wallet and the accounts of its counterparties, *)
(* seven signals of its own, five of lib/graph.ts, and the weighted risk.  *)
(* Signals and risk are percent.                                           *)
(***************************************************************************)
EXTENDS GraphSignals, Phrases, SequencesExt, Filter

CONSTANTS
  Unread,         \* the account of a wallet whose read failed
  Unknown,        \* the funder of a wallet that was never seen to receive
  MaxCluster,     \* how many counterparties are looked at (25)
  CreationWindow  \* rounds that count as created together (14515)

ASSUME SybilConstants ==
  /\ MaxCluster \in Nat /\ MaxCluster > 1
  /\ CreationWindow \in Nat

TotalOf(values) == SumFunction(values)
Smaller(a, b) == IF a <= b THEN a ELSE b
Distance(a, b) == IF a >= b THEN a - b ELSE b - a

-----------------------------------------------------------------------------
(* The signals *)

\* The window filter and its -1 count the wallet itself out.
computeCreationClustering(rounds, reference) ==
  LET inWindow == Only(rounds, LAMBDA r : Distance(r, reference) <= CreationWindow)
  IN  IF Len(rounds) <= 1 THEN 0 ELSE Percent(Len(inWindow) - 1, Len(rounds) - 1)

computeInteractionDensity(internal, external) ==
  IF internal + external = 0 THEN 0 ELSE Percent(internal, internal + external)

\* 1 - stddev / mean, the score of balances and of intervals between rounds.
Evenness(values) ==
  LET sum == TotalOf(values)
      spread == Len(values) * TotalOf([i \in DOMAIN values |-> values[i] * values[i]]) - sum * sum
      ratio == IF sum * sum < 10000 THEN (10000 * spread) \div (sum * sum)
               ELSE spread \div ((sum * sum) \div 10000)
  IN  IF Len(values) <= 1 \/ sum = 0 THEN 0
      ELSE 100 - Cardinality({k \in 1 .. 100 : k * k <= ratio})

computeCircularActivity(txs) ==
  LET pairs == {<<txs[i].from, txs[i].to>> : i \in DOMAIN txs}
      both == {{p[1], p[2]} : p \in {q \in pairs : <<q[2], q[1]>> \in pairs}}
  IN  IF pairs = {} THEN 0 ELSE Percent(Cardinality(both), Cardinality({{p[1], p[2]} : p \in pairs}))

\* computeAmountFingerprint and computeFundingCorrelation: 1 - distinct / all.
Repetition(values) ==
  IF Len(values) <= 1 THEN 0 ELSE Percent(Len(values) - Cardinality(ToSet(values)), Len(values))

computeSybilRisk(s) ==
  (20 * s.creationClustering + 15 * s.interactionDensity + 10 * s.balanceSimilarity
   + 5 * s.circularActivity + 8 * s.timingRegularity + 5 * s.amountFingerprint
   + 2 * s.fundingCorrelation + 10 * s.neighborhoodClustering + 8 * s.hubScore
   + 10 * s.intermediateDensity + 7 * s.temporalCorrelation + 50) \div 100

classifySybilRisk(risk) ==
  IF risk >= 70 THEN "critical" ELSE IF risk >= 45 THEN "high"
  ELSE IF risk >= 25 THEN "medium" ELSE "low"

computeSybilConfidence(dataPoints) == Smaller(95, 50 + 12 * dataPoints)

-----------------------------------------------------------------------------
(* The reads *)

\* fetchTransactions: what is kept of the pages that came back.
Transfers(txs) == Only(txs, LAMBDA t : t.from # t.to)

counterpartyCount(txs, w) == Cardinality({i \in DOMAIN txs : w \in {txs[i].from, txs[i].to}})
firstSeen(txs, w) == CHOOSE i \in DOMAIN txs :
  w \in {txs[i].from, txs[i].to} /\ \A j \in DOMAIN txs : w \in {txs[j].from, txs[j].to} => i <= j

\* In a transfer the receiver is counted before the sender.
countedBefore(txs, v, w) ==
  LET n == counterpartyCount(txs, v) m == counterpartyCount(txs, w)
      i == firstSeen(txs, v) j == firstSeen(txs, w)
  IN  n > m \/ (n = m /\ (i < j \/ (i = j /\ txs[i].to = v)))

\* Everyone in a transfer, by number of transfers: the wallet itself comes first.
sortedCounterparties(txs) ==
  LET all == GraphNodes(txs)
      sorted == CHOOSE f \in [1 .. Cardinality(all) -> all] :
        \A i, j \in DOMAIN f : i < j => f[i] # f[j] /\ countedBefore(txs, f[i], f[j])
  IN  SubSeq(sorted, 1, Smaller(MaxCluster, Len(sorted)))

\* fundingSources: the sender of the first transfer in the list to the wallet.
fundingSource(txs, w) ==
  LET received == Only(txs, LAMBDA t : t.to = w)
  IN  IF received = <<>> THEN Unknown ELSE Head(received).from

Intervals(txs) ==
  LET sorted == CHOOSE f \in [DOMAIN txs -> DOMAIN txs] :
        \A i, j \in DOMAIN f : i < j => f[i] # f[j] /\ txs[f[i]].round <= txs[f[j]].round
  IN  [i \in 1 .. (Len(txs) - 1) |-> txs[sorted[i + 1]].round - txs[sorted[i]].round]

\* Mutant: the counterparties' own transfers are read as well.
ownTransfersAll(txs, wallet) == Transfers(txs)

\* The indexer is asked for the transactions of this account only.  (A payment to a
\* third wallet that closes its sender's account to this one would come too.)
ownTransfers(txs, wallet) ==
  Only(Transfers(txs), LAMBDA t : wallet \in {t.from, t.to})

\* The wallet, then its counterparties whose account could be read.
clusterOf(wallet, unread, txs) ==
  <<wallet>> \o Only(sortedCounterparties(txs), LAMBDA w : w \notin unread)

\* The signals over the wallets whose account was read and over the transfers.
SignalsOf(infos, reference, txs, cluster, graph) ==
  LET created == Only([i \in DOMAIN cluster |-> infos[cluster[i]].createdRound], LAMBDA r : r > 0)
      internal == {i \in DOMAIN txs : {txs[i].from, txs[i].to} \subseteq ToSet(cluster)}
  IN  [creationClustering |-> computeCreationClustering(created, reference),
       interactionDensity |->
         computeInteractionDensity(Cardinality(internal), Len(txs) - Cardinality(internal)),
       balanceSimilarity |-> Evenness([i \in DOMAIN cluster |-> infos[cluster[i]].balance]),
       circularActivity |-> computeCircularActivity(txs),
       timingRegularity |-> Evenness(Intervals(txs)),
       amountFingerprint |-> Repetition(Only([i \in DOMAIN txs |-> txs[i].amount], LAMBDA a : a > 0)),
       fundingCorrelation |-> Repetition([i \in DOMAIN cluster |-> fundingSource(txs, cluster[i])]),
       neighborhoodClustering |-> graph.neighborhoodClustering, hubScore |-> graph.hubScore,
       intermediateDensity |-> graph.intermediateDensity,
       temporalCorrelation |-> graph.temporalCorrelation]

\* `s` are the signals, `groups` the sub-groups of the cluster.
generateSybilExplanation(size, s, groups, risk) ==
  {IF size > 1 THEN "created together" ELSE "no cluster",
   CASE risk >= 70 -> "likely a farm" [] risk \in 45 .. 69 -> "suspicious"
     [] risk \in 25 .. 44 -> "worth watching" [] OTHER -> "nothing found"}
  \cup Said({
    <<Graded(s.interactionDensity, 81, 51, <<"internal", "mixed", "mostly external">>), s.interactionDensity > 10>>,
    <<Graded(s.balanceSimilarity, 81, 51, <<"alike", "roughly alike", "">>), s.balanceSimilarity > 50>>,
    <<Graded(s.circularActivity, 51, 21, <<"circular", "bidirectional", "">>), s.circularActivity > 20>>,
    <<"regular", s.timingRegularity > 70>>, <<"uniform amounts", s.amountFingerprint > 50>>,
    <<"one funder", s.fundingCorrelation > 50>>,
    <<Graded(s.neighborhoodClustering, 61, 31, <<"interconnected", "partly so", "">>), s.neighborhoodClustering > 30>>,
    <<"hub", s.hubScore > 70>>,
    <<Graded(s.intermediateDensity, 51, 21, <<"intermediaries", "some of them", "">>), s.intermediateDensity > 20>>,
    <<Graded(s.temporalCorrelation, 61, 31, <<"in step", "nearly in step", "">>), s.temporalCorrelation > 30>>,
    <<"sub-groups", groups > 2>>})

SybilResult(wallet, txs, cluster, signals, groups) ==
  LET dataPoints == {i \in 1 .. 9 :
        <<Len(cluster) >= 5, Len(cluster) >= 3, Len(txs) >= 20, signals.creationClustering > 0,
          signals.timingRegularity > 50, signals.amountFingerprint > 30,
          signals.neighborhoodClustering > 30, signals.hubScore > 50, signals.intermediateDensity > 20>>[i]}
      risk == computeSybilRisk(signals)
  IN  [sybilRisk |-> risk, riskLevel |-> classifySybilRisk(risk), clusterSize |-> Len(cluster),
       confidence |-> computeSybilConfidence(Cardinality(dataPoints)), signals |-> signals,
       explanation |-> generateSybilExplanation(Len(cluster), signals, groups, risk),
       flaggedWallets |-> ToSet(cluster) \ {wallet}]

AssessCluster(wallet, infos, txs, cluster, graph) ==
  SybilResult(wallet, txs, cluster,
    SignalsOf(infos, infos[wallet].createdRound, txs, cluster, graph), graph.subGroupCount)

\* The graph signals are computed over the cluster.
AssessAround(wallet, infos, txs, cluster) ==
  AssessCluster(wallet, infos, txs, cluster, computeGraphSignals(txs, cluster))

(***************************************************************************)
(* detectSybilInternal, from the accounts and the transfers that were      *)
(* read; `unread` are those whose read as a counterparty failed.  The      *)
(* wallet is one of its own counterparties: it is in the cluster twice,    *)
(* and every signal over the list counts it twice.                         *)
(***************************************************************************)
detectSybil(wallet, infos, unread, history) ==
  LET txs == ownTransfers(history, wallet)
  IN  IF infos[wallet] = Unread THEN Unread
      ELSE AssessAround(wallet, infos, txs, clusterOf(wallet, unread, txs))
=============================================================================
