------------------------------ MODULE TrustScore ------------------------------
(***************************************************************************)
(* The trust score of a wallet (src/trust-score.ts) and the credit         *)
(* estimate made from it (src/credit.ts), as operators.                    *)
(*                                                                         *)
(* Units: scores are tenths of a point (0..1000), money is cents, balances *)
(* are thousandths of an ALGO, rounds are counted in days (26 182 rounds). *)
(* A logarithm and a power are the steps of a table, so a score is within  *)
(* a few points of the code's; caps, tiers, guards and defaults are exact. *)
(***************************************************************************)
EXTENDS Phrases, FiniteSets

CONSTANTS
  PageSize,      \* INDEXER_PAGE_SIZE
  MaxPages,      \* MAX_TRANSACTION_PAGES
  GenesisRound,  \* TESTNET_GENESIS_ROUND, in days
  None           \* null

ASSUME TrustScoreConstants ==
  /\ PageSize \in Nat \ {0}
  /\ MaxPages \in Nat \ {0}
  /\ GenesisRound \in Nat \ {0}

Lookback == 38   \* MAX_ROUNDS_LOOKBACK rounds, in whole days

Least(a, b) == IF a <= b THEN a ELSE b
Most(a, b) == IF a >= b THEN a ELSE b
Rounded(n, d) == (2 * n + d) \div (2 * d)

\* log10 in thousandths, from below.
LogPoints == {<<1, 0>>, <<2, 301>>, <<3, 477>>, <<5, 699>>, <<10, 1000>>, <<20, 1301>>,
  <<31, 1491>>, <<51, 1707>>, <<100, 2000>>, <<201, 2303>>, <<401, 2603>>, <<1000, 3000>>,
  <<10000, 4000>>, <<100000, 5000>>}
Log10(n) == LET below == {p \in LogPoints : p[1] <= n}
            IN  (CHOOSE p \in below : \A q \in below : q[1] <= p[1])[2]

-----------------------------------------------------------------------------
(* The parts of the score *)

computeAgeScore(days) ==
  IF days >= 730 THEN 1000
  ELSE (600 * days) \div 730 + (400 * Log10(days + 1)) \div 2864

computeActivityScore(txns, days, assets) ==
  Least(1000, Least(400, (600 * txns) \div days)
              + Least(300, (300 * days) \div 365) + Least(300, 30 * assets))

computeVolumeScore(balance, txns) ==
  Least(1000, Least(500, Log10(Most(1, balance \div 1000)) \div 10) + Least(500, 5 * txns))

computeVelocityScore(txns, days) ==
  IF txns > 100 * days THEN 0
  ELSE IF txns > 50 * days THEN 200
  ELSE IF txns > 20 * days THEN 400
  ELSE IF txns > 5 * days THEN 600
  ELSE IF txns > days THEN 800
  ELSE 1000

computeComplianceScore(balance, txns) ==
  LET balancePenalty == IF balance >= 1000 THEN 0 ELSE Rounded((1000 - balance) * 40, 1000)
      txnPenalty == Rounded(Most(0, 50000 - Log10(txns + 1) * 25), 1000)
  IN  10 * (100 - balancePenalty - txnPenalty)

computeTrustScore(b) ==
  Rounded(20 * b.age + 25 * b.activity + 20 * b.volume + 15 * b.velocity + 20 * b.compliance, 100)

\* Percent kept: all for 180 days, then halved every year, never under 30.
HalfYears == <<84, 71, 59, 50, 42, 35>>
computeStalenessPenalty(days) ==
  LET quarters == (4 * (days - 180)) \div 365
  IN  IF days <= 180 \/ quarters = 0 THEN 100
      ELSE IF quarters > Len(HalfYears) THEN 30 ELSE HalfYears[quarters]

\* Mutant: the cap ends on the first day.
freshWalletCapOff(score, days) == IF days < 1 THEN Least(score, 300) ELSE score

applyFreshWalletCap(score, days) == IF days < 30 THEN Least(score, 300) ELSE score

classifyRisk(score) ==
  IF score >= 700 THEN "low" ELSE IF score >= 450 THEN "medium"
  ELSE IF score >= 200 THEN "high" ELSE "critical"

computeRecommendedLimit(score) ==
  LET tier == IF score >= 800 THEN 150 ELSE IF score >= 600 THEN 120
              ELSE IF score >= 400 THEN 100 ELSE 70
  IN  Rounded(score * tier, 2)

-----------------------------------------------------------------------------
(* The reads and the score *)

(***************************************************************************)
(* fetchTransactionHistory: pages newest first, at most MaxPages of them.  *)
(* `rounds` is the wallet's history, newest first; `answered` pages came   *)
(* back.  A page refused (!res.ok) ends the loop and keeps what was read;  *)
(* a page that throws (a timeout) throws all of it away.                   *)
(***************************************************************************)
fetchTransactionHistory(rounds, answered, threw) ==
  LET kept == Least(Len(rounds), PageSize * Least(answered, MaxPages))
      seen == {rounds[i] : i \in 1 .. IF threw THEN 0 ELSE kept}
  IN  [totalTxns |-> IF threw THEN 0 ELSE kept,
       firstRound |-> IF seen = {} THEN 0 ELSE CHOOSE r \in seen : \A s \in seen : r <= s,
       lastRound |-> IF seen = {} THEN 0 ELSE CHOOSE r \in seen : \A s \in seen : r >= s]

\* The account when fetchAccountInfo failed: every field falls back to zero.
AccountOf(info) ==
  IF info = None THEN [balance |-> 0, assets |-> 0, createdRound |-> 0, lastRound |-> GenesisRound]
  ELSE info

\* accountAgeDays: since its creation, its first transaction seen, or the lookback.
AgeInDays(account, history) ==
  LET createdRound == IF account.createdRound # 0 THEN account.createdRound
                      ELSE IF history.firstRound # 0 THEN history.firstRound
                      ELSE account.lastRound - Lookback
  IN  Most(1, account.lastRound - createdRound)

DaysSinceLastActivity(account, history) ==
  IF history.lastRound > 0 THEN Most(0, account.lastRound - history.lastRound)
  ELSE AgeInDays(account, history)

generateExplanation(account, txns, days, score) ==
  {Graded(days, 366, 31, <<"years of history", "months of history", "new wallet">>),
   Graded(txns, 101, 11, <<"active", "moderately active", "hardly active">>),
   Graded(account.balance, 100001, 1001, <<"well funded", "funded", "low balance">>),
   Graded(score, 700, 400, <<"strong", "moderate", "weak">>)}
  \cup Said({<<"diverse portfolio", account.assets > 5>>})

BreakdownOf(account, txns, days) ==
  [age |-> computeAgeScore(days),
   activity |-> computeActivityScore(txns, days, account.assets),
   volume |-> computeVolumeScore(account.balance, txns),
   velocity |-> computeVelocityScore(txns, days),
   compliance |-> computeComplianceScore(account.balance, txns)]

TrustResult(account, txns, days, idle, breakdown) ==
  LET stale == Rounded(computeTrustScore(breakdown) * computeStalenessPenalty(idle), 100)
      score == applyFreshWalletCap(stale, days)
  IN  [trustScore |-> score, riskLevel |-> classifyRisk(score), approved |-> score >= 400,
       recommendedLimit |-> computeRecommendedLimit(score), breakdown |-> breakdown,
       explanation |-> generateExplanation(account, txns, days, score),
       balance |-> account.balance, totalTxns |-> txns, accountAgeDays |-> days]

ScoreAccount(account, history, days) ==
  TrustResult(account, history.totalTxns, days, DaysSinceLastActivity(account, history),
              BreakdownOf(account, history.totalTxns, days))

\* scoreWalletInternal: from what the two reads returned; it never fails.
scoreWallet(info, history) ==
  LET account == AccountOf(info)
  IN  ScoreAccount(account, history, AgeInDays(account, history))

-----------------------------------------------------------------------------
(* The credit estimate *)

computeBalanceCapacity(balance) == Least(100000, balance \div 20)
computeActivityBonus(txns) == Least(20000, 200 * txns)
computeAgeBonus(days) == Least(15000, (15000 * days) \div 365)

computeRiskPenalty(velocity, compliance) ==
  (IF velocity < 400 THEN Rounded((400 - velocity) * 5000, 400) ELSE 0)
  + (IF compliance < 600 THEN Rounded((600 - compliance) * 10000, 600) ELSE 0)

computeCreditLimit(b) ==
  Most(0, Least(135000, b.balanceCapacity + b.activityBonus + b.ageBonus - b.riskPenalty))

\* A requested amount of 0 is no request.
classifyCreditRisk(limit, requested) ==
  IF requested > 0
    THEN IF limit >= 2 * requested THEN "low" ELSE IF 5 * limit >= 6 * requested THEN "medium"
         ELSE IF 5 * limit >= 4 * requested THEN "high" ELSE "critical"
    ELSE IF limit >= 50000 THEN "low" ELSE IF limit >= 20000 THEN "medium"
         ELSE IF limit >= 5000 THEN "high" ELSE "critical"

computeCreditConfidence(dataPoints) == Most(40, Least(95, 40 + 12 * dataPoints))

generateCreditExplanation(balance, txns, days, limit, requested, approved) ==
  {Graded(balance, 100001, 1001, <<"strong collateral", "moderate collateral", "minimal collateral">>),
   Graded(days, 366, 31, <<"years of history", "months of history", "new account">>),
   Graded(txns, 101, 11, <<"strong activity", "moderate activity", "limited activity">>)}
  \cup Said({<<"within capacity", requested > 0 /\ approved>>,
             <<"exceeds capacity", requested > 0 /\ ~approved>>})

\* estimateCreditWithTrust: with no trust data every part is zero but the penalty.
estimateCredit(trust, requested) ==
  LET known == trust # None
      balance == IF known THEN trust.balance ELSE 0
      txns == IF known THEN trust.totalTxns ELSE 0
      days == IF known THEN trust.accountAgeDays ELSE 0
      velocity == IF known THEN trust.breakdown.velocity ELSE 500
      compliance == IF known THEN trust.breakdown.compliance ELSE 500
      limit == computeCreditLimit([balanceCapacity |-> computeBalanceCapacity(balance),
                 activityBonus |-> computeActivityBonus(txns), ageBonus |-> computeAgeBonus(days),
                 riskPenalty |-> computeRiskPenalty(velocity, compliance)])
      approved == requested > 0 => limit >= requested
      dataPoints == {p \in 1 .. 4 : <<balance > 1000, txns > 10, days > 30, compliance >= 800>>[p]}
  IN  [estimatedLimit |-> limit, risk |-> classifyCreditRisk(limit, requested),
       approved |-> approved, confidence |-> computeCreditConfidence(Cardinality(dataPoints)),
       explanation |-> generateCreditExplanation(balance, txns, days, limit, requested, approved)]
=============================================================================
