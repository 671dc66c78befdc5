------------------------------- MODULE Decisions -------------------------------
(***************************************************************************)
(* The answers made from the other scores: reputation from the contract's  *)
(* counters (src/reputation.ts), sanctions screening (src/lib/sanctions.ts),*)
(* counterparty check (src/counterparty.ts), underwriting up to the system *)
(* limit (src/underwriting.ts; the limit is SystemExposure) and passport   *)
(* (src/passport.ts), as operators.                                        *)
(*                                                                         *)
(* A part that failed is None.  Scores are tenths of a point, the risk of  *)
(* sybil detection and confidences are percent, money is cents.            *)
(***************************************************************************)
EXTENDS Delegations

EventTypes == {"payment", "purchase", "endorsement", "service", "dispute", "refund"}
Negative == {"dispute", "refund"}

-----------------------------------------------------------------------------
(* Reputation *)

\* EVENT_WEIGHTS
Weight == [payment |-> 10, purchase |-> 8, endorsement |-> 8, service |-> 5,
           dispute |-> 20, refund |-> 12]

TotalOver(f, S) == SumFunctionOnSet(f, S)

\* fetchReputationFromContract: a counter whose box cannot be read counts as zero.
readCounters(counters, failed) == [t \in EventTypes |-> IF t \in failed THEN 0 ELSE counters[t]]

computeReputationEventMultiplier(events) ==
  IF events < 3 THEN 50 ELSE IF events < 5 THEN 75 ELSE IF events < 10 THEN 90 ELSE 100

computeWalletAgePenalty(days) == IF days < 30 THEN 50 ELSE 100

computeRecoveryFactor(positive, negative, events) ==
  IF negative = 0 \/ positive = 0 THEN 100
  ELSE 100 + Rounded(20 * positive * Least(50, events), (positive + negative) * 50)

\* Percent left of a thing this old: halved every year, never under 10.
HalfLife(days) == LET quarters == (4 * days) \div 365
                  IN  IF quarters = 0 THEN 100 ELSE IF quarters > 13 THEN 10
                      ELSE <<84, 71, 59, 50, 42, 35, 30, 25, 21, 18, 15, 13, 11>>[quarters]

Scaled(score, percent) == Rounded(score * percent, 100)

\* computeReputationScore, defence by defence; a field of opts may be None.
computeReputationScore(counters, opts) ==
  LET sum(types) == TotalOver([t \in EventTypes |-> counters[t] * Weight[t]], types)
      count(types) == TotalOver(counters, types)
      positive == sum(EventTypes \ Negative)
      negative == sum(Negative)
      events == count(EventTypes)
      verified == IF opts.verifiedRatio = None \/ opts.verifiedRatio >= 100 THEN 100
                  ELSE 50 + Most(0, opts.verifiedRatio) \div 2
      recency == IF opts.idleDays = None \/ opts.idleDays <= 180 THEN 100
                 ELSE HalfLife(opts.idleDays - 180)
      ratio == IF opts.txns = None \/ events <= 10 * Most(1, opts.txns) THEN 100
               ELSE Most(20, (1000 * Most(1, opts.txns)) \div events)
      age == IF opts.ageDays = None THEN 100 ELSE computeWalletAgePenalty(opts.ageDays)
      time == IF opts.eventAge = None THEN 100 ELSE HalfLife(opts.eventAge)
      recovery == computeRecoveryFactor(count(EventTypes \ Negative), count(Negative), events)
      defences == <<verified, computeReputationEventMultiplier(events), recency, ratio, age, time, recovery>>
  IN  IF positive + negative = 0 THEN 0
      ELSE Least(1000, FoldLeft(Scaled, Rounded(1000 * positive, positive + negative), defences))

NoOpts == [verifiedRatio |-> None, idleDays |-> None, txns |-> None, ageDays |-> None, eventAge |-> None]

classifyReputationRisk(score) == Graded4(score, <<"low", "medium", "high", "critical">>)

computeReputationConfidence(events, recent) ==
  LET points == {n \in {50, 20, 10, 5} : events >= n}
  IN  Least(95, 40 + 11 * (Cardinality(points) + (IF recent THEN 1 ELSE 0)))

generateReputationExplanation(counters, score, events) ==
  IF events = 0 THEN {"no events"}
  ELSE {t \in EventTypes : counters[t] > 0} \cup {Graded4(score, <<"strong", "moderate", "weak", "poor">>)}

ReputationResult(counters, score, events) ==
  [reputation |-> score, riskLevel |-> classifyReputationRisk(score), totalEvents |-> events,
   explanation |-> generateReputationExplanation(counters, score, events),
   confidence |-> computeReputationConfidence(events, events > 0)]

\* computeReputation: no caller passes the options the defences need.
computeReputation(counters) ==
  ReputationResult(counters, computeReputationScore(counters, NoOpts), TotalOver(counters, EventTypes))

-----------------------------------------------------------------------------
(* Screening and the counterparty check *)

\* checkSanctions: a provider that throws leaves the wallet unknown.
checkSanctions(wallet, denyList, threw) ==
  IF threw THEN "unknown" ELSE IF wallet \in denyList THEN "denied" ELSE "allowed"

computeCombinedScore(onChain, delegation) == Rounded(6 * onChain + 4 * delegation, 10)

computeConfidence(score) ==
  IF score >= 600 THEN Least(100, 70 + Rounded(30 * (score - 600), 400))
  ELSE IF score >= 400 THEN 50 + Rounded(20 * (score - 400), 200)
  ELSE Most(30, 30 + Rounded(20 * score, 400))

decideAllow(score, confidence) == score >= 400 /\ confidence >= 45

ScoreOf(result) == IF result = None THEN 0 ELSE result.trustScore

classifyCounterpartyRisk(score) == Graded4(score, <<"low", "medium", "high", "critical">>)

\* Mutant: the verdict is read off the score.
explanationByScore(onChain, delegation, combined, allow, sanctions) ==
  [history |-> "", sponsors |-> "",
   verdict |-> IF combined >= 400 THEN "approved" ELSE "score below threshold",
   screening |-> IF sanctions = "allowed" THEN "passed" ELSE sanctions]

\* With the line checkCounterparty adds about the screening.
generateCounterpartyExplanation(onChain, delegation, combined, allow, sanctions) ==
  [history |-> Graded(onChain, 700, 400, <<"strong", "moderate", "weak">>),
   sponsors |-> IF delegation = 0 THEN "no data"
                ELSE Graded(delegation, 700, 400, <<"well", "moderately", "hardly">>),
   verdict |-> IF allow THEN "approved" ELSE "score below threshold",
   screening |-> IF sanctions = "allowed" THEN "passed" ELSE sanctions]

checkCounterparty(trust, delegation, sanctions) ==
  LET score == computeCombinedScore(ScoreOf(trust), ScoreOf(delegation))
      confidence == computeConfidence(score)
      allow == decideAllow(score, confidence) /\ sanctions = "allowed"
  IN  [allow |-> allow, confidence |-> confidence,
       riskLevel |-> classifyCounterpartyRisk(score), trustScore |-> score,
       explanation |->
         generateCounterpartyExplanation(ScoreOf(trust), ScoreOf(delegation), score, allow, sanctions)]

-----------------------------------------------------------------------------
(* Underwriting *)

\* factors: a sequence of [name, score, weight], the weights in percent.
computeCompositeScore(factors) ==
  LET weights == SumFunction([i \in DOMAIN factors |-> factors[i].weight])
      weighted == SumFunction([i \in DOMAIN factors |-> factors[i].score * factors[i].weight])
  IN  IF weights = 0 THEN 0 ELSE Most(0, Least(1000, Rounded(weighted, weights)))

computeUnderwritingLimit(composite, creditLimit, sybilRisk, reputation) ==
  LET byScore == (creditLimit * (500 + composite)) \div 1000
      bySybil == (byScore * (1000 - 7 * sybilRisk)) \div 1000
  IN  Most(0, Least(135000, (bySybil * (1000 + (3 * reputation) \div 10)) \div 1000))

decideApproval(composite, sybilRisk, reputation) ==
  /\ sybilRisk < 70
  /\ composite >= 300
  /\ reputation >= 100 \/ composite >= 500

computeUnderwritingConfidence(factors) ==
  LET told == {i \in DOMAIN factors : factors[i].score > 0}
  IN  IF factors = <<>> THEN 40
      ELSE Most(40, Least(95, 40 + Rounded(55 * Cardinality(told), Len(factors))))

\* Mutant: a wallet that could not be screened passes.
approvedUnlessDenied(composite, sybilRisk, reputation, sanctions) ==
  decideApproval(composite, sybilRisk, reputation) /\ sanctions # "denied"

approvedBy(composite, sybilRisk, reputation, sanctions) ==
  decideApproval(composite, sybilRisk, reputation) /\ sanctions = "allowed"

classifyUnderwritingRisk(score) == Graded4(score, <<"low", "medium", "high", "critical">>)

generateUnderwritingExplanation(factors, approved) ==
  LET named(from, below) ==
        {factors[i].name : i \in {j \in DOMAIN factors : factors[j].score \in from .. below - 1}}
  IN  [verdict |-> IF approved THEN "approved" ELSE "score below threshold",
       strong |-> named(700, 1001), weak |-> named(0, 400), critical |-> named(0, 200)]

\* underwrite, up to capToSystemCapacity; a sybil part that failed scores 50.
underwrite(r) ==
  LET sybilRisk == IF r.sybil = None THEN 0 ELSE r.sybil.sybilRisk
      reputation == IF r.reputation = None THEN 0 ELSE r.reputation.reputation
      factors == <<[name |-> "trust", score |-> ScoreOf(r.trust), weight |-> 35],
                   [name |-> "delegation", score |-> ScoreOf(r.delegation), weight |-> 25],
                   [name |-> "sybil", score |-> IF r.sybil = None THEN 500 ELSE 10 * (100 - sybilRisk), weight |-> 20],
                   [name |-> "reputation", score |-> reputation, weight |-> 20]>>
      composite == computeCompositeScore(factors)
      creditLimit == IF r.credit = None THEN 0 ELSE r.credit.estimatedLimit
      approved == approvedBy(composite, sybilRisk, reputation, r.sanctions)
  IN  [approved |-> approved, riskLevel |-> classifyUnderwritingRisk(composite), compositeScore |-> composite,
       explanation |-> generateUnderwritingExplanation(factors, approved),
       recommendedLimit |->
         IF approved THEN computeUnderwritingLimit(composite, creditLimit, sybilRisk, reputation) ELSE 0,
       confidence |-> computeUnderwritingConfidence(factors)]

-----------------------------------------------------------------------------
(* The passport *)

computeIdentityStrength(trustScore, days, txns, balance) ==
  LET age == Least(1000, (1000 * days) \div 730)
      activity == Least(1000, 2 * txns)
      held == Least(1000, Log10(Most(1, balance \div 1000)) \div 10)
  IN  Least(1000, Rounded(40 * trustScore + 25 * age + 20 * activity + 15 * held, 100))

computePaymentReliability(trustScore, reputation, creditLimit) ==
  Least(1000, Rounded(40 * trustScore + 35 * reputation + 25 * Least(1000, creditLimit \div 100), 100))

RiskOf == [low |-> 100, medium |-> 350, high |-> 650, critical |-> 900]

computeOverallRisk(trustRisk, sybilRisk, reputationRisk, creditRisk) ==
  Least(1000, Rounded(30 * RiskOf[trustRisk] + 250 * sybilRisk
                      + 25 * RiskOf[reputationRisk] + 20 * RiskOf[creditRisk], 100))

classifyOverallRisk(risk) ==
  IF risk <= 250 THEN "low" ELSE IF risk <= 500 THEN "medium"
  ELSE IF risk <= 750 THEN "high" ELSE "critical"

generatePassportSummary(identity, reputation, reliability, risk, sybilRisk) ==
  [identity |-> Graded(identity, 700, 400, <<"well established", "moderately established", "new">>),
   reputation |-> Graded(reputation, 700, 400, <<"high", "moderate", "untested">>),
   payer |-> Graded(reliability, 700, 400, <<"reliable", "moderate", "unproven">>),
   risk |-> Graded(risk, 501, 251, <<"high", "moderate", "low">>),
   sybil |-> Graded(sybilRisk, 50, 25, <<"flagged", "some concerns", "clean">>)]

generatePassport(r, blockRound) ==
  LET creditLimit == IF r.credit = None THEN 0 ELSE r.credit.estimatedLimit
      sybilRisk == IF r.sybil = None THEN 0 ELSE r.sybil.sybilRisk
      reputation == IF r.reputation = None THEN 0 ELSE r.reputation.reputation
      levelOf(result) == IF result = None THEN "critical" ELSE result.riskLevel
      risk == computeOverallRisk(levelOf(r.trust), sybilRisk, levelOf(r.reputation),
                                 IF r.credit = None THEN "critical" ELSE r.credit.risk)
      identity == IF r.trust = None THEN computeIdentityStrength(0, 0, 0, 0)
                  ELSE computeIdentityStrength(r.trust.trustScore, r.trust.accountAgeDays,
                                               r.trust.totalTxns, r.trust.balance)
      reliability == computePaymentReliability(ScoreOf(r.trust), reputation, creditLimit)
  IN  [blockRound |-> blockRound, risk |-> risk, overallRiskLevel |-> classifyOverallRisk(risk),
       identityStrength |-> identity, paymentReliability |-> reliability,
       summary |-> generatePassportSummary(identity, reputation, reliability, risk, sybilRisk),
       creditLimit |-> creditLimit, sybilRisk |-> sybilRisk, reputation |-> reputation,
       dataSources |-> {part \in {"trust", "delegation", "credit", "sybil", "reputation"} : r[part] # None},
       capabilities |-> [creditEligible |-> creditLimit > 0, sybilClear |-> sybilRisk < 45,
         reputationActive |-> r.reputation # None /\ r.reputation.totalEvents > 0]]
=============================================================================
