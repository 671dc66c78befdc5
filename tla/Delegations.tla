----------------------------- MODULE Delegations -----------------------------
(***************************************************************************)
(* What the service reads out of the delegation registry: the list of a    *)
(* wallet's active delegations replayed from indexer pages, the score of   *)
(* that list (src/delegation.ts) and the trust graph with its what-if      *)
(* questions (src/trust-graph.ts), as operators.                           *)
(*                                                                         *)
(* A page is a sequence of transactions [kind, agent, sponsor, amount] in  *)
(* the order the indexer gives them; kind is "add", "revoke", "other" (any *)
(* other call of the registry) or "pay" (no call at all).  A read records  *)
(* what the two requests returned: [app, page, legacy, transfers], where   *)
(* app and legacy are "ok", "refused" (!res.ok) or "threw".                *)
(* Amounts are whole ALGO; scores as in TrustScore.                        *)
(***************************************************************************)
EXTENDS TrustScore, SequencesExt, Filter

CONSTANT Branching   \* MAX_BRANCHING_FACTOR, and the same number in the trust graph

ASSUME BranchingPositive == Branching \in Nat \ {0}

-----------------------------------------------------------------------------
(* The score of a list of delegations *)

computeDepthScore(depth) ==
  IF depth <= 3 THEN 1000 - 200 * depth ELSE Most(0, 400 - 100 * (depth - 3))

computeSponsorQualityScore(quality) == 10 * Rounded(Least(1000, quality), 10)

computeSponsorCountScore(count, quality) ==
  Least(1000, Rounded(count * 200 * Most(100, quality), 1000))

computeAmountScore(amount) ==
  IF amount >= 10000 THEN 1000 ELSE 10 * Rounded(Log10(amount + 1) * 25, 1000)

computeDelegationTrustScore(b) ==
  Rounded(35 * b.depth + 30 * b.quality + 15 * b.count + 20 * b.amount, 100)

-----------------------------------------------------------------------------
(* Lists out of pages *)

\* Map.set keeps the place of a key that is there; Map.delete frees it.
MapSet(list, to, amount) ==
  IF \E i \in DOMAIN list : list[i].to = to
    THEN [i \in DOMAIN list |-> IF list[i].to = to THEN [to |-> to, amount |-> amount] ELSE list[i]]
    ELSE Append(list, [to |-> to, amount |-> amount])
MapDelete(list, to) == Only(list, LAMBDA d : d.to # to)

\* One transaction whose sponsor is the wallet, applied to the map of the active ones.
replayStep(list, tx) ==
  CASE tx.kind = "revoke" -> MapDelete(list, tx.agent)
    [] tx.kind = "add"    -> MapSet(list, tx.agent, tx.amount)
    [] OTHER              -> list

\* Mutant: the wallet's calls in either role.
callsNaming(page, wallet) ==
  Only(page, LAMBDA tx : tx.kind # "pay" /\ (tx.sponsor = wallet \/ tx.agent = wallet))

\* The calls by this sponsor; an account list with no sponsor counts as the wallet's.
callsOf(page, wallet) ==
  Only(page, LAMBDA tx : tx.kind # "pay" /\ tx.sponsor \in {wallet, None})

HasCalls(page) == \E i \in DOMAIN page : page[i].kind # "pay"

\* What a wallet sent elsewhere, as delegations: the compatibility path.
SentElsewhere(transfers, wallet) == Only(transfers, LAMBDA d : d.to # wallet)

\* fetchDelegationsFromIndexer
fetchDelegations(wallet, read) ==
  IF read.app = "threw" THEN <<>>
  ELSE IF read.app = "ok" /\ HasCalls(read.page)
    THEN FoldLeft(replayStep, <<>>, callsOf(read.page, wallet))
  ELSE IF read.legacy = "ok" THEN SentElsewhere(read.transfers, wallet)
  ELSE <<>>

\* fetchDelegationEdges: as above, but the sponsor must be named, and payments
\* among the answers of the first query are used before the second is made.
fetchDelegationEdges(wallet, read) ==
  LET paid == Only(read.page, LAMBDA tx : tx.kind = "pay" /\ tx.agent # wallet)
  IN  IF read.app = "threw" THEN <<>>
      ELSE IF read.app = "ok" /\ HasCalls(read.page)
        THEN FoldLeft(replayStep, <<>>, Only(read.page,
               LAMBDA tx : tx.kind # "pay" /\ tx.sponsor = wallet))
      ELSE IF read.app = "ok" /\ paid # <<>>
        THEN [i \in DOMAIN paid |-> [to |-> paid[i].agent, amount |-> paid[i].amount]]
      ELSE IF read.legacy = "ok" THEN SentElsewhere(read.transfers, wallet)
      ELSE <<>>

-----------------------------------------------------------------------------
(* Walks *)

\* The first Branching targets of a list that were not seen before, once each.
newTargets(list, seen) ==
  LET fresh == FoldLeft(LAMBDA acc, d : IF d.to \in seen \cup ToSet(acc) THEN acc
                                        ELSE Append(acc, d.to), <<>>, list)
  IN  SubSeq(fresh, 1, Least(Branching, Len(fresh)))

\* One turn of the loop: take the head of the queue and queue its new targets.
WalkStep(walk, lists, maxDepth) ==
  LET here == Head(walk.queue)
      next == IF here.depth >= maxDepth THEN <<>> ELSE newTargets(lists[here.at], DOMAIN walk.depth)
  IN  [queue |-> Tail(walk.queue) \o [i \in DOMAIN next |-> [at |-> next[i], depth |-> here.depth + 1]],
       depth |-> [w \in DOMAIN walk.depth \cup ToSet(next) |->
                    IF w \in DOMAIN walk.depth THEN walk.depth[w] ELSE here.depth + 1],
       expanded |-> IF here.depth >= maxDepth THEN walk.expanded
                    ELSE Append(walk.expanded, here)]

\* The breadth-first walk from a wallet; every wallet is taken at most once.
Walk(wallet, lists, maxDepth) ==
  LET walk[n \in Nat] ==
        IF n = 0 THEN [queue |-> <<[at |-> wallet, depth |-> 0]>>,
                       depth |-> [w \in {wallet} |-> 0], expanded |-> <<>>]
        ELSE IF walk[n - 1].queue = <<>> THEN walk[n - 1]
        ELSE WalkStep(walk[n - 1], lists, maxDepth)
  IN  walk[Cardinality(DOMAIN lists)]

MaxOf(S) == CHOOSE x \in S : \A y \in S : y <= x

\* The depth of the deepest wallet the walk of scoreDelegation reaches.
DeepestDepth(wallet, lists) == LET d == Walk(wallet, lists, Cardinality(DOMAIN lists)).depth
                               IN  MaxOf({d[w] : w \in DOMAIN d})

SumOf(list) == SumFunction([i \in DOMAIN list |-> list[i].amount])

\* No score above the best known one of the first five, less 20 points a hop.
sponsorCap(score, known, depth) ==
  IF known = {} THEN score ELSE Least(score, Most(0, MaxOf(known) - 200 * depth))

(***************************************************************************)
(* scoreDelegationInternal: `own` is the list of the wallet itself, `lists` *)
(* what the delegation cache holds or fetches for every wallet, `scores`   *)
(* the trust scores of the wallets (None where the fetch failed).  The     *)
(* trusted ancestors are none: the only anchor is the wallet itself, and   *)
(* that is visited before the walk for them starts.                        *)
(***************************************************************************)
\* The lines about a trust anchor and trusted ancestors have no case here.
DelegationExplanation(own, depth, quality, unknown, score) ==
  {IF depth = 0 THEN "no chain" ELSE "chain",
   Graded(score, 700, 400, <<"strong", "moderate", "weak">>)}
  \cup Said({<<"delegations", own # <<>> >>,
             <<Graded(quality, 701, 401, <<"good sponsors", "fair sponsors", "poor sponsors">>),
               quality > 400 \/ own # <<>> >>,
             <<"sponsors not read", unknown > 0>>})

DelegationResult(own, scores, depth) ==
  LET first == {own[i].to : i \in 1 .. Least(5, Len(own))}
      known == {scores[w] : w \in first} \ {None}
      answered == {i \in 1 .. Least(5, Len(own)) : scores[own[i].to] # None}
      total == SumFunction([i \in answered |-> scores[own[i].to]])
      quality == IF answered = {} THEN 0 ELSE total \div Cardinality(answered)
      amount == SumOf(own)
      raw == computeDelegationTrustScore(
               [depth |-> computeDepthScore(depth), quality |-> computeSponsorQualityScore(quality),
                count |-> computeSponsorCountScore(Len(own), quality),
                amount |-> computeAmountScore(amount)])
      score == sponsorCap(raw, known, depth)
  IN  [trustScore |-> score, riskLevel |-> classifyRisk(score), approved |-> score >= 400,
       recommendedLimit |-> computeRecommendedLimit(score),
       explanation |-> DelegationExplanation(own, depth, quality,
         Least(5, Len(own)) - Cardinality(answered), score),
       depth |-> depth, sponsorCount |-> Len(own), trustedAncestors |-> 0]

scoreDelegation(wallet, own, lists, scores) ==
  DelegationResult(own, scores, IF own = <<>> THEN 0 ELSE DeepestDepth(wallet, lists))

-----------------------------------------------------------------------------
(* The trust graph *)

DepthOf(e, wallet) == IF e.depth # None THEN e.depth ELSE IF e.from = wallet THEN 1 ELSE 2

computeExposure(edges, wallet) ==
  LET direct == SumOf(Only(edges, LAMBDA e : e.from = wallet))
      indirect == SumOf(Only(edges, LAMBDA e : e.from # wallet))
      depths == IF edges = <<>> THEN {1} ELSE {DepthOf(edges[i], wallet) : i \in DOMAIN edges}
  IN  [totalExposure |-> direct + indirect, directExposure |-> direct,
       exposureByDepth |-> [d \in depths |->
         SumOf(Only(edges, LAMBDA e : DepthOf(e, wallet) = d))],
       maxLossIfSponsorFails |-> direct]

\* The weaker end of a direct edge; an end that scores 0 does not count.
WeakestLink(a, b) == IF a = 0 THEN b ELSE IF b = 0 THEN a ELSE Least(a, b)

MaxDepth == 5

\* The edges of every wallet the walk expanded, in walk order.
WalkedEdges(expanded, lists) ==
  LET edgesAt(at, depth) == [i \in DOMAIN lists[at] |->
        [from |-> at, to |-> lists[at][i].to, amount |-> lists[at][i].amount, depth |-> depth]]
  IN  FoldLeft(LAMBDA all, here : all \o edgesAt(here.at, here.depth + 1), <<>>, expanded)

GraphResult(wallet, scores, reached, edges) ==
  LET directTo == {edges[i].to : i \in {j \in DOMAIN edges : edges[j].from = wallet}}
      remaining(s) == computeExposure(
        Only(edges, LAMBDA e : ~(e.from = wallet /\ e.to = s)), wallet).totalExposure
      score(w) == IF scores[w] = None THEN 0 ELSE scores[w]
  IN  [nodes |-> reached, edges |-> edges, exposure |-> computeExposure(edges, wallet),
       depth |-> Least(MaxDepth, Cardinality(DOMAIN reached) - 1),
       paths |-> [s \in directTo |-> WeakestLink(score(wallet), score(s))],
       whatIfs |-> [s \in directTo |-> remaining(s)]]

analyzeTrustGraph(wallet, lists, scores) ==
  LET walk == Walk(wallet, lists, MaxDepth)
  IN  GraphResult(wallet, scores, walk.depth, WalkedEdges(walk.expanded, lists))

\* Mutant: only what the lost sponsor delegates itself is dropped.
withoutSource(edges, lost) == Only(edges, LAMBDA e : e.from # lost)

\* The edges a lost sponsor is an end of are dropped from the finished analysis.
withoutSponsor(edges, lost) == Only(edges, LAMBDA e : lost \notin {e.from, e.to})

simulateSponsorLoss(graph, wallet, lost) ==
  LET edges == withoutSponsor(graph.edges, lost)
  IN  [graph EXCEPT !.edges = edges, !.exposure = computeExposure(edges, wallet),
         !.paths = [s \in DOMAIN graph.paths \ {lost} |-> graph.paths[s]],
         !.whatIfs = <<>>]

simulateSponsorAdd(graph, wallet, sponsor, amount) ==
  LET edges == Append(graph.edges, [from |-> sponsor, to |-> wallet, amount |-> amount, depth |-> None])
  IN  [graph EXCEPT !.edges = edges, !.exposure = computeExposure(edges, wallet), !.whatIfs = <<>>]
=============================================================================
