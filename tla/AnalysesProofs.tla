---------------------------- MODULE AnalysesProofs ----------------------------
(***************************************************************************)
(* Proofs about Analyses: the inductive invariant of the chain and what    *)
(* every answer computed from it keeps.  Each part below is about one of   *)
(* the algorithms the answers are made of: the searches of lib/graph.ts,   *)
(* the trust score, the reputation, sybil detection, the decisions, the    *)
(* replay of delegations, the words, and the walk over the delegations.    *)
(***************************************************************************)
EXTENDS Analyses, CollectionProofs
-----------------------------------------------------------------------------
(***************************************************************************)
(* Functions defined by recursion over all of Nat.                         *)
(***************************************************************************)
\* f starts with start and goes on by step.
Iterates(f, start, step) == f[0] = start /\ \A n \in Nat : f[n + 1] = step[f[n]]

\* Such a function exists with values in V.
Iterable(V, start, step) == \E f \in [Nat -> V] : Iterates(f, start, step)

\* Starting in V and stepping inside V defines a function on all of Nat.
LEMMA IterationExists ==
  ASSUME NEW V, NEW start \in V, NEW step \in [V -> V]
  PROVE  Iterable(V, start, step)
<1> DEFINE Obeys(g, n) == g[0] = start /\ \A i \in 1..n : g[i] = step[g[i - 1]]
           G == [n \in Nat |-> CHOOSE g \in [0..n -> V] : Obeys(g, n)]
           f == [n \in Nat |-> G[n][n]]
<1>1. ASSUME NEW n \in Nat PROVE G[n] \in [0..n -> V] /\ Obeys(G[n], n)
  <2> DEFINE turns == [i \in 1..n |-> step]
  <2>1. turns \in [1..n -> [V -> V]] /\ \A i \in 1..n : turns[i] = step
    OBVIOUS
  <2> HIDE DEF turns
  <2>2. Recursive(n, V, start, turns)
    BY <2>1, RecursionDefines
  <2>3. PICK g \in [0..n -> V] : g[0] = start /\ \A i \in 1..n : g[i] = turns[i][g[i - 1]]
    BY <2>2 DEF Recursive
  <2>4. Obeys(g, n)
    BY <2>1, <2>3
  <2>5. G[n] = CHOOSE h \in [0..n -> V] : Obeys(h, n)
    OBVIOUS
  <2> HIDE DEF G, Obeys
  <2> QED BY <2>4, <2>5, Zenon
<1>2. \A n \in Nat : f[n] = G[n][n]
  OBVIOUS
<1> HIDE DEF G, f
<1>3. ASSUME NEW n \in Nat PROVE G[n + 1][n] = G[n][n]
  <2> DEFINE Bad == {i \in 0..n : G[n + 1][i] # G[n][i]}
  <2>1. SUFFICES ASSUME Bad # {} PROVE FALSE
    BY <2>1
  <2>2. 0 \notin Bad
    BY <1>1
  <2>3. PICK m \in 1..n : m \in Bad /\ m - 1 \in 0..n /\ m - 1 \notin Bad
    <3>1. Bad \in SUBSET (0..n)
      OBVIOUS
    <3> HIDE DEF Bad
    <3> QED BY <2>1, <2>2, <3>1, FirstFailure
  <2>4. m \in 1..(n + 1)
    BY <2>3
  <2>5. G[n + 1][m] = step[G[n + 1][m - 1]] /\ G[n][m] = step[G[n][m - 1]]
    BY <1>1, <2>3, <2>4
  <2> QED BY <2>3, <2>5
<1>4. f[0] = start
  BY <1>1, <1>2
<1>5. ASSUME NEW n \in Nat PROVE f[n + 1] = step[f[n]]
  <2>1. n + 1 \in Nat /\ n + 1 \in 1..(n + 1) /\ (n + 1) - 1 = n
    OBVIOUS
  <2>2. G[n + 1][n + 1] = step[G[n + 1][n]]
    BY <1>1, <2>1
  <2> QED BY <1>2, <1>3, <2>1, <2>2
<1>6. f \in [Nat -> V]
  <2>1. \A n \in Nat : f[n] \in V
    BY <1>1, <1>2
  <2> QED BY <2>1 DEF f
<1> QED BY <1>4, <1>5, <1>6 DEF Iterable, Iterates

-----------------------------------------------------------------------------
(***************************************************************************)
(* The graph of sybil detection.                                           *)
(***************************************************************************)
\* An edge joins both its ends, and they differ.
Undirected(adj) ==
  \A u \in DOMAIN adj : \A v \in adj[u] : v \in DOMAIN adj /\ v # u /\ u \in adj[v]

\* buildAdjacencyList enters an edge at both of its ends, and no loop.
LEMMA GraphUndirected ==
  ASSUME NEW txs
  PROVE  Undirected(buildAdjacencyList(txs))
<1> DEFINE adj == buildAdjacencyList(txs)
           linked(u, v) == \E i \in DOMAIN txs : {txs[i].from, txs[i].to} = {v, u}
<1>1. /\ DOMAIN adj = GraphNodes(txs)
      /\ \A u \in GraphNodes(txs) : adj[u] = {v \in GraphNodes(txs) \ {u} : linked(u, v)}
  BY DEF buildAdjacencyList
<1>2. \A u, v : linked(u, v) => linked(v, u)
  OBVIOUS
<1> HIDE DEF adj, linked
<1> QED BY <1>1, <1>2 DEF Undirected, adj

\* Counting common neighbours edge by edge counts the joined pairs of neighbours.
LEMMA BatchCountsPairs ==
  ASSUME NEW adj, Undirected(adj), NEW w \in DOMAIN adj
  PROVE  computeAllClusteringCoefficients(adj)[w] = computeClusteringCoefficient(adj, w)
<1> DEFINE around == getNeighbors(adj, w)
           batch == {p \in EdgesOf(adj) : w \notin p /\ \A u \in p : w \in getNeighbors(adj, u)}
           pairs == {p \in Pairs(around) : Joined(adj, p)}
<1>1. around = adj[w] /\ \A u \in DOMAIN adj : getNeighbors(adj, u) = adj[u]
  BY DEF getNeighbors
<1>2. \A p : p \in batch => p \in pairs
  <2> SUFFICES ASSUME NEW p \in batch PROVE p \in pairs
    OBVIOUS
  <2>1. p \in SUBSET DOMAIN adj /\ Cardinality(p) = 2 /\ Joined(adj, p) /\ \A u \in p : w \in adj[u]
    BY <1>1 DEF EdgesOf, Pairs
  <2>2. \A u \in p : u \in around
    BY <1>1, <2>1 DEF Undirected
  <2> QED BY <2>1, <2>2 DEF Pairs
<1>3. \A p : p \in pairs => p \in batch
  <2> SUFFICES ASSUME NEW p \in pairs PROVE p \in batch
    OBVIOUS
  <2>1. p \in SUBSET adj[w] /\ Cardinality(p) = 2 /\ Joined(adj, p)
    BY <1>1 DEF Pairs
  <2>2. \A u \in p : u \in DOMAIN adj /\ u # w /\ w \in adj[u]
    BY <2>1 DEF Undirected
  <2>3. p \in EdgesOf(adj)
    BY <2>1, <2>2 DEF EdgesOf, Pairs
  <2> QED BY <1>1, <2>2, <2>3
<1>4. batch = pairs
  BY <1>2, <1>3
<1>5. computeAllClusteringCoefficients(adj)[w] = Coefficient(Cardinality(batch), Cardinality(adj[w]))
  BY DEF computeAllClusteringCoefficients, commonCount
<1>6. computeClusteringCoefficient(adj, w) = Coefficient(Cardinality(pairs), Cardinality(around))
  BY DEF computeClusteringCoefficient
<1> HIDE DEF batch, pairs, around
<1> QED BY <1>1, <1>4, <1>5, <1>6

\* No edge leaves S within a set.
Closed(adj, S, within) == \A w \in S : getNeighbors(adj, w) \cap within \subseteq S

\* What a turn of the search adds, and the search.
Widen(adj, within, S) == S \cup UNION {getNeighbors(adj, u) \cap within : u \in S}

Reach(adj, start, within) ==
  CHOOSE f : f = [n \in Nat |-> IF n = 0 THEN {start}
                   ELSE f[n - 1] \cup UNION {getNeighbors(adj, u) \cap within : u \in f[n - 1]}]

\* The search from a wallet stays inside the cluster and widens turn by turn.
LEMMA ReachWidens ==
  ASSUME NEW adj, NEW within, NEW start \in within
  PROVE  /\ Reach(adj, start, within) \in [Nat -> SUBSET within]
         /\ Reach(adj, start, within)[0] = {start}
         /\ \A n \in Nat : Reach(adj, start, within)[n + 1] =
                           Widen(adj, within, Reach(adj, start, within)[n])
<1> DEFINE step == [S \in SUBSET within |-> Widen(adj, within, S)]
           follows(f) == f = [n \in Nat |-> IF n = 0 THEN {start}
                 ELSE f[n - 1] \cup UNION {getNeighbors(adj, u) \cap within : u \in f[n - 1]}]
           R == Reach(adj, start, within)
<1>1. step \in [SUBSET within -> SUBSET within] /\ {start} \in SUBSET within
  BY DEF Widen
<1>2. \A S \in SUBSET within : step[S] = Widen(adj, within, S)
  OBVIOUS
<1> HIDE DEF step
<1>3. PICK g \in [Nat -> SUBSET within] : Iterates(g, {start}, step)
  BY <1>1, IterationExists DEF Iterable
<1>4. follows(g)
  <2>1. \A n \in Nat : n # 0 =>
          g[n] = g[n - 1] \cup UNION {getNeighbors(adj, u) \cap within : u \in g[n - 1]}
    <3> SUFFICES ASSUME NEW n \in Nat, n # 0
                 PROVE  g[n] = Widen(adj, within, g[n - 1])
      BY DEF Widen
    <3>1. n - 1 \in Nat /\ (n - 1) + 1 = n
      OBVIOUS
    <3> QED BY <1>2, <1>3, <3>1 DEF Iterates
  <2>2. g = [n \in Nat |-> g[n]] /\ g[0] = {start}
    BY <1>3 DEF Iterates
  <2> QED BY <2>1, <2>2, Zenon
<1>5. follows(R)
  <2>1. R = CHOOSE f : follows(f)
    BY DEF Reach
  <2> HIDE DEF follows, R
  <2> QED BY <1>4, <2>1, Zenon
<1> HIDE DEF R
<1>6. R[0] = {start}
  BY <1>5, Zenon
<1>7. \A n \in Nat : n # 0 => R[n] = Widen(adj, within, R[n - 1])
  BY <1>5, Zenon DEF Widen
<1>8. ASSUME NEW n \in Nat PROVE R[n + 1] = Widen(adj, within, R[n])
  <2>1. n + 1 \in Nat /\ n + 1 # 0 /\ (n + 1) - 1 = n
    OBVIOUS
  <2> QED BY <1>7, <2>1
<1>9. R \in [Nat -> SUBSET within]
  <2> DEFINE Bad == {n \in Nat : R[n] \notin SUBSET within}
  <2>1. Bad = {}
    <3> SUFFICES ASSUME Bad # {} PROVE FALSE
      OBVIOUS
    <3>1. Bad \in SUBSET Nat
      OBVIOUS
    <3>2. PICK m \in Bad : \A n \in Bad : m <= n
      <4> HIDE DEF Bad
      <4> QED BY <3>1, LeastNumber
    <3>3. m # 0
      BY <1>6, <3>2
    <3>4. m - 1 \in Nat /\ m - 1 \notin Bad
      BY <3>2, <3>3
    <3>5. R[m] = Widen(adj, within, R[m - 1])
      BY <1>7, <3>2, <3>3
    <3> QED BY <3>2, <3>4, <3>5 DEF Widen
  <2>2. R = [n \in Nat |-> R[n]]
    BY <1>5, Zenon
  <2>3. \A n \in Nat : R[n] \in SUBSET within
    BY <2>1
  <2> QED BY <2>2, <2>3, Zenon
<1> QED BY <1>6, <1>8, <1>9 DEF R

\* What is reached within so many turns as there are wallets is closed, and lies
\* in every closed set that has the start.
LEMMA ComponentIsClosed ==
  ASSUME NEW adj, NEW within, IsFiniteSet(within), NEW start \in within
  PROVE  /\ start \in bfs(adj, start, within)
         /\ bfs(adj, start, within) \subseteq within
         /\ Closed(adj, bfs(adj, start, within), within)
         /\ \A S \in SUBSET within : start \in S /\ Closed(adj, S, within) =>
              bfs(adj, start, within) \subseteq S
<1> DEFINE R == Reach(adj, start, within)
           N == Cardinality(within)
<1>1. /\ R \in [Nat -> SUBSET within]
      /\ R[0] = {start}
      /\ \A n \in Nat : R[n + 1] = Widen(adj, within, R[n])
  BY ReachWidens
<1>2. bfs(adj, start, within) = R[N]
  BY DEF bfs, Reach
<1>3. N \in Nat
  BY FS_CardinalityType
<1> HIDE DEF R, N
<1>4. \A n \in Nat : IsFiniteSet(R[n]) /\ Cardinality(R[n]) \in Nat /\ Cardinality(R[n]) <= N
  <2> SUFFICES ASSUME NEW n \in Nat
               PROVE  IsFiniteSet(R[n]) /\ Cardinality(R[n]) \in Nat /\ Cardinality(R[n]) <= N
    OBVIOUS
  <2>1. R[n] \in SUBSET within
    BY <1>1
  <2> QED BY <2>1, FS_Subset, FS_CardinalityType DEF N
<1>5. \A n \in Nat : R[n] \subseteq R[n + 1]
  BY <1>1 DEF Widen
<1> DEFINE Bad == {n \in 0..N : R[n + 1] # R[n] /\ ~(Cardinality(R[n]) >= n + 1)}
<1>6. Bad = {}
  <2> SUFFICES ASSUME Bad # {} PROVE FALSE
    OBVIOUS
  <2>1. 0 \notin Bad
    <3>1. Cardinality(R[0]) = 1
      BY <1>1, FS_Singleton
    <3> QED BY <3>1
  <2>2. PICK m \in 1..N : m \in Bad /\ m - 1 \in 0..N /\ m - 1 \notin Bad
    <3>1. Bad \in SUBSET (0..N)
      OBVIOUS
    <3> HIDE DEF Bad
    <3> QED BY <1>3, <2>1, <3>1, FirstFailure
  <2>3. m \in Nat /\ m - 1 \in Nat /\ (m - 1) + 1 = m
    BY <1>3, <2>2
  <2>4. R[m] # R[m - 1]
    BY <1>1, <2>2, <2>3
  <2>5. Cardinality(R[m - 1]) >= m
    BY <2>2, <2>3, <2>4
  <2>6. R[m - 1] \subseteq R[m]
    BY <1>5, <2>3
  <2>7. Cardinality(R[m - 1]) < Cardinality(R[m])
    <3>1. Cardinality(R[m - 1]) <= Cardinality(R[m])
           /\ (Cardinality(R[m - 1]) = Cardinality(R[m]) => R[m - 1] = R[m])
      BY <1>4, <2>3, <2>6, FS_Subset
    <3> QED BY <1>4, <2>3, <2>4, <3>1
  <2> QED BY <1>4, <2>2, <2>3, <2>5, <2>7
<1>7. R[N + 1] = R[N]
  BY <1>3, <1>4, <1>6
<1>8. Closed(adj, R[N], within)
  <2>1. R[N] = Widen(adj, within, R[N])
    BY <1>1, <1>3, <1>7
  <2> QED BY <2>1 DEF Closed, Widen
<1>9. start \in R[N]
  <2> DEFINE Out == {n \in 0..N : start \notin R[n]}
  <2>1. SUFFICES ASSUME Out # {} PROVE FALSE
    BY <1>3
  <2>2. 0 \notin Out
    BY <1>1
  <2>3. PICK m \in 1..N : m \in Out /\ m - 1 \in 0..N /\ m - 1 \notin Out
    <3>1. Out \in SUBSET (0..N)
      OBVIOUS
    <3> HIDE DEF Out
    <3> QED BY <1>3, <2>1, <2>2, <3>1, FirstFailure
  <2>4. R[m - 1] \subseteq R[m]
    <3>1. m - 1 \in Nat /\ (m - 1) + 1 = m
      BY <1>3, <2>3
    <3> QED BY <1>5, <3>1
  <2> QED BY <2>3, <2>4
<1>10. ASSUME NEW S \in SUBSET within, start \in S, Closed(adj, S, within)
       PROVE  R[N] \subseteq S
  <2> DEFINE Out == {n \in 0..N : ~(R[n] \subseteq S)}
  <2>1. SUFFICES ASSUME Out # {} PROVE FALSE
    BY <1>3
  <2>2. 0 \notin Out
    BY <1>1, <1>10
  <2>3. PICK m \in 1..N : m \in Out /\ m - 1 \in 0..N /\ m - 1 \notin Out
    <3>1. Out \in SUBSET (0..N)
      OBVIOUS
    <3> HIDE DEF Out
    <3> QED BY <1>3, <2>1, <2>2, <3>1, FirstFailure
  <2>4. R[m] = Widen(adj, within, R[m - 1])
    <3>1. m - 1 \in Nat /\ (m - 1) + 1 = m
      BY <1>3, <2>3
    <3> QED BY <1>1, <3>1
  <2> QED BY <1>10, <2>3, <2>4 DEF Widen, Closed
<1>11. R[N] \subseteq within
  BY <1>1, <1>3
<1> QED BY <1>2, <1>8, <1>9, <1>10, <1>11

\* In an undirected graph it has no smaller closed part.
LEMMA ComponentIsMinimal ==
  ASSUME NEW adj, Undirected(adj), NEW within, IsFiniteSet(within), NEW start \in within,
         NEW S \in SUBSET bfs(adj, start, within), S # {}, S # bfs(adj, start, within)
  PROVE  ~Closed(adj, S, within)
<1> DEFINE C == bfs(adj, start, within)
           T == C \ S
<1>1. /\ start \in C /\ C \subseteq within /\ Closed(adj, C, within)
      /\ \A U \in SUBSET within : start \in U /\ Closed(adj, U, within) => C \subseteq U
  BY ComponentIsClosed
<1> HIDE DEF C
<1>2. SUFFICES ASSUME Closed(adj, S, within) PROVE FALSE
  OBVIOUS
<1>3. CASE start \in S
  BY <1>1, <1>2, <1>3 DEF C
<1>4. CASE start \notin S
  <2>1. Closed(adj, T, within)
    <3> SUFFICES ASSUME NEW w \in T, NEW v \in getNeighbors(adj, w) \cap within PROVE v \in T
      BY DEF Closed
    <3>1. v \in C
      BY <1>1 DEF Closed
    <3>2. v \notin S
      <4> SUFFICES ASSUME v \in S PROVE FALSE
        OBVIOUS
      <4>1. w \in getNeighbors(adj, v)
        BY DEF getNeighbors, Undirected
      <4>2. w \in S
        BY <1>1, <1>2, <4>1 DEF Closed
      <4> QED BY <4>2
    <3> QED BY <3>1, <3>2
  <2>2. start \in T /\ T \in SUBSET within
    BY <1>1, <1>4
  <2>3. C \subseteq T
    BY <1>1, <2>1, <2>2
  <2> QED BY <2>3 DEF C
<1> QED BY <1>3, <1>4

\* Of any transactions, whatever the request is about.
LEMMA AlgorithmsAgree ==
  ASSUME NEW txs, IsFiniteSet(Wallets)
  PROVE  LET adj == buildAdjacencyList(txs)
         IN  /\ \A w \in DOMAIN adj :
                  computeAllClusteringCoefficients(adj)[w] = computeClusteringCoefficient(adj, w)
             /\ \A within \in SUBSET Wallets :
                  LET parts == findConnectedComponents(adj, SetToSeq(within))
                  IN  /\ UNION parts = within
                      /\ \A p \in parts : Closed(adj, p, within)
                      /\ \A p \in parts : \A S \in (SUBSET p) \ {{}, p} : ~Closed(adj, S, within)
<1> DEFINE adj == buildAdjacencyList(txs)
<1>1. Undirected(adj)
  BY GraphUndirected
<1> HIDE DEF adj
<1>2. \A w \in DOMAIN adj :
        computeAllClusteringCoefficients(adj)[w] = computeClusteringCoefficient(adj, w)
  BY <1>1, BatchCountsPairs
<1>3. ASSUME NEW within \in SUBSET Wallets
      PROVE  LET parts == findConnectedComponents(adj, SetToSeq(within))
             IN  /\ UNION parts = within
                 /\ \A p \in parts : Closed(adj, p, within)
                 /\ \A p \in parts : \A S \in (SUBSET p) \ {{}, p} : ~Closed(adj, S, within)
  <2> DEFINE parts == findConnectedComponents(adj, SetToSeq(within))
  <2>1. IsFiniteSet(within)
    BY FS_Subset
  <2>2. Members(SetToSeq(within)) = within
    BY <2>1, SetToSeqLists DEF Members, ToSet
  <2>3. parts = {bfs(adj, w, within) : w \in within}
    BY <2>2 DEF findConnectedComponents
  <2> HIDE DEF parts
  <2>4. UNION parts = within
    BY <2>1, <2>3, ComponentIsClosed
  <2>5. \A p \in parts : Closed(adj, p, within)
    BY <2>1, <2>3, ComponentIsClosed
  <2>6. \A p \in parts : \A S \in (SUBSET p) \ {{}, p} : ~Closed(adj, S, within)
    BY <1>1, <2>1, <2>3, ComponentIsMinimal
  <2> QED BY <2>4, <2>5, <2>6 DEF parts
<1> QED BY <1>2, <1>3 DEF adj

-----------------------------------------------------------------------------
(***************************************************************************)
(* Arithmetic: quotients, roundings, and the logarithm of the table.       *)
(***************************************************************************)
LEMMA Quotient ==
  ASSUME NEW a \in Int, NEW d \in Nat \ {0}
  PROVE  a \div d \in Int /\ d * (a \div d) <= a /\ a < d * (a \div d) + d
OBVIOUS

\* Division by a positive number keeps the order.
LEMMA QuotientGrows ==
  ASSUME NEW a \in Int, NEW b \in Int, a <= b, NEW d \in Nat \ {0}
  PROVE  a \div d <= b \div d
<1> DEFINE p == a \div d
           q == b \div d
<1>1. p \in Int /\ q \in Int /\ d * p <= a /\ b < d * q + d
  BY Quotient
<1> HIDE DEF p, q
<1>2. SUFFICES ASSUME p > q PROVE FALSE
  BY <1>1 DEF p, q
<1>3. p = (p - q - 1) + q + 1 /\ p - q - 1 \in Nat
  BY <1>1, <1>2
<1>4. d * p = d * (p - q - 1) + d * q + d /\ d * (p - q - 1) >= 0
  BY <1>1, <1>3
<1>5. d * p \in Int /\ d * q \in Int /\ d * (p - q - 1) \in Int
  BY <1>1, <1>3
<1> QED BY <1>1, <1>4, <1>5

\* So does rounded division.
LEMMA RoundedGrows ==
  ASSUME NEW a \in Int, NEW b \in Int, a <= b, NEW d \in Nat \ {0}
  PROVE  /\ Rounded(a, d) \in Int /\ Rounded(b, d) \in Int
         /\ Rounded(a, d) <= Rounded(b, d)
<1>1. 2 * a + d \in Int /\ 2 * b + d \in Int /\ 2 * a + d <= 2 * b + d /\ 2 * d \in Nat \ {0}
  OBVIOUS
<1> QED BY <1>1, Quotient, QuotientGrows DEF Rounded

\* Nothing rounds to nothing.
LEMMA ZeroRounds ==
  ASSUME NEW d \in Nat \ {0}
  PROVE  Rounded(0, d) = 0
<1> DEFINE q == (2 * 0 + d) \div (2 * d)
<1>1. q \in Int /\ 2 * d * q <= d /\ d < 2 * d * q + 2 * d
  OBVIOUS
<1> HIDE DEF q
<1>2. CASE q >= 1
  <2>1. d * q >= d
    BY <1>1, <1>2
  <2> QED BY <1>1, <2>1
<1>3. CASE q <= -1
  <2>1. d * q <= -d
    BY <1>1, <1>3
  <2> QED BY <1>1, <2>1
<1>4. q = 0
  BY <1>1, <1>2, <1>3
<1> QED BY <1>4 DEF Rounded, q

\* Rounded division of a natural number gives a natural number.
LEMMA RoundedNat ==
  ASSUME NEW a \in Nat, NEW d \in Nat \ {0}
  PROVE  Rounded(a, d) \in Nat
<1>1. Rounded(0, d) = 0
  BY ZeroRounds
<1>2. Rounded(0, d) <= Rounded(a, d) /\ Rounded(a, d) \in Int
  BY RoundedGrows
<1> QED BY <1>1, <1>2

\* Division of a natural number gives a natural number.
LEMMA QuotientNat ==
  ASSUME NEW a \in Nat, NEW d \in Nat \ {0}
  PROVE  a \div d \in Nat
OBVIOUS

\* A number up to m.
Bounded(n, m) == n \in Nat /\ n <= m

\* The tabulated logarithm never leaves its table.
LEMMA LogBounds ==
  ASSUME NEW n \in Nat, n >= 1
  PROVE  Bounded(Log10(n), 5000)
<1> DEFINE below == {p \in LogPoints : p[1] <= n}
           short == {100000 - p[1] : p \in below}
<1>1. below # {} /\ \A p \in below : p[1] \in Nat /\ p[1] <= 100000 /\ Bounded(p[2], 5000)
  <2>1. \A p \in LogPoints : p[1] \in Nat /\ p[1] <= 100000 /\ Bounded(p[2], 5000)
    BY SMT DEF LogPoints, Bounded
  <2>2. <<1, 0>> \in LogPoints
    BY SMT DEF LogPoints
  <2>3. <<1, 0>>[1] <= n
    BY SMT
  <2>4. <<1, 0>> \in below
    BY <2>2, <2>3, SMT
  <2> QED BY <2>1, <2>4, SMT
<1>2. short \in SUBSET Nat /\ short # {}
  <2> HIDE DEF below
  <2> QED BY <1>1
<1>3. \E p \in below : \A q \in below : q[1] <= p[1]
  <2>1. PICK x \in short : \A y \in short : x <= y
    <3> HIDE DEF short
    <3> QED BY <1>2, LeastNumber
  <2> HIDE DEF below
  <2>2. PICK p \in below : x = 100000 - p[1]
    BY <2>1
  <2>3. \A q \in below : 100000 - p[1] <= 100000 - q[1]
    BY <2>1, <2>2
  <2> QED BY <1>1, <2>2, <2>3
<1>4. Log10(n) = (CHOOSE p \in below : \A q \in below : q[1] <= p[1])[2]
  BY SMT DEF Log10
<1> HIDE DEF below
<1>5. (CHOOSE p \in below : \A q \in below : q[1] <= p[1]) \in below
  BY <1>3, Zenon
<1> QED BY <1>1, <1>4, <1>5

-----------------------------------------------------------------------------
(***************************************************************************)
(* The trust score.                                                        *)
(***************************************************************************)
LEMMA LeastMost ==
  ASSUME NEW a \in Int, NEW b \in Int
  PROVE  /\ Least(a, b) \in Int /\ Least(a, b) <= a /\ Least(a, b) <= b
         /\ Most(a, b) \in Int /\ a <= Most(a, b) /\ b <= Most(a, b)
         /\ Least(a, b) \in {a, b} /\ Most(a, b) \in {a, b}
BY SMT DEF Least, Most

\* Every part of the breakdown is a score from 0 to 100, in tenths.
LEMMA PartsBounded ==
  ASSUME NEW balance \in Nat, NEW assets \in Nat, NEW txns \in Nat, NEW days \in Nat, days >= 1
  PROVE  /\ Bounded(computeAgeScore(days), 1700)
         /\ Bounded(computeActivityScore(txns, days, assets), 1000)
         /\ Bounded(computeVolumeScore(balance, txns), 1000)
         /\ Bounded(computeVelocityScore(txns, days), 1000)
         /\ Bounded(computeComplianceScore(balance, txns), 1000)
<1>1. Bounded(computeAgeScore(days), 1700)
  <2>1. Bounded(Log10(days + 1), 5000)
    BY LogBounds
  <2> QED BY <2>1 DEF computeAgeScore, Bounded
<1>2. Bounded(computeActivityScore(txns, days, assets), 1000)
  <2>1. (600 * txns) \div days \in Nat
    BY QuotientNat
  <2>2. (300 * days) \div 365 \in Nat
    OBVIOUS
  <2> QED BY <2>1, <2>2 DEF computeActivityScore, Least, Bounded
<1>3. Bounded(computeVolumeScore(balance, txns), 1000)
  <2>1. Most(1, balance \div 1000) \in Nat /\ Most(1, balance \div 1000) >= 1
    BY SMT DEF Most
  <2>2. Bounded(Log10(Most(1, balance \div 1000)), 5000)
    BY <2>1, LogBounds
  <2> QED BY <2>2 DEF computeVolumeScore, Least, Bounded
<1>4. Bounded(computeVelocityScore(txns, days), 1000)
  BY SMT DEF computeVelocityScore, Bounded
<1>5. Bounded(computeComplianceScore(balance, txns), 1000)
  <2> DEFINE balancePenalty == IF balance >= 1000 THEN 0 ELSE Rounded((1000 - balance) * 40, 1000)
             txnPenalty == Rounded(Most(0, 50000 - Log10(txns + 1) * 25), 1000)
  <2>1. Bounded(balancePenalty, 40)
    BY SMT DEF Rounded, Bounded
  <2>2. Bounded(txnPenalty, 50)
    <3>1. Bounded(Log10(txns + 1), 5000)
      BY LogBounds
    <3> QED BY <3>1 DEF Rounded, Most, Bounded
  <2>3. computeComplianceScore(balance, txns) = 10 * (100 - balancePenalty - txnPenalty)
    BY SMT DEF computeComplianceScore
  <2> HIDE DEF balancePenalty, txnPenalty
  <2> QED BY <2>1, <2>2, <2>3 DEF Bounded
<1> QED BY <1>1, <1>2, <1>3, <1>4, <1>5

\* The five parts of a trust score add up to at most 1200, two of them to 1000.
LEMMA BreakdownBounded ==
  ASSUME NEW account, account.balance \in Nat, account.assets \in Nat,
         NEW txns \in Nat, NEW days \in Nat, days >= 1
  PROVE  LET b == BreakdownOf(account, txns, days)
         IN  /\ Bounded(computeTrustScore(b), 1200)
             /\ Bounded(b.velocity, 1000) /\ Bounded(b.compliance, 1000)
<1> DEFINE b == BreakdownOf(account, txns, days)
<1>1. /\ Bounded(b.age, 1700) /\ Bounded(b.activity, 1000) /\ Bounded(b.volume, 1000)
      /\ Bounded(b.velocity, 1000) /\ Bounded(b.compliance, 1000)
  BY PartsBounded DEF BreakdownOf
<1> HIDE DEF b
<1>2. Bounded(computeTrustScore(b), 1200)
  BY <1>1 DEF computeTrustScore, Rounded, Bounded
<1> QED BY <1>1, <1>2 DEF b

\* Staleness keeps a percentage, at most 71 percent after a year.
LEMMA StalenessBounded ==
  ASSUME NEW days \in Int
  PROVE  /\ Bounded(computeStalenessPenalty(days), 100)
         /\ days >= 365 => computeStalenessPenalty(days) <= 71
<1> DEFINE quarters == (4 * (days - 180)) \div 365
<1>1. quarters \in Int /\ (days > 180 => quarters >= 0) /\ (days >= 365 => quarters >= 2)
  OBVIOUS
<1>2. computeStalenessPenalty(days) = IF days <= 180 \/ quarters = 0 THEN 100
        ELSE IF quarters > 6 THEN 30 ELSE <<84, 71, 59, 50, 42, 35>>[quarters]
  BY SMT DEF computeStalenessPenalty, HalfYears
<1> HIDE DEF quarters
<1>3. quarters \in 1..6 => quarters \in {1, 2, 3, 4, 5, 6}
  BY <1>1
<1> QED BY <1>1, <1>2, <1>3 DEF Bounded

-----------------------------------------------------------------------------
\* Rounds as the indexer lists them, newest first.
NewestFirst(rounds) ==
  /\ rounds \in Seq(Nat)
  /\ \A i \in DOMAIN rounds : rounds[i] > 0
  /\ \A i, j \in DOMAIN rounds : i < j => rounds[j] <= rounds[i]

\* What can be read of them: nothing, or the newest and one not older than the oldest.
HistoryOf(h, rounds) ==
  /\ h.totalTxns \in Nat /\ h.firstRound \in Nat /\ h.lastRound \in Nat
  /\ h.totalTxns = 0 => h.firstRound = 0 /\ h.lastRound = 0
  /\ h.totalTxns > 0 =>
       /\ Len(rounds) \in Nat /\ Len(rounds) > 0
       /\ h.firstRound > 0 /\ h.firstRound >= rounds[Len(rounds)]
       /\ h.lastRound = rounds[1]

\* Whatever pages came back, what is kept of them is a part of the history from
\* its newest end.
LEMMA HistoryRead ==
  ASSUME NEW rounds, NewestFirst(rounds), NEW answered \in Nat, NEW threw \in BOOLEAN
  PROVE  HistoryOf(fetchTransactionHistory(rounds, answered, threw), rounds)
<1> DEFINE kept == Least(Len(rounds), PageSize * Least(answered, MaxPages))
           n == IF threw THEN 0 ELSE kept
           seen == {rounds[i] : i \in 1 .. n}
           h == fetchTransactionHistory(rounds, answered, threw)
           lowest == CHOOSE r \in seen : \A s \in seen : r <= s
           highest == CHOOSE r \in seen : \A s \in seen : r >= s
<1>1. kept \in Nat /\ kept <= Len(rounds) /\ Len(rounds) \in Nat
  <2>1. Least(answered, MaxPages) \in Nat
    BY TrustScoreConstants DEF Least
  <2>2. PageSize * Least(answered, MaxPages) \in Nat
    BY <2>1, TrustScoreConstants
  <2>3. Len(rounds) \in Nat
    BY DEF NewestFirst
  <2> QED BY <2>2, <2>3 DEF Least
<1>2. /\ h.totalTxns = n
      /\ h.firstRound = IF seen = {} THEN 0 ELSE lowest
      /\ h.lastRound = IF seen = {} THEN 0 ELSE highest
  BY DEF fetchTransactionHistory
<1> HIDE DEF h, kept
<1>3. n \in Nat /\ n <= Len(rounds)
  BY <1>1
<1> HIDE DEF n
<1>4. CASE n = 0
  <2>1. seen = {}
    BY <1>4
  <2> QED BY <1>2, <1>4, <2>1 DEF HistoryOf, h
<1>5. CASE n > 0
  <2>1. \A i \in 1..n : i \in DOMAIN rounds /\ rounds[i] \in Nat /\ rounds[i] > 0
    BY <1>1, <1>3 DEF NewestFirst
  <2>2. \A i \in 1..n : rounds[n] <= rounds[i] /\ rounds[i] <= rounds[1]
    <3> SUFFICES ASSUME NEW i \in 1..n PROVE rounds[n] <= rounds[i] /\ rounds[i] <= rounds[1]
      OBVIOUS
    <3>1. 1 \in 1..n /\ n \in 1..n /\ (i = n \/ i < n) /\ (i = 1 \/ 1 < i)
      BY <1>3, <1>5
    <3>2. /\ i \in DOMAIN rounds /\ 1 \in DOMAIN rounds /\ n \in DOMAIN rounds
          /\ rounds[i] \in Nat /\ rounds[1] \in Nat /\ rounds[n] \in Nat
      BY <2>1, <3>1
    <3> QED BY <3>1, <3>2 DEF NewestFirst
  <2>3. rounds[1] \in seen /\ rounds[n] \in seen /\ seen # {}
    BY <1>3, <1>5
  <2>4. \A r \in seen : r \in Nat /\ r > 0 /\ rounds[n] <= r /\ r <= rounds[1]
    BY <2>1, <2>2
  <2> HIDE DEF seen
  <2>5. lowest \in seen /\ \A s \in seen : lowest <= s
    <3>1. \E r \in seen : \A s \in seen : r <= s
      BY <2>3, <2>4
    <3> QED BY <3>1, Zenon
  <2>6. highest \in seen /\ \A s \in seen : highest >= s
    <3>1. \E r \in seen : \A s \in seen : r >= s
      BY <2>3, <2>4
    <3> QED BY <3>1, Zenon
  <2> HIDE DEF lowest, highest
  <2>7. highest = rounds[1]
    BY <2>3, <2>4, <2>6
  <2>8. lowest \in Nat /\ lowest > 0 /\ lowest >= rounds[n] /\ highest \in Nat
    BY <2>4, <2>5, <2>6
  <2>9. rounds[Len(rounds)] <= rounds[n]
    <3>1. n \in DOMAIN rounds /\ Len(rounds) \in DOMAIN rounds /\ (n = Len(rounds) \/ n < Len(rounds))
      BY <1>1, <1>3, <1>5 DEF NewestFirst
    <3>2. rounds[n] \in Nat /\ rounds[Len(rounds)] \in Nat
      BY <3>1 DEF NewestFirst
    <3> QED BY <3>1, <3>2 DEF NewestFirst
  <2>10. rounds[n] \in Nat /\ rounds[Len(rounds)] \in Nat
    <3>1. n \in DOMAIN rounds /\ Len(rounds) \in DOMAIN rounds
      BY <1>1, <1>3, <1>5 DEF NewestFirst
    <3> QED BY <3>1 DEF NewestFirst
  <2>11. lowest >= rounds[Len(rounds)]
    BY <2>8, <2>9, <2>10
  <2> QED BY <1>1, <1>2, <1>3, <1>5, <2>3, <2>7, <2>8, <2>11 DEF HistoryOf, h
<1> QED BY <1>3, <1>4, <1>5

\* An account as it is read, or none.
AccountRead(info) ==
  info = None \/ (info.balance \in Nat /\ info.assets \in Nat
                  /\ info.createdRound \in Nat /\ info.lastRound \in Nat)

\* What scoreWallet makes of both reads: the parts its answer is computed from.
LEMMA ScoreIs ==
  ASSUME NEW info, AccountRead(info), NEW rounds, NEW h, HistoryOf(h, rounds)
  PROVE  LET account == AccountOf(info)
             days == AgeInDays(account, h)
             idle == DaysSinceLastActivity(account, h)
             r == scoreWallet(info, h)
             worth == computeTrustScore(r.breakdown)
             kept == Rounded(worth * computeStalenessPenalty(idle), 100)
         IN  /\ r.trustScore \in Nat /\ r.trustScore <= kept
             /\ days < 30 => r.trustScore <= 300
             /\ worth \in Nat /\ idle \in Int
             /\ r.riskLevel = classifyRisk(r.trustScore)
             /\ r.approved = (r.trustScore >= 400)
             /\ r.explanation = generateExplanation(account, h.totalTxns, days, r.trustScore)
             /\ Bounded(r.breakdown.velocity, 1000) /\ Bounded(r.breakdown.compliance, 1000)
             /\ r.balance \in Nat /\ r.totalTxns \in Nat /\ r.accountAgeDays \in Nat
<1> DEFINE account == AccountOf(info)
           days == AgeInDays(account, h)
           idle == DaysSinceLastActivity(account, h)
           b == BreakdownOf(account, h.totalTxns, days)
           r == scoreWallet(info, h)
           kept == Rounded(computeTrustScore(b) * computeStalenessPenalty(idle), 100)
           score == applyFreshWalletCap(kept, days)
<1>1. /\ account.balance \in Nat /\ account.assets \in Nat
      /\ account.createdRound \in Nat /\ account.lastRound \in Nat
  BY TrustScoreConstants DEF AccountRead, AccountOf
<1> HIDE DEF account
<1>2. days \in Nat /\ days >= 1
  BY <1>1 DEF AgeInDays, Most, HistoryOf, Lookback
<1>3. idle \in Int
  <2>1. h.lastRound \in Nat
    BY DEF HistoryOf
  <2> QED BY <1>1, <1>2, <2>1 DEF DaysSinceLastActivity, Most
<1> HIDE DEF days, idle
<1>4. h.totalTxns \in Nat
  BY DEF HistoryOf
<1>5. Bounded(computeTrustScore(b), 1200) /\ Bounded(b.velocity, 1000) /\ Bounded(b.compliance, 1000)
  BY <1>1, <1>2, <1>4, BreakdownBounded
<1>6. /\ r.trustScore = score /\ r.riskLevel = classifyRisk(score) /\ r.approved = (score >= 400)
      /\ r.breakdown = b /\ r.explanation = generateExplanation(account, h.totalTxns, days, score)
      /\ r.balance = account.balance /\ r.totalTxns = h.totalTxns /\ r.accountAgeDays = days
  BY SMT DEF scoreWallet, ScoreAccount, TrustResult, account, days, idle
<1> HIDE DEF b, r
<1>7. kept \in Nat
  <2>1. computeTrustScore(b) * computeStalenessPenalty(idle) \in Nat
    BY <1>3, <1>5, StalenessBounded, SMT DEF Bounded
  <2> QED BY <2>1, RoundedNat
<1> HIDE DEF kept
<1>8. score \in Nat /\ score <= kept /\ (days < 30 => score <= 300)
  BY <1>2, <1>7, SMT DEF applyFreshWalletCap, Least
<1> HIDE DEF score
<1> QED BY <1>2, <1>3, <1>1, <1>4, <1>5, <1>6, <1>8, SMT DEF Bounded, kept, days, idle, account, r

\* What is said are the first words of the lines.
LEMMA OneLine ==
  ASSUME NEW w, NEW c
  PROVE  Said({<<w, c>>}) \subseteq {w}
BY DEF Said

\* A line that applies is said.
LEMMA SaidOf ==
  ASSUME NEW lines, NEW line \in lines
  PROVE  line[2] => line[1] \in Said(lines)
BY DEF Said

\* Weak trust is trust refused, strong trust is of low risk.
LEMMA TrustWords ==
  ASSUME NEW account, NEW txns, NEW days, NEW score \in Nat
  PROVE  LET words == generateExplanation(account, txns, days, score)
         IN  /\ "weak" \in words <=> ~(score >= 400)
             /\ "strong" \in words <=> classifyRisk(score) = "low"
<1> DEFINE words == generateExplanation(account, txns, days, score)
           other == {"years of history", "months of history", "new wallet", "active",
                     "moderately active", "hardly active", "well funded", "funded", "low balance",
                     "diverse portfolio"}
           a == Graded(days, 366, 31, <<"years of history", "months of history", "new wallet">>)
           b == Graded(txns, 101, 11, <<"active", "moderately active", "hardly active">>)
           c == Graded(account.balance, 100001, 1001, <<"well funded", "funded", "low balance">>)
           said == Said({<<"diverse portfolio", account.assets > 5>>})
           grade == Graded(score, 700, 400, <<"strong", "moderate", "weak">>)
<1>1. words = {a, b, c, grade} \cup said
  BY SMT DEF generateExplanation
<1>2. a \in other /\ b \in other /\ c \in other
  BY SMT DEF Graded
<1>3. said \subseteq {"diverse portfolio"}
  BY OneLine, Zenon
<1>4. /\ grade = "weak" <=> ~(score >= 400)
      /\ grade = "strong" <=> score >= 700
  BY SMT DEF Graded
<1>5. "weak" \notin other /\ "strong" \notin other /\ "diverse portfolio" \in other
  BY SMT
<1>6. score >= 700 <=> classifyRisk(score) = "low"
  BY SMT DEF classifyRisk
<1> HIDE DEF words, other, a, b, c, said, grade
<1>7. "weak" \in words <=> grade = "weak"
  BY <1>1, <1>2, <1>3, <1>5, Zenon
<1>8. "strong" \in words <=> grade = "strong"
  BY <1>1, <1>2, <1>3, <1>5, Zenon
<1> QED BY <1>4, <1>6, <1>7, <1>8, Zenon DEF words

\* What the score and the words say of each other, and the two bounds.
TrustStays(info, rounds, h, r, today) ==
  LET created == IF info = None THEN 0 ELSE info.createdRound
      born == IF created # 0 THEN created ELSE rounds[Len(rounds)]
  IN  /\ h.totalTxns > 0 /\ today - born < 30 => r.trustScore <= 300 /\ ~r.approved
      /\ h.totalTxns > 0 /\ info # None /\ today - rounds[1] >= 365 =>
           r.trustScore <= Rounded(computeTrustScore(r.breakdown) * 71, 100)
      /\ "weak" \in r.explanation <=> ~r.approved
      /\ "strong" \in r.explanation <=> r.riskLevel = "low"

\* Every trust score, whatever was read, keeps its caps, its decay and its
\* words.
LEMMA TrustKept ==
  ASSUME NEW info, AccountRead(info), NEW rounds, NewestFirst(rounds), NEW h, HistoryOf(h, rounds),
         NEW today \in Nat, info # None => info.lastRound = today,
         \A i \in DOMAIN rounds : rounds[i] > GenesisRound
  PROVE  TrustStays(info, rounds, h, scoreWallet(info, h), today)
<1> DEFINE account == AccountOf(info)
           days == AgeInDays(account, h)
           idle == DaysSinceLastActivity(account, h)
           r == scoreWallet(info, h)
           worth == computeTrustScore(r.breakdown)
           kept == Rounded(worth * computeStalenessPenalty(idle), 100)
           created == IF info = None THEN 0 ELSE info.createdRound
           born == IF created # 0 THEN created ELSE rounds[Len(rounds)]
<1>1. /\ r.trustScore \in Nat /\ r.trustScore <= kept
      /\ days < 30 => r.trustScore <= 300
      /\ worth \in Nat /\ idle \in Int
      /\ r.riskLevel = classifyRisk(r.trustScore)
      /\ r.approved = (r.trustScore >= 400)
      /\ r.explanation = generateExplanation(account, h.totalTxns, days, r.trustScore)
  BY ScoreIs
<1>2. ASSUME h.totalTxns > 0, today - born < 30 PROVE days < 30
  <2>1. /\ h.firstRound \in Nat /\ h.firstRound > 0 /\ h.firstRound >= rounds[Len(rounds)]
        /\ Len(rounds) \in DOMAIN rounds /\ rounds[Len(rounds)] \in Nat
        /\ rounds[Len(rounds)] > GenesisRound
    <3>1. Len(rounds) \in Nat /\ Len(rounds) > 0
      BY <1>2 DEF HistoryOf
    <3>2. Len(rounds) \in DOMAIN rounds
      BY <3>1 DEF NewestFirst
    <3> QED BY <1>2, <3>2 DEF HistoryOf, NewestFirst
  <2>2. CASE info = None
    BY <2>1, <2>2, TrustScoreConstants DEF AccountOf, AgeInDays, Most
  <2>3. CASE info # None /\ info.createdRound # 0
    <3>1. days = Most(1, today - info.createdRound) /\ info.createdRound \in Nat
      BY <2>3 DEF AccountOf, AgeInDays, AccountRead
    <3> QED BY <1>2, <2>3, <3>1 DEF Most
  <2>4. CASE info # None /\ info.createdRound = 0
    <3>1. days = Most(1, today - h.firstRound)
      BY <2>1, <2>4 DEF AccountOf, AgeInDays
    <3> QED BY <1>2, <2>1, <2>4, <3>1 DEF Most
  <2> QED BY <2>2, <2>3, <2>4
<1>3. ASSUME h.totalTxns > 0, info # None, today - rounds[1] >= 365
      PROVE  r.trustScore <= Rounded(worth * 71, 100)
  <2>1. h.lastRound = rounds[1] /\ h.lastRound \in Nat /\ h.lastRound > 0
    <3>1. h.lastRound = rounds[1] /\ Len(rounds) \in Nat /\ Len(rounds) > 0
      BY <1>3 DEF HistoryOf
    <3>2. 1 \in DOMAIN rounds
      BY <3>1 DEF NewestFirst
    <3> QED BY <3>1, <3>2 DEF NewestFirst
  <2>2. idle >= 365
    BY <1>3, <2>1 DEF DaysSinceLastActivity, AccountOf, Most
  <2>3. computeStalenessPenalty(idle) <= 71 /\ computeStalenessPenalty(idle) \in Nat
    BY <1>1, <2>2, StalenessBounded DEF Bounded
  <2> DEFINE p == computeStalenessPenalty(idle)
  <2> HIDE DEF p, worth, kept
  <2>4. worth * p <= worth * 71 /\ worth * p \in Int /\ worth * 71 \in Int
    <3>1. 71 - p \in Nat /\ p \in Nat
      BY <2>3 DEF p
    <3>2. worth * (71 - p) \in Nat /\ worth * (71 - p) = worth * 71 - worth * p /\ worth * p \in Int
      BY <1>1, <3>1
    <3> QED BY <1>1, <3>2
  <2>5. /\ Rounded(worth * p, 100) <= Rounded(worth * 71, 100)
        /\ Rounded(worth * p, 100) \in Int /\ Rounded(worth * 71, 100) \in Int
    BY <2>4, RoundedGrows
  <2> QED BY <1>1, <2>5 DEF p, kept
<1> HIDE DEF r, days, worth, kept, account
<1>4. /\ "weak" \in r.explanation <=> ~r.approved
      /\ "strong" \in r.explanation <=> r.riskLevel = "low"
  <2> DEFINE words == generateExplanation(account, h.totalTxns, days, r.trustScore)
  <2>1. r.trustScore \in Nat
    BY <1>1
  <2>2. /\ "weak" \in words <=> ~(r.trustScore >= 400)
        /\ "strong" \in words <=> classifyRisk(r.trustScore) = "low"
    BY <2>1, TrustWords
  <2>3. r.explanation = words
    BY <1>1
  <2> HIDE DEF words
  <2>4. r.approved <=> r.trustScore >= 400
    BY <1>1, Zenon
  <2> QED BY <1>1, <2>2, <2>3, <2>4, Zenon
<1>5. r.trustScore <= 300 => ~r.approved
  <2>1. r.trustScore <= 300 => ~(r.trustScore >= 400)
    BY <1>1
  <2> QED BY <1>1, <2>1, Zenon
<1>6. /\ h.totalTxns > 0 /\ today - born < 30 => r.trustScore <= 300 /\ ~r.approved
      /\ h.totalTxns > 0 /\ info # None /\ today - rounds[1] >= 365 =>
           r.trustScore <= Rounded(worth * 71, 100)
  BY <1>1, <1>2, <1>3, <1>5
<1> QED BY <1>4, <1>6, Zenon DEF TrustStays, r, worth

-----------------------------------------------------------------------------
(***************************************************************************)
(* What the chain is like when a request comes.                            *)
(***************************************************************************)
Entries ==
  [kind : {"pay", "add", "revoke"}, from : Wallets, to : Wallets, amount : Nat, day : Nat]

\* Transfers and registry calls between two wallets, none from before the first
\* day or from tomorrow, in the order of their days.
ChainInOrder(history, today) ==
  /\ today \in Nat
  /\ history \in Seq(Entries)
  /\ \A i \in DOMAIN history :
       /\ history[i].from # history[i].to
       /\ FirstDay <= history[i].day /\ history[i].day <= today
  /\ \A i, j \in DOMAIN history : i < j => history[i].day <= history[j].day

\* Only payments and disputes are recorded.
CountersCount ==
  /\ counters \in [EventTypes -> Nat]
  /\ \A t \in EventTypes : counters[t] > 0 => t \in {"payment", "dispute"}

\* The first half of RecordedAsEvidenced: whomever a recorded dispute names
\* exchanged a transfer with the subject.
DisputesEvidenced == \A w \in disputed : TransferBetween(Subject, w, chain)

\* The inductive invariant of the chain: time and order, types, and what the
\* counters mean.
AInv ==
  /\ now >= FirstDay
  /\ ChainInOrder(chain, now)
  /\ CountersCount
  /\ DisputesEvidenced

\* One more entry of today leaves a chain in order.
LEMMA ConfirmKeepsOrder ==
  ASSUME ChainInOrder(chain, now), now >= FirstDay, FirstDay \in Nat,
         NEW kind \in {"pay", "add", "revoke"},
         NEW from \in Wallets, NEW to \in Wallets, from # to, NEW amount \in Nat,
         Confirm(kind, from, to, amount)
  PROVE  /\ ChainInOrder(chain', now)
         /\ Len(chain') = Len(chain) + 1
         /\ \A i \in DOMAIN chain : i \in DOMAIN chain' /\ chain'[i] = chain[i]
<1> DEFINE e == [kind |-> kind, from |-> from, to |-> to, amount |-> amount, day |-> now]
<1>1. e \in Entries /\ e.from # e.to /\ e.day = now
  BY DEF Entries, ChainInOrder
<1>2. chain \in Seq(Entries) /\ chain' = Append(chain, e)
  BY DEF Confirm, ChainInOrder
<1> HIDE DEF e
<1>3. /\ chain' \in Seq(Entries) /\ Len(chain') = Len(chain) + 1 /\ Len(chain) \in Nat
      /\ DOMAIN chain = 1..Len(chain) /\ DOMAIN chain' = 1..(Len(chain) + 1)
      /\ \A i \in 1..Len(chain) : chain'[i] = chain[i]
      /\ chain'[Len(chain) + 1] = e
  BY <1>1, <1>2
<1>4. \A i \in DOMAIN chain' : i \in DOMAIN chain \/ i = Len(chain) + 1
  BY <1>3
<1>5. \A i \in DOMAIN chain' :
        /\ chain'[i].from # chain'[i].to
        /\ FirstDay <= chain'[i].day /\ chain'[i].day <= now
  <2> SUFFICES ASSUME NEW i \in DOMAIN chain'
               PROVE  /\ chain'[i].from # chain'[i].to
                      /\ FirstDay <= chain'[i].day /\ chain'[i].day <= now
    OBVIOUS
  <2>1. CASE i \in DOMAIN chain
    BY <1>3, <2>1 DEF ChainInOrder
  <2>2. CASE i = Len(chain) + 1
    BY <1>1, <1>3, <2>2 DEF ChainInOrder
  <2> QED BY <1>4, <2>1, <2>2
<1>6. \A i, j \in DOMAIN chain' : i < j => chain'[i].day <= chain'[j].day
  <2> SUFFICES ASSUME NEW i \in DOMAIN chain', NEW j \in DOMAIN chain', i < j
               PROVE  chain'[i].day <= chain'[j].day
    OBVIOUS
  <2>1. i \in DOMAIN chain /\ chain'[i] = chain[i]
    BY <1>3
  <2>2. CASE j \in DOMAIN chain
    BY <1>3, <2>1, <2>2 DEF ChainInOrder
  <2>3. CASE j = Len(chain) + 1
    BY <1>1, <1>3, <2>1, <2>3 DEF ChainInOrder
  <2> QED BY <1>4, <2>2, <2>3
<1> QED BY <1>3, <1>5, <1>6 DEF ChainInOrder

\* A longer history keeps the evidence of a shorter one.
LEMMA MoreEvidence ==
  ASSUME NEW wallet, NEW history, NEW longer,
         \A i \in DOMAIN history : i \in DOMAIN longer /\ longer[i] = history[i],
         NEW w, TransferBetween(wallet, w, history)
  PROVE  TransferBetween(wallet, w, longer)
BY DEF TransferBetween

\* The transactions of a wallet are payments of the chain that name it, in its
\* order.
LEMMA NamingIs ==
  ASSUME ChainInOrder(chain, now), NEW w
  PROVE  /\ Naming(w) \in Seq(Entries)
         /\ InOrder(Naming(w), chain)
         /\ ToSet(Naming(w)) = {e \in ToSet(chain) : e.kind = "pay" /\ w \in {e.from, e.to}}
<1> DEFINE dropped == {chain[i] : i \in {j \in DOMAIN chain : ~(chain[j].kind = "pay" /\ w \in {chain[j].from, chain[j].to})}}
<1>1. Naming(w) = Drop(chain, dropped)
  BY DEF Naming, Only
<1>2. chain \in Seq(Entries)
  BY DEF ChainInOrder
<1>3. ToSet(chain) \ dropped = {e \in ToSet(chain) : e.kind = "pay" /\ w \in {e.from, e.to}}
  BY DEF ToSet
<1> HIDE DEF dropped
<1> QED BY <1>1, <1>2, <1>3, DropKeeps

\* A transfer found among a wallet's transactions is on the chain.
LEMMA EvidenceIsThere ==
  ASSUME ChainInOrder(chain, now), NEW wallet, NEW w, TransferBetween(wallet, w, Naming(Subject))
  PROVE  TransferBetween(wallet, w, chain)
<1>1. PICK i \in DOMAIN Naming(Subject) :
        /\ Naming(Subject)[i].kind = "pay"
        /\ {Naming(Subject)[i].from, Naming(Subject)[i].to} = {wallet, w}
  BY DEF TransferBetween
<1>2. Naming(Subject)[i] \in ToSet(Naming(Subject))
  BY <1>1 DEF ToSet
<1>3. Naming(Subject)[i] \in ToSet(chain)
  BY <1>2, NamingIs
<1>4. PICK j \in DOMAIN chain : chain[j] = Naming(Subject)[i]
  BY <1>3 DEF ToSet
<1> QED BY <1>1, <1>4 DEF TransferBetween

-----------------------------------------------------------------------------

\* An empty chain keeps the invariant.
LEMMA InvStarts == Init => AInv
<1> SUFFICES ASSUME Init PROVE AInv
  OBVIOUS
<1>1. chain = <<>> /\ now = FirstDay /\ counters = [t \in EventTypes |-> 0] /\ disputed = {}
  BY DEF Init
<1>2. ChainInOrder(<<>>, FirstDay)
  BY AnalysesConstants DEF ChainInOrder
<1>3. counters["dispute"] = 0 /\ \A t \in EventTypes : counters[t] = 0
  BY <1>1 DEF EventTypes
<1> QED BY <1>1, <1>2, <1>3, AnalysesConstants DEF AInv, CountersCount, DisputesEvidenced

\* Confirming a payment or a registry call keeps the invariant.
LEMMA ConfirmKeepsInv ==
  ASSUME AInv, NEW kind \in {"pay", "add", "revoke"},
         NEW from \in Wallets, NEW to \in Wallets, from # to, NEW amount \in Nat,
         Confirm(kind, from, to, amount), UNCHANGED <<now, counters, disputed>>
  PROVE  AInv'
<1>1. /\ ChainInOrder(chain', now)
      /\ \A i \in DOMAIN chain : i \in DOMAIN chain' /\ chain'[i] = chain[i]
  BY ConfirmKeepsOrder, AnalysesConstants DEF AInv
<1>2. DisputesEvidenced'
  <2> SUFFICES ASSUME NEW w \in disputed
               PROVE  TransferBetween(Subject, w, chain')
    BY DEF DisputesEvidenced
  <2>1. TransferBetween(Subject, w, chain)
    BY DEF AInv, DisputesEvidenced
  <2> QED BY <1>1, <2>1, MoreEvidence
<1> QED BY <1>1, <1>2 DEF AInv, CountersCount

\* Recording an event keeps the invariant: a dispute is accepted only with a
\* transfer between the subject and the one it names.
LEMMA RecordKeepsInv ==
  ASSUME AInv, NEW t \in {"payment", "dispute"}, NEW evidence \in Evidence,
         RecordEvents(t, evidence)
  PROVE  AInv'
<1>1. /\ counters' = [counters EXCEPT ![t] = @ + 3] /\ UNCHANGED <<now, chain>>
      /\ disputed' = disputed \cup (IF t = "dispute" THEN {evidence.counterparty} ELSE {})
  BY DEF RecordEvents
<1>2. t \in EventTypes /\ counters \in [EventTypes -> Nat]
  BY DEF EventTypes, AInv, CountersCount
<1>3. counters' \in [EventTypes -> Nat] /\ \A u \in EventTypes : u # t => counters'[u] = counters[u]
  BY <1>1, <1>2
<1>4. CountersCount'
  BY <1>3 DEF AInv, CountersCount
<1>5. DisputesEvidenced'
  <2>1. CASE t = "payment"
    <3>1. disputed' = disputed
      BY <1>1, <2>1
    <3> QED BY <1>1, <3>1 DEF AInv, DisputesEvidenced
  <2>2. CASE t = "dispute"
    <3>1. recordEvent(Subject, t, evidence, Naming(Subject)) # None
      BY DEF RecordEvents
    <3>2. verifyDisputeEvent(Subject, evidence, Naming(Subject))
      BY <2>2, <3>1, Zenon DEF recordEvent
    <3>3. TransferBetween(Subject, evidence.counterparty, chain)
      BY <3>2, EvidenceIsThere DEF verifyDisputeEvent, AInv
    <3>4. disputed' = disputed \cup {evidence.counterparty}
      BY <1>1, <2>2
    <3> QED BY <1>1, <3>3, <3>4 DEF AInv, DisputesEvidenced
  <2> QED BY <2>1, <2>2
<1> QED BY <1>1, <1>4, <1>5 DEF AInv

\* Days that pass keep the invariant.
LEMMA TimeKeepsInv ==
  ASSUME AInv, NEW days \in Pauses, PassTime(days)
  PROVE  AInv'
<1>1. now' = now + days /\ UNCHANGED <<chain, counters, disputed>> /\ days \in Nat /\ now \in Nat
  BY AnalysesConstants DEF PassTime, AInv, ChainInOrder
<1>2. ChainInOrder(chain, now')
  <2>1. \A i \in DOMAIN chain : chain[i].day \in Nat
    <3>1. \A i \in DOMAIN chain : chain[i] \in Entries
      BY DEF AInv, ChainInOrder
    <3> QED BY <3>1 DEF Entries
  <2> QED BY <1>1, <2>1 DEF AInv, ChainInOrder
<1> QED BY <1>1, <1>2, AnalysesConstants DEF AInv, CountersCount, DisputesEvidenced

\* Nobody delegates to itself, so nobody revokes itself.
LEMMA ActiveIsAnother ==
  ASSUME ChainInOrder(chain, now), NEW sponsor, NEW agent \in {d.to : d \in Active(sponsor)}
  PROVE  sponsor # agent
<1> DEFINE calls(w) == Only(chain, LAMBDA c : c.kind # "pay" /\ c.from = sponsor /\ c.to = w)
           dropped == {chain[i] : i \in {j \in DOMAIN chain :
                         ~(chain[j].kind # "pay" /\ chain[j].from = sponsor /\ chain[j].to = agent)}}
<1>1. calls(agent) # <<>>
  <2> DEFINE last == [w \in Wallets |-> calls(w)]
             those == {v \in Wallets : last[v] # <<>> /\ last[v][Len(last[v])].kind = "add"}
  <2>1. Active(sponsor) = {[to |-> w, amount |-> last[w][Len(last[w])].amount] : w \in those}
    BY Zenon DEF Active
  <2>2. agent \in those
    <3> HIDE DEF last, those
    <3> QED BY <2>1
  <2>3. agent \in Wallets /\ last[agent] # <<>>
    BY <2>2
  <2>4. last[agent] = calls(agent)
    <3> HIDE DEF calls
    <3> QED BY <2>3
  <2> QED BY <2>3, <2>4
<1>2. calls(agent) = Drop(chain, dropped)
  BY DEF Only
<1>3. chain \in Seq(Entries)
  BY DEF ChainInOrder
<1>4. Drop(chain, dropped) \in Seq(Entries) /\ ToSet(Drop(chain, dropped)) = ToSet(chain) \ dropped
  BY <1>3, DropKeeps
<1> HIDE DEF calls
<1>5. PICK e : e \in ToSet(chain) \ dropped
  <2> DEFINE t == Drop(chain, dropped)
  <2>1. t \in Seq(Entries) /\ t # <<>>
    BY <1>1, <1>2, <1>4
  <2>2. t[1] \in ToSet(t)
    <3> HIDE DEF t
    <3> QED BY <2>1 DEF ToSet
  <2> QED BY <1>4, <2>2
<1>6. e.from = sponsor /\ e.to = agent
  BY <1>5 DEF ToSet
<1>7. e.from # e.to
  BY <1>5 DEF ToSet, ChainInOrder
<1> QED BY <1>6, <1>7

\* What a step of the chain does to the answer, and a request to the rest.
LEMMA StepKeepsInv == AInv /\ [Next]_vars => AInv'
<1> SUFFICES ASSUME AInv, [Next]_vars PROVE AInv'
  OBVIOUS
<1>1. ASSUME NEW from \in Wallets, NEW to \in Wallets, Pay(from, to) PROVE AInv'
  BY <1>1, ConfirmKeepsInv DEF Pay
<1>2. ASSUME NEW sponsor \in Wallets, NEW agent \in Wallets, NEW tenths \in Amounts,
             Delegate(sponsor, agent, tenths)
      PROVE  AInv'
  <2>1. /\ Confirm("add", sponsor, agent, tenths \div 10) /\ UNCHANGED <<now, counters, disputed>>
        /\ sponsor # agent /\ tenths \div 10 \in Nat
    BY <1>2, AnalysesConstants DEF Delegate, Submit, delegate, validateArgs
  <2> QED BY <2>1, ConfirmKeepsInv
<1>3. ASSUME NEW sponsor \in Wallets, NEW agent \in Wallets, Revoke(sponsor, agent) PROVE AInv'
  <2>1. /\ Confirm("revoke", sponsor, agent, 0) /\ UNCHANGED <<now, counters, disputed>>
        /\ agent \in {d.to : d \in Active(sponsor)}
    BY <1>3 DEF Revoke, Submit, revoke
  <2>2. sponsor # agent
    BY <2>1, ActiveIsAnother DEF AInv
  <2> QED BY <2>1, <2>2, ConfirmKeepsInv
<1>4. ASSUME NEW days \in Pauses, PassTime(days) PROVE AInv'
  BY <1>4, TimeKeepsInv
<1>5. ASSUME NEW t \in {"payment", "dispute"}, NEW evidence \in Evidence, RecordEvents(t, evidence)
      PROVE  AInv'
  BY <1>5, RecordKeepsInv
<1>6. ASSUME UNCHANGED <<now, chain, counters, disputed>> PROVE AInv'
  BY <1>6 DEF AInv, CountersCount, DisputesEvidenced
<1> QED
  <2>1. CASE UNCHANGED vars
    BY <1>6, <2>1 DEF vars
  <2>2. CASE Next
    BY <1>1, <1>2, <1>3, <1>4, <1>5, <1>6, <2>2
       DEF Next, AskTrust, AskCredit, AskDelegations, AskTrustGraph, AskSybil, Decide, Ask
  <2> QED BY <2>1, <2>2

-----------------------------------------------------------------------------
\* The transactions of a wallet are typed and in the order of their days.
LEMMA NamedInOrder ==
  ASSUME ChainInOrder(chain, now), NEW w
  PROVE  /\ \A i \in DOMAIN Naming(w) : /\ Naming(w)[i] \in Entries
                                        /\ FirstDay <= Naming(w)[i].day /\ Naming(w)[i].day <= now
         /\ \A i, j \in DOMAIN Naming(w) : i < j => Naming(w)[i].day <= Naming(w)[j].day
<1> DEFINE t == Naming(w)
<1>1. t \in Seq(Entries) /\ InOrder(t, chain) /\ ToSet(t) \subseteq ToSet(chain)
  BY NamingIs
<1> HIDE DEF t
<1>2. ASSUME NEW i \in DOMAIN t
      PROVE  t[i] \in Entries /\ FirstDay <= t[i].day /\ t[i].day <= now
  <2>1. t[i] \in ToSet(t)
    BY <1>2 DEF ToSet
  <2>2. PICK k \in DOMAIN chain : chain[k] = t[i]
    BY <1>1, <2>1 DEF ToSet
  <2> QED BY <1>1, <2>2 DEF ChainInOrder
<1>3. \A i, j \in DOMAIN t : i < j => t[i].day <= t[j].day
  BY <1>1 DEF InOrder, ChainInOrder
<1> QED BY <1>2, <1>3 DEF t

\* The indexer's list is newest first, and no round of it is the genesis round.
LEMMA RoundsAreNewestFirst ==
  ASSUME AInv, NEW w
  PROVE  /\ NewestFirst(RoundsNewestFirst(w))
         /\ \A i \in DOMAIN RoundsNewestFirst(w) : RoundsNewestFirst(w)[i] > GenesisRound
<1> DEFINE t == Naming(w)
           n == Len(t)
           s == [i \in DOMAIN t |-> t[i].day]
           r == RoundsNewestFirst(w)
<1>1. t \in Seq(Entries) /\ n \in Nat /\ DOMAIN t = 1..n
  BY NamingIs DEF AInv
<1>2. /\ \A i \in DOMAIN t : t[i] \in Entries /\ FirstDay <= t[i].day /\ t[i].day <= now
      /\ \A i, j \in DOMAIN t : i < j => t[i].day <= t[j].day
  BY NamedInOrder DEF AInv
<1>3. r = Reverse(s)
  BY DEF RoundsNewestFirst
<1> HIDE DEF t, n, r
<1>4. /\ \A i \in 1..n : s[i] \in Nat /\ s[i] > GenesisRound /\ s[i] > 0
      /\ \A i, j \in 1..n : i < j => s[i] <= s[j]
  <2>1. \A i \in 1..n : s[i] = t[i].day /\ t[i].day \in Nat
    BY <1>1, <1>2 DEF Entries
  <2>2. \A i \in 1..n : FirstDay <= t[i].day
    BY <1>1, <1>2
  <2>3. \A i, j \in 1..n : i < j => t[i].day <= t[j].day
    BY <1>1, <1>2
  <2> HIDE DEF s
  <2>4. \A i \in 1..n : s[i] \in Nat /\ s[i] > GenesisRound /\ s[i] > 0
    BY <2>1, <2>2, AnalysesConstants, TrustScoreConstants
  <2> QED BY <2>1, <2>3, <2>4
<1>5. s \in Seq(Nat) /\ Len(s) = n
  BY <1>1, <1>4
<1> HIDE DEF s
<1>6. r \in Seq(Nat) /\ Len(r) = n /\ \A i \in 1..n : (n - i) + 1 \in 1..n /\ r[i] = s[(n - i) + 1]
  BY <1>1, <1>3, <1>4, <1>5 DEF Reverse
<1>7. DOMAIN r = 1..n
  BY <1>1, <1>6
<1>8. \A i, j \in DOMAIN r : i < j => r[j] <= r[i]
  <2> SUFFICES ASSUME NEW i \in 1..n, NEW j \in 1..n, i < j PROVE r[j] <= r[i]
    BY <1>7
  <2>1. (n - j) + 1 < (n - i) + 1
    BY <1>1
  <2> QED BY <1>4, <1>6, <2>1
<1> QED BY <1>4, <1>6, <1>7, <1>8 DEF NewestFirst, r

\* An account that was read is something.
LEMMA InfoIsSome ==
  ASSUME AInv, NEW w \in Wallets
  PROVE  AccountInfo(w) # None
<1>1. AccountInfo(w) \in [balance : Nat, assets : Nat, createdRound : Nat, lastRound : Nat]
  BY AnalysesConstants DEF AccountInfo, AInv, ChainInOrder
<1>2. None \notin [balance : Nat, assets : Nat, createdRound : Nat, lastRound : Nat]
  BY NoneIsNothing, Zenon
<1> QED BY <1>1, <1>2, Zenon

\* An account that was read is well formed.
LEMMA InfoIsRead ==
  ASSUME AInv, NEW w \in Wallets
  PROVE  /\ AccountRead(AccountInfo(w))
         /\ AccountInfo(w).lastRound = now
         /\ AccountInfo(w).createdRound = Accounts[w].createdRound
BY AnalysesConstants DEF AccountInfo, AccountRead, AInv, ChainInOrder

\* A trust request reads the account of the wallet and what is named of it.
LEMMA TrustAnswered ==
  ASSUME AInv, NEW accountRead \in BOOLEAN, NEW answered \in 0..MaxPages, NEW threw \in BOOLEAN
  PROVE  LET rounds == RoundsNewestFirst(Subject)
             h == fetchTransactionHistory(rounds, answered, threw)
             info == IF accountRead THEN AccountInfo(Subject) ELSE None
         IN  HistoryOf(h, rounds) /\ TrustStays(info, rounds, h, scoreWallet(info, h), now)
<1> DEFINE rounds == RoundsNewestFirst(Subject)
           h == fetchTransactionHistory(rounds, answered, threw)
           info == IF accountRead THEN AccountInfo(Subject) ELSE None
<1>1. NewestFirst(rounds) /\ \A i \in DOMAIN rounds : rounds[i] > GenesisRound
  BY RoundsAreNewestFirst
<1>2. answered \in Nat /\ now \in Nat
  BY TrustScoreConstants DEF AInv, ChainInOrder
<1>3. AccountRead(info) /\ (info # None => info.lastRound = now)
  BY InfoIsRead, AnalysesConstants DEF AccountRead
<1> HIDE DEF rounds
<1>4. HistoryOf(h, rounds)
  BY <1>1, <1>2, HistoryRead
<1> HIDE DEF info, h
<1>5. TrustStays(info, rounds, h, scoreWallet(info, h), now)
  BY <1>1, <1>2, <1>3, <1>4, TrustKept
<1> QED BY <1>4, <1>5 DEF info, h, rounds

\* The answer to a trust request keeps the caps and the decay.
LEMMA YoungAnswered ==
  ASSUME AInv, NEW accountRead \in BOOLEAN, NEW answered \in 0..MaxPages, NEW threw \in BOOLEAN,
         AskTrust(accountRead, answered, threw)
  PROVE  YoungAndIdleStayLow'
<1> DEFINE rounds == RoundsNewestFirst(Subject)
           h == fetchTransactionHistory(rounds, answered, threw)
           info == IF accountRead THEN AccountInfo(Subject) ELSE None
           r == scoreWallet(info, h)
<1>1. /\ answer' = [ask |-> "trust", accountRead |-> accountRead, history |-> h, result |-> r]
      /\ UNCHANGED <<focus, now, chain, counters, disputed, steps>>
  BY DEF AskTrust, Ask
<1>2. RoundsNewestFirst(Subject)' = rounds
  <2>1. Naming(Subject)' = Naming(Subject)
    BY <1>1 DEF Naming, Only
  <2> QED BY <2>1 DEF RoundsNewestFirst
<1>3. TrustStays(info, rounds, h, r, now)
  BY TrustAnswered
<1>4. /\ (info = None) = ~accountRead
      /\ info # None => info.createdRound = Accounts[Subject].createdRound
  BY InfoIsRead, InfoIsSome, AnalysesConstants
<1> HIDE DEF rounds, h, info, r
<1> DEFINE created == IF accountRead THEN Accounts[Subject].createdRound ELSE 0
           born == IF created # 0 THEN created ELSE rounds[Len(rounds)]
<1>5. /\ h.totalTxns > 0 /\ now - born < 30 => r.trustScore <= 300 /\ ~r.approved
      /\ h.totalTxns > 0 /\ accountRead /\ now - rounds[1] >= 365 =>
           r.trustScore <= Rounded(computeTrustScore(r.breakdown) * 71, 100)
  <2>1. created = IF info = None THEN 0 ELSE info.createdRound
    BY <1>4
  <2> HIDE DEF created
  <2> QED BY <1>3, <1>4, <2>1, Zenon DEF TrustStays
<1>6. /\ answer'.accountRead = accountRead /\ answer'.history = h /\ answer'.result = r
      /\ now' = now
  BY <1>1
<1> HIDE DEF born
<1> QED
  BY <1>2, <1>5, <1>6, Zenon DEF YoungAndIdleStayLow, born, created

(***************************************************************************)
(* The chain is always in the order of its days, its entries and counters  *)
(* are typed, only payments and disputes are counted, and whomever a       *)
(* recorded dispute names exchanged a transfer with the subject: what the  *)
(* reads of src/trust-score.ts, src/sybil.ts and src/reputation.ts may     *)
(* rely on in every state.                                                 *)
(***************************************************************************)
THEOREM InOrderAlways == Spec => []AInv
<1>1. Init => AInv
  BY InvStarts
<1>2. AInv /\ [Next]_vars => AInv'
  BY StepKeepsInv
<1> QED BY <1>1, <1>2, PTL DEF Spec

\* A step leaves no answer, or is a request, or changes nothing.
LEMMA StepsAnswer ==
  ASSUME [Next]_vars
  PROVE  \/ answer' = NoAnswer
         \/ UNCHANGED vars
         \/ \E accountRead, threw \in BOOLEAN, answered \in 0..MaxPages :
              AskTrust(accountRead, answered, threw)
         \/ \E amount \in Requested \cup {None}, accountRead \in BOOLEAN :
              AskCredit(amount, accountRead)
         \/ \E app \in {"ok", "refused", "threw"}, legacy \in {"ok", "refused"}, newestFirst \in BOOLEAN :
              AskDelegations(app, legacy, newestFirst)
         \/ \E lost \in Wallets \ {Subject} : AskTrustGraph(lost)
         \/ \E unread \in UpTo(1, Wallets) : AskSybil(unread)
         \/ \E failed \in UpTo(MaxFailures, Reads), denyList \in {{}, {Subject}} :
              Decide(failed, denyList)
<1>1. ASSUME NEW kinds, ChainStep(kinds) PROVE answer' = NoAnswer
  BY <1>1 DEF ChainStep
<1>2. CASE UNCHANGED vars
  BY <1>2
<1>3. CASE Next
  BY <1>1, <1>3, Zenon DEF Next, Pay, Delegate, Revoke, PassTime, RecordEvents
<1> QED BY <1>2, <1>3

\* A request changes no wallet's transactions.
LEMMA NamingStays ==
  ASSUME UNCHANGED chain, NEW w
  PROVE  Naming(w)' = Naming(w) /\ RoundsNewestFirst(w)' = RoundsNewestFirst(w)
<1>1. Naming(w)' = Naming(w)
  BY DEF Naming, Only
<1> QED BY <1>1 DEF RoundsNewestFirst

\* The kind of an answer.
LEMMA AskedAs ==
  /\ NoAnswer.ask = "nothing"
  /\ \A accountRead, answered, threw : AskTrust(accountRead, answered, threw) => answer'.ask = "trust"
  /\ \A amount, accountRead : AskCredit(amount, accountRead) => answer'.ask = "credit"
  /\ \A app, legacy, newestFirst : AskDelegations(app, legacy, newestFirst) => answer'.ask = "delegation"
  /\ \A lost : AskTrustGraph(lost) => answer'.ask = "trustGraph"
  /\ \A unread : AskSybil(unread) => answer'.ask = "sybil"
  /\ \A failed, denyList : Decide(failed, denyList) => answer'.ask = "decision"
<1>1. NoAnswer.ask = "nothing"
  BY DEF NoAnswer
<1>2. \A accountRead, answered, threw : AskTrust(accountRead, answered, threw) => answer'.ask = "trust"
  BY DEF AskTrust
<1>3. \A amount, accountRead : AskCredit(amount, accountRead) => answer'.ask = "credit"
  BY DEF AskCredit
<1>4. \A app, legacy, newestFirst : AskDelegations(app, legacy, newestFirst) => answer'.ask = "delegation"
  BY DEF AskDelegations
<1>5. \A lost : AskTrustGraph(lost) => answer'.ask = "trustGraph"
  BY DEF AskTrustGraph
<1>6. \A unread : AskSybil(unread) => answer'.ask = "sybil"
  BY DEF AskSybil
<1>7. \A failed, denyList : Decide(failed, denyList) => answer'.ask = "decision"
  BY DEF Decide
<1> QED BY <1>1, <1>2, <1>3, <1>4, <1>5, <1>6, <1>7

(***************************************************************************)
(* For every set of wallets, every account, every pause and every length   *)
(* of the chain, a trust score of src/trust-score.ts keeps the cap of a    *)
(* young account and the decay of an idle one, whichever pages of the      *)
(* history were read.                                                      *)
(***************************************************************************)
THEOREM YoungAndIdleHolds == Spec => []YoungAndIdleStayLow
<1>1. Init => YoungAndIdleStayLow
  BY Zenon, AskedAs DEF Init, YoungAndIdleStayLow
<1>2. AInv /\ YoungAndIdleStayLow /\ [Next]_vars => YoungAndIdleStayLow'
  <2> SUFFICES ASSUME AInv, YoungAndIdleStayLow, [Next]_vars PROVE YoungAndIdleStayLow'
    OBVIOUS
  <2>1. CASE UNCHANGED vars
    <3>1. RoundsNewestFirst(Subject)' = RoundsNewestFirst(Subject) /\ answer' = answer /\ now' = now
      BY <2>1, NamingStays DEF vars
    <3> QED BY <3>1, Zenon DEF YoungAndIdleStayLow
  <2>2. CASE \E accountRead, threw \in BOOLEAN, answered \in 0..MaxPages :
               AskTrust(accountRead, answered, threw)
    BY <2>2, YoungAnswered
  <2>3. CASE answer'.ask # "trust"
    BY <2>3, Zenon DEF YoungAndIdleStayLow
  <2>4. answer' = NoAnswer => answer'.ask = "nothing"
    BY AskedAs
  <2> QED BY <2>1, <2>2, <2>3, <2>4, StepsAnswer, AskedAs, Zenon
<1> QED BY <1>1, <1>2, InOrderAlways, PTL DEF Spec

(***************************************************************************)
(* On the graph of every chain, the batch clustering of src/lib/graph.ts   *)
(* equals the pairwise coefficient, and findConnectedComponents parts      *)
(* every cluster into closed parts that cannot be split.                   *)
(***************************************************************************)
THEOREM GraphAlgorithmsHold == Spec => []GraphAlgorithmsAgree
<1>1. GraphAlgorithmsAgree
  <2>1. IsFiniteSet(Wallets)
    BY AnalysesConstants
  <2> QED BY <2>1, AlgorithmsAgree, Zenon DEF GraphAlgorithmsAgree, Closed
<1> QED BY <1>1, PTL

-----------------------------------------------------------------------------
(***************************************************************************)
(* Reputation: a fold of percentages over sums of counters.                *)
(***************************************************************************)
\* The recursion of FoldLeft over the sets of indices of s.
Folded(T, b, s) ==
  T = [d \in SUBSET DOMAIN s |-> IF d = {} THEN b ELSE Scaled(T[d \ {Max(d)}], s[Max(d)])]

\* f takes one percentage after the other.
ScaledBy(f, b, s, r) ==
  /\ f \in [0..Len(s) -> Int] /\ f[0] = b /\ f[Len(s)] = r
  /\ \A i \in 1..Len(s) : f[i] = Scaled(f[i - 1], s[i])

\* The last of 1..k is k.
LEMMA MaxOfPrefix ==
  ASSUME NEW k \in Nat, k > 0
  PROVE  Max(1..k) = k /\ (1..k) \ {Max(1..k)} = 1..(k - 1)
<1>1. k \in 1..k /\ \A y \in 1..k : k >= y
  OBVIOUS
<1>2. Max(1..k) \in 1..k /\ \A y \in 1..k : Max(1..k) >= y
  BY <1>1, Zenon DEF Max
<1>3. Max(1..k) = k
  BY <1>1, <1>2
<1> QED BY <1>3

\* A greatest element of each nonempty set of numbers up to n.
LEMMA MaxIsIn ==
  ASSUME NEW n \in Nat, NEW d \in SUBSET (1..n), d # {}
  PROVE  Max(d) \in d
<1>1. IsFiniteSet(d) /\ d \in SUBSET Int
  <2>1. IsFiniteSet(1..n)
    BY FS_Interval
  <2>2. IsFiniteSet(d)
    BY <2>1, FS_Subset
  <2> QED BY <2>2
<1>2. \E x \in d : \A y \in d : x >= y
  <2>1. PICK x \in d : \A y \in d : y <= x
    BY <1>1, GreatestNumber
  <2> QED BY <1>1, <2>1
<1> QED BY <1>2, Zenon DEF Max

\* FoldLeft takes the percentages one after the other.
LEMMA ScaledFolds ==
  ASSUME NEW b \in Int, NEW s \in Seq(Int)
  PROVE  \E f : ScaledBy(f, b, s, FoldLeft(Scaled, b, s))
<1> DEFINE n == Len(s)
           S == 1..n
           pick == [d \in SUBSET S |-> Max(d)]
           step == [i \in S |-> [v \in Int |-> Scaled(v, s[i])]]
           T == CHOOSE F : Folded(F, b, s)
<1>1. n \in Nat /\ DOMAIN s = S /\ IsFiniteSet(S) /\ \A i \in S : s[i] \in Int
  BY FS_Interval
<1>2. \A d \in SUBSET S : d # {} => pick[d] = Max(d) /\ pick[d] \in d
  BY <1>1, MaxIsIn
<1>3. \A v \in Int, p \in Int : Scaled(v, p) \in Int
  BY DEF Scaled, Rounded
<1>4. step \in [S -> [Int -> Int]] /\ \A i \in S, v \in Int : step[i][v] = Scaled(v, s[i])
  BY <1>1, <1>3
<1> HIDE DEF pick, step
<1>5. PICK F \in [SUBSET S -> Int] : FoldsBy(F, pick, b, step, SUBSET S)
  <2>1. \A d \in SUBSET S : d # {} => pick[d] \in d
    BY <1>2
  <2>2. Foldable(S, pick, Int, b, step)
    BY <1>1, <1>4, <2>1, FoldExists
  <2> QED BY <2>2 DEF Foldable
<1>6. \A d \in SUBSET S : F[d] = IF d = {} THEN b ELSE Scaled(F[d \ {Max(d)}], s[Max(d)])
  <2> SUFFICES ASSUME NEW d \in SUBSET S
               PROVE  F[d] = IF d = {} THEN b ELSE Scaled(F[d \ {Max(d)}], s[Max(d)])
    OBVIOUS
  <2>1. F[d] = IF d = {} THEN b ELSE step[pick[d]][F[d \ {pick[d]}]]
    BY <1>5 DEF FoldsBy
  <2>2. ASSUME d # {} PROVE step[pick[d]][F[d \ {pick[d]}]] = Scaled(F[d \ {Max(d)}], s[Max(d)])
    <3>1. Max(d) = pick[d] /\ pick[d] \in S /\ d \ {pick[d]} \in SUBSET S
      BY <1>2, <2>2
    <3>2. F[d \ {pick[d]}] \in Int
      BY <1>5, <3>1
    <3> QED BY <1>4, <3>1, <3>2
  <2> QED BY <2>1, <2>2
<1>7. F = [d \in SUBSET S |-> F[d]]
  BY <1>5
<1>8. Folded(F, b, s)
  BY <1>1, <1>6, <1>7, Zenon DEF Folded
<1>9. Folded(T, b, s)
  BY <1>8, Zenon
<1>10. FoldLeft(Scaled, b, s) = T[S]
  BY <1>1 DEF FoldLeft, MapThenFoldSet, Folded
<1> HIDE DEF T
<1>11. \A d \in SUBSET S : T[d] = IF d = {} THEN b ELSE Scaled(T[d \ {Max(d)}], s[Max(d)])
  <2> DEFINE body(d) == IF d = {} THEN b ELSE Scaled(T[d \ {Max(d)}], s[Max(d)])
  <2>1. T = [d \in SUBSET S |-> body(d)]
    BY <1>1, <1>9 DEF Folded
  <2> HIDE DEF body
  <2>2. \A d \in SUBSET S : T[d] = body(d)
    BY <2>1, Zenon
  <2> QED BY <2>2 DEF body
<1> DEFINE f == [i \in 0..n |-> T[1..i]]
<1>12. f[0] = b /\ f[n] = T[S]
  <2>1. 1..0 = {} /\ 0 \in 0..n /\ n \in 0..n
    BY <1>1
  <2>2. T[{}] = b
    BY <1>11
  <2> QED BY <2>1, <2>2
<1>13. \A i \in 1..n : f[i] = Scaled(f[i - 1], s[i])
  <2> SUFFICES ASSUME NEW i \in 1..n PROVE f[i] = Scaled(f[i - 1], s[i])
    OBVIOUS
  <2>1. i \in Nat /\ i > 0 /\ i \in 0..n /\ i - 1 \in 0..n /\ 1..i \in SUBSET S /\ 1..i # {}
    BY <1>1
  <2>2. T[1..i] = Scaled(T[1..(i - 1)], s[i])
    BY <1>11, <2>1, MaxOfPrefix
  <2> QED BY <2>1, <2>2
<1> HIDE DEF f
<1>14. \A i \in 0..n : f[i] \in Int
  <2> DEFINE Bad == {i \in 0..n : f[i] \notin Int}
  <2>1. SUFFICES ASSUME Bad # {} PROVE FALSE
    OBVIOUS
  <2>2. 0 \notin Bad /\ Bad \in SUBSET (0..n)
    BY <1>12
  <2>3. PICK m \in 1..n : m \in Bad /\ m - 1 \in 0..n /\ m - 1 \notin Bad
    <3> HIDE DEF Bad
    <3> QED BY <1>1, <2>1, <2>2, FirstFailure
  <2>4. f[m - 1] \in Int /\ s[m] \in Int /\ f[m] = Scaled(f[m - 1], s[m])
    BY <1>1, <1>13, <2>3
  <2> QED BY <1>3, <2>3, <2>4
<1>15. f \in [0..n -> Int]
  BY <1>14 DEF f
<1> QED BY <1>10, <1>12, <1>13, <1>15 DEF ScaledBy

-----------------------------------------------------------------------------
Counts(c) == c \in [EventTypes -> Nat]
PointsOf(c) == [t \in EventTypes |-> c[t] * Weight[t]]

\* There are finitely many kinds of events, and each weighs something.
LEMMA EventTypesFinite ==
  /\ IsFiniteSet(EventTypes) /\ IsFiniteSet(Negative) /\ IsFiniteSet(EventTypes \ Negative)
  /\ Negative \subseteq EventTypes
  /\ \A t \in EventTypes : Weight[t] \in Nat /\ Weight[t] > 0
<1>1. IsFiniteSet({"payment"}) /\ IsFiniteSet({"dispute"})
  BY FS_Singleton
<1>2. IsFiniteSet({"payment"} \cup {"purchase"} \cup {"endorsement"} \cup {"service"} \cup {"dispute"} \cup {"refund"})
  BY FS_Union, FS_Singleton
<1>3. EventTypes = {"payment"} \cup {"purchase"} \cup {"endorsement"} \cup {"service"} \cup {"dispute"} \cup {"refund"}
  BY DEF EventTypes
<1>4. IsFiniteSet(EventTypes)
  BY <1>2, <1>3
<1>5. Negative \subseteq EventTypes
  BY DEF Negative, EventTypes
<1>6. \A t \in EventTypes : Weight[t] \in Nat /\ Weight[t] > 0
  BY SMT DEF EventTypes, Weight
<1> QED BY <1>4, <1>5, <1>6, FS_Subset

\* A sum of numbers that are not negative.
LEMMA SumNat ==
  ASSUME NEW S, IsFiniteSet(S), NEW f, \A x \in S : f[x] \in Nat
  PROVE  SumOver(f, S) \in Nat
<1> DEFINE g == [x \in S |-> 0]
<1>1. \A x \in S : g[x] \in Int /\ f[x] \in Int /\ g[x] <= f[x] /\ g[x] = 0
  OBVIOUS
<1>2. SumOver(g, S) <= SumOver(f, S)
  <2> HIDE DEF g
  <2> QED BY <1>1, SumGrows
<1>3. SumOver(g, S) = 0
  BY SumOfZeros
<1>4. SumOver(f, S) \in Int
  BY <1>1, SumSplits
<1> QED BY <1>2, <1>3, <1>4

\* A sum with one number that is not zero.
LEMMA SumOfOne ==
  ASSUME NEW S, IsFiniteSet(S), NEW f, NEW x \in S, f[x] \in Int, \A y \in S : y # x => f[y] = 0
  PROVE  SumOver(f, S) = f[x]
<1> DEFINE R == S \ {x}
           g == [y \in R |-> 0]
<1>1. SumOver(f, S) = f[x] + SumOver(f, R)
  BY SumSplits
<1>2. IsFiniteSet(R)
  BY FS_RemoveElement
<1>3. \A y \in R : g[y] \in Int /\ f[y] = g[y]
  OBVIOUS
<1>4. SumOver(g, R) = SumOver(f, R)
  <2> HIDE DEF g, R
  <2> QED BY <1>2, <1>3, SumAgrees
<1>5. SumOver(g, R) = 0
  <2> HIDE DEF R
  <2> QED BY <1>2, SumOfZeros
<1> HIDE DEF g, R
<1> QED BY <1>1, <1>4, <1>5

\* A sum of zeros is zero.
LEMMA SumOfNone ==
  ASSUME NEW S, IsFiniteSet(S), NEW f, \A y \in S : f[y] = 0
  PROVE  SumOver(f, S) = 0
<1> DEFINE g == [y \in S |-> 0]
<1>1. \A y \in S : g[y] \in Int /\ f[y] = g[y]
  OBVIOUS
<1>2. SumOver(g, S) = 0
  BY SumOfZeros
<1> HIDE DEF g
<1> QED BY <1>1, <1>2, SumAgrees

\* The score in terms of the sums: what the seven defences without options are.
Defences(events, positive, negative) ==
  <<100, computeReputationEventMultiplier(events), 100, 100, 100, 100,
    computeRecoveryFactor(positive, negative, events)>>

\* The defences are seven percentages.
LEMMA DefencesAre ==
  ASSUME NEW events \in Nat, NEW positive \in Nat, NEW negative \in Nat
  PROVE  /\ Defences(events, positive, negative) \in Seq(Nat)
         /\ Len(Defences(events, positive, negative)) = 7
<1>1. computeReputationEventMultiplier(events) \in Nat
  BY DEF computeReputationEventMultiplier
<1>2. computeRecoveryFactor(positive, negative, events) \in Nat
  <2>1. CASE negative = 0 \/ positive = 0
    BY <2>1 DEF computeRecoveryFactor
  <2>2. CASE ~(negative = 0 \/ positive = 0)
    <3>1. Least(50, events) \in Nat
      BY DEF Least
    <3>2. 20 * positive * Least(50, events) \in Nat
      BY <3>1
    <3>3. (positive + negative) * 50 \in Nat \ {0}
      BY <2>2
    <3>4. Rounded(20 * positive * Least(50, events), (positive + negative) * 50) \in Nat
      BY <3>2, <3>3, RoundedNat
    <3> QED BY <2>2, <3>4 DEF computeRecoveryFactor
  <2> QED BY <2>1, <2>2
<1> QED BY <1>1, <1>2 DEF Defences

\* A percentage of a natural number is a natural number, and of nothing
\* nothing.
LEMMA ScaledNat ==
  ASSUME NEW v \in Nat, NEW p \in Nat
  PROVE  Scaled(v, p) \in Nat /\ Scaled(0, p) = 0
<1>1. v * p \in Nat /\ 0 * p = 0
  OBVIOUS
<1>2. Rounded(v * p, 100) \in Nat
  BY <1>1, RoundedNat
<1>3. Rounded(0, 100) = 0
  BY DEF Rounded
<1> QED BY <1>1, <1>2, <1>3 DEF Scaled

\* The sums of a reputation are natural numbers.
LEMMA SumsAre ==
  ASSUME NEW c, Counts(c)
  PROVE  /\ SumOver(PointsOf(c), EventTypes \ Negative) \in Nat
         /\ SumOver(PointsOf(c), Negative) \in Nat
         /\ SumOver(c, EventTypes) \in Nat
         /\ SumOver(c, EventTypes \ Negative) \in Nat
         /\ SumOver(c, Negative) \in Nat
<1>1. \A t \in EventTypes : c[t] \in Nat /\ PointsOf(c)[t] \in Nat
  <2>1. \A t \in EventTypes : c[t] \in Nat /\ PointsOf(c)[t] = c[t] * Weight[t]
    BY DEF Counts, PointsOf
  <2> QED BY <2>1, EventTypesFinite
<1>2. \A t \in Negative : t \in EventTypes
  BY EventTypesFinite
<1> QED BY <1>1, <1>2, EventTypesFinite, SumNat

\* How a reputation comes about from its sums and its defences.
ReputationBy(good, bad, defences, score) ==
  IF good + bad = 0 THEN score = 0
  ELSE \E f : /\ ScaledBy(f, Rounded(1000 * good, good + bad), defences, f[7])
              /\ score = Least(1000, f[7])

\* Every reputation comes about that way.
LEMMA ReputationIs ==
  ASSUME NEW c, Counts(c)
  PROVE  LET good == SumOver(PointsOf(c), EventTypes \ Negative)
             bad == SumOver(PointsOf(c), Negative)
             events == SumOver(c, EventTypes)
             defences == Defences(events, SumOver(c, EventTypes \ Negative), SumOver(c, Negative))
             score == computeReputationScore(c, NoOpts)
         IN  /\ good \in Nat /\ bad \in Nat /\ events \in Nat
             /\ defences \in Seq(Nat) /\ Len(defences) = 7
             /\ ReputationBy(good, bad, defences, score)
<1>1. /\ NoOpts.verifiedRatio = None /\ NoOpts.idleDays = None /\ NoOpts.txns = None
      /\ NoOpts.ageDays = None /\ NoOpts.eventAge = None
  BY DEF NoOpts
<1> DEFINE good == SumOver(PointsOf(c), EventTypes \ Negative)
           bad == SumOver(PointsOf(c), Negative)
           events == SumOver(c, EventTypes)
           verified == IF NoOpts.verifiedRatio = None \/ NoOpts.verifiedRatio >= 100 THEN 100
                       ELSE 50 + Most(0, NoOpts.verifiedRatio) \div 2
           recency == IF NoOpts.idleDays = None \/ NoOpts.idleDays <= 180 THEN 100
                      ELSE HalfLife(NoOpts.idleDays - 180)
           ratio == IF NoOpts.txns = None \/ events <= 10 * Most(1, NoOpts.txns) THEN 100
                    ELSE Most(20, (1000 * Most(1, NoOpts.txns)) \div events)
           age == IF NoOpts.ageDays = None THEN 100 ELSE computeWalletAgePenalty(NoOpts.ageDays)
           time == IF NoOpts.eventAge = None THEN 100 ELSE HalfLife(NoOpts.eventAge)
           more == computeReputationEventMultiplier(events)
           recovery == computeRecoveryFactor(SumOver(c, EventTypes \ Negative), SumOver(c, Negative), events)
           defences == <<verified, more, recency, ratio, age, time, recovery>>
<1>2. computeReputationScore(c, NoOpts) =
        IF good + bad = 0 THEN 0
        ELSE Least(1000, FoldLeft(Scaled, Rounded(1000 * good, good + bad), defences))
  BY DEF computeReputationScore, TotalOver, SumOver, PointsOf
<1>3. verified = 100 /\ recency = 100 /\ ratio = 100 /\ age = 100 /\ time = 100
  BY <1>1
<1> HIDE DEF good, bad, verified, recency, ratio, age, time
<1>4. defences = <<100, more, 100, 100, 100, 100, recovery>>
  BY <1>3
<1>5. defences = Defences(events, SumOver(c, EventTypes \ Negative), SumOver(c, Negative))
  BY <1>4 DEF Defences
<1>6. good \in Nat /\ bad \in Nat /\ events \in Nat
      /\ SumOver(c, EventTypes \ Negative) \in Nat /\ SumOver(c, Negative) \in Nat
  BY SumsAre DEF good, bad
<1>7. defences \in Seq(Nat) /\ Len(defences) = 7
  BY <1>5, <1>6, DefencesAre
<1> DEFINE score == computeReputationScore(c, NoOpts)
           start == Rounded(1000 * good, good + bad)
<1> HIDE DEF defences
<1>8. ASSUME good + bad # 0
      PROVE  \E f : ScaledBy(f, start, defences, f[7]) /\ score = Least(1000, f[7])
  <2>1. start \in Int
    <3>1. 1000 * good \in Nat /\ good + bad \in Nat \ {0}
      BY <1>6, <1>8
    <3> QED BY <3>1, RoundedNat
  <2>2. defences \in Seq(Int)
    BY <1>7
  <2>3. PICK f : ScaledBy(f, start, defences, FoldLeft(Scaled, start, defences))
    <3> HIDE DEF start
    <3> QED BY <2>1, <2>2, ScaledFolds
  <2>4. f[7] = FoldLeft(Scaled, start, defences)
    <3> HIDE DEF start
    <3> QED BY <2>3, <1>7 DEF ScaledBy
  <2>5. score = Least(1000, FoldLeft(Scaled, start, defences))
    BY <1>2, <1>8
  <2> HIDE DEF start, score
  <2>6. ScaledBy(f, start, defences, f[7]) /\ score = Least(1000, f[7])
    BY <2>3, <2>4, <2>5, Zenon
  <2> QED BY <2>6
<1>9. good + bad = 0 => score = 0
  BY <1>2
<1>10. ReputationBy(good, bad, defences, score)
  <2> HIDE DEF score, good, bad
  <2> QED BY <1>8, <1>9 DEF ReputationBy
<1>11. ReputationBy(good, bad, Defences(events, SumOver(c, EventTypes \ Negative), SumOver(c, Negative)), score)
  BY <1>5, <1>10, Zenon
<1>12. LET d == Defences(events, SumOver(c, EventTypes \ Negative), SumOver(c, Negative))
       IN  d \in Seq(Nat) /\ Len(d) = 7
  BY <1>5, <1>7
<1> QED BY <1>6, <1>11, <1>12, Zenon DEF good, bad, score

\* Percentages taken one after the other stay natural numbers.
LEMMA ScaledStaysNat ==
  ASSUME NEW b \in Nat, NEW s \in Seq(Nat), NEW r, NEW f, ScaledBy(f, b, s, r)
  PROVE  \A i \in 0..Len(s) : f[i] \in Nat /\ (b = 0 => f[i] = 0)
<1> DEFINE n == Len(s)
           Bad == {i \in 0..n : ~(f[i] \in Nat /\ (b = 0 => f[i] = 0))}
<1>1. n \in Nat /\ f[0] = b /\ \A i \in 1..n : f[i] = Scaled(f[i - 1], s[i]) /\ s[i] \in Nat
  BY DEF ScaledBy
<1> HIDE DEF n
<1>2. SUFFICES ASSUME Bad # {} PROVE FALSE
  BY <1>1 DEF n
<1>3. 0 \notin Bad /\ Bad \in SUBSET (0..n)
  BY <1>1
<1>4. PICK m \in 1..n : m \in Bad /\ m - 1 \in 0..n /\ m - 1 \notin Bad
  <2> HIDE DEF Bad
  <2> QED BY <1>1, <1>2, <1>3, FirstFailure
<1>5. f[m - 1] \in Nat /\ (b = 0 => f[m - 1] = 0) /\ s[m] \in Nat /\ f[m] = Scaled(f[m - 1], s[m])
  BY <1>1, <1>4
<1>6. f[m] \in Nat /\ (b = 0 => f[m] = 0)
  BY <1>5, ScaledNat
<1> QED BY <1>4, <1>6

\* A reputation is a score from 0 to 100, and 0 without a good event.
LEMMA ReputationRanges ==
  ASSUME NEW c, Counts(c)
  PROVE  LET score == computeReputationScore(c, NoOpts)
         IN  /\ score \in Nat /\ score <= 1000
             /\ (\A t \in EventTypes \ Negative : c[t] = 0) => score = 0
<1> DEFINE good == SumOver(PointsOf(c), EventTypes \ Negative)
           bad == SumOver(PointsOf(c), Negative)
           d == Defences(SumOver(c, EventTypes), SumOver(c, EventTypes \ Negative), SumOver(c, Negative))
           score == computeReputationScore(c, NoOpts)
           start == Rounded(1000 * good, good + bad)
<1>1. /\ good \in Nat /\ bad \in Nat /\ d \in Seq(Nat) /\ Len(d) = 7
      /\ ReputationBy(good, bad, d, score)
  BY ReputationIs
<1>2. (\A t \in EventTypes \ Negative : c[t] = 0) => good = 0
  <2> SUFFICES ASSUME \A t \in EventTypes \ Negative : c[t] = 0 PROVE good = 0
    OBVIOUS
  <2>1. \A t \in EventTypes \ Negative : PointsOf(c)[t] = 0
    <3>1. \A t \in EventTypes \ Negative : PointsOf(c)[t] = c[t] * Weight[t] /\ Weight[t] \in Nat
      BY EventTypesFinite DEF PointsOf
    <3> QED BY <3>1
  <2> QED BY <2>1, SumOfNone, EventTypesFinite
<1> HIDE DEF good, bad, d, score
<1>3. CASE good + bad = 0
  BY <1>1, <1>3 DEF ReputationBy, score
<1>4. CASE good + bad # 0
  <2>1. PICK f : ScaledBy(f, start, d, f[7]) /\ score = Least(1000, f[7])
    BY <1>1, <1>4 DEF ReputationBy
  <2>2. start \in Nat /\ (good = 0 => start = 0)
    <3>1. 1000 * good \in Nat /\ good + bad \in Nat \ {0}
      BY <1>1, <1>4
    <3>2. start \in Nat
      BY <3>1, RoundedNat
    <3>3. good = 0 => start = Rounded(0, bad) /\ bad \in Nat \ {0}
      BY <1>1, <1>4
    <3>4. bad \in Nat \ {0} => Rounded(0, bad) = 0
      BY ZeroRounds
    <3> QED BY <3>2, <3>3, <3>4
  <2> HIDE DEF start
  <2>3. f[7] \in Nat /\ (start = 0 => f[7] = 0)
    <3>1. \A i \in 0..Len(d) : f[i] \in Nat /\ (start = 0 => f[i] = 0)
      BY <1>1, <2>1, <2>2, ScaledStaysNat
    <3>2. 7 \in 0..Len(d)
      BY <1>1
    <3> QED BY <3>1, <3>2
  <2>4. score \in Nat /\ score <= 1000 /\ (good = 0 => score = 0)
    BY <2>1, <2>2, <2>3 DEF Least
  <2> QED BY <1>2, <2>4 DEF score
<1> QED BY <1>1, <1>3, <1>4

\* Three payments and nothing else make a reputation of 750.
LEMMA ThreePayments ==
  ASSUME NEW c, Counts(c), c["payment"] = 3, \A t \in EventTypes : t # "payment" => c[t] = 0
  PROVE  computeReputationScore(c, NoOpts) = 750
<1> DEFINE good == SumOver(PointsOf(c), EventTypes \ Negative)
           bad == SumOver(PointsOf(c), Negative)
           events == SumOver(c, EventTypes)
           positive == SumOver(c, EventTypes \ Negative)
           negative == SumOver(c, Negative)
           d == Defences(events, positive, negative)
           score == computeReputationScore(c, NoOpts)
<1>1. /\ "payment" \in EventTypes \ Negative /\ Weight["payment"] = 10
      /\ \A t \in Negative : t \in EventTypes /\ t # "payment"
  BY SMT DEF EventTypes, Negative, Weight
<1>2. \A t \in EventTypes : c[t] \in Int /\ PointsOf(c)[t] = c[t] * Weight[t] /\ Weight[t] \in Nat
  BY EventTypesFinite DEF Counts, PointsOf
<1>3. PointsOf(c)["payment"] = 30 /\ \A t \in EventTypes : t # "payment" => PointsOf(c)[t] = 0
  BY <1>1, <1>2
<1>4. good = 30 /\ positive = 3 /\ events = 3
  <2>1. good = PointsOf(c)["payment"]
    BY <1>1, <1>3, SumOfOne, EventTypesFinite
  <2>2. positive = c["payment"] /\ events = c["payment"]
    BY <1>1, <1>2, SumOfOne, EventTypesFinite
  <2> QED BY <1>3, <2>1, <2>2
<1>5. bad = 0 /\ negative = 0
  BY <1>1, <1>3, SumOfNone, EventTypesFinite
<1>6. d \in Seq(Nat) /\ Len(d) = 7 /\ ReputationBy(good, bad, d, score)
  BY ReputationIs
<1>7. d = <<100, 75, 100, 100, 100, 100, 100>>
  BY <1>4, <1>5 DEF Defences, computeReputationEventMultiplier, computeRecoveryFactor
<1> HIDE DEF good, bad, d, score
<1>8. PICK f : ScaledBy(f, Rounded(1000 * good, good + bad), d, f[7]) /\ score = Least(1000, f[7])
  BY <1>4, <1>5, <1>6 DEF ReputationBy
<1>9. f[0] = 1000
  BY <1>4, <1>5, <1>8 DEF ScaledBy, Rounded
<1>10. \A i \in 1..7 : f[i] = Scaled(f[i - 1], d[i])
  BY <1>6, <1>8 DEF ScaledBy
<1>11. /\ f[1] = Scaled(f[0], 100) /\ f[2] = Scaled(f[1], 75) /\ f[3] = Scaled(f[2], 100)
       /\ f[4] = Scaled(f[3], 100) /\ f[5] = Scaled(f[4], 100) /\ f[6] = Scaled(f[5], 100)
       /\ f[7] = Scaled(f[6], 100)
  BY <1>7, <1>10
<1>12. f[1] = 1000 /\ f[2] = 750
  <2>1. Scaled(1000, 100) = 1000
    BY SMT DEF Scaled, Rounded
  <2>2. Scaled(1000, 75) = 750
    BY SMT DEF Scaled, Rounded
  <2> QED BY <1>9, <1>11, <2>1, <2>2, SMT
<1>13. f[7] = 750
  <2>1. Scaled(750, 100) = 750
    BY DEF Scaled, Rounded
  <2> QED BY <1>11, <1>12, <2>1
<1> QED BY <1>8, <1>13 DEF Least, score
\* The four grades, by their three marks.
LEMMA Grades4 ==
  ASSUME NEW score \in Int
  PROVE  Graded4(score, <<"low", "medium", "high", "critical">>) =
           IF score >= 700 THEN "low" ELSE IF score >= 450 THEN "medium"
           ELSE IF score >= 200 THEN "high" ELSE "critical"
BY SMT DEF Graded4, Graded

\* A reputation is always computed.
LEMMA ReputationIsSome ==
  ASSUME NEW c, Counts(c)
  PROVE  /\ computeReputation(c) # None
         /\ computeReputation(c).reputation = computeReputationScore(c, NoOpts)
<1> DEFINE score == computeReputationScore(c, NoOpts)
           events == TotalOver(c, EventTypes)
           points == {n \in {50, 20, 10, 5} : events >= n}
<1>1. score \in Nat /\ events \in Nat
  BY ReputationRanges, SumsAre DEF TotalOver, SumOver
<1> HIDE DEF score, events
<1> DEFINE words == EventTypes \cup {"no events", "strong", "moderate", "weak", "poor"}
<1>2. classifyReputationRisk(score) \in {"low", "medium", "high", "critical"}
  BY <1>1, SMT DEF classifyReputationRisk, Graded4, Graded
<1>3. generateReputationExplanation(c, score, events) \in SUBSET words
  <2> DEFINE grade == Graded4(score, <<"strong", "moderate", "weak", "poor">>)
             said == {t \in EventTypes : c[t] > 0}
  <2>1. grade \in {"strong", "moderate", "weak", "poor"}
    BY <1>1, SMT DEF Graded4, Graded
  <2>2. said \subseteq EventTypes
    OBVIOUS
  <2>3. generateReputationExplanation(c, score, events) = {"no events"}
        \/ generateReputationExplanation(c, score, events) = said \cup {grade}
    BY Zenon DEF generateReputationExplanation
  <2> HIDE DEF grade, said
  <2>4. said \cup {grade} \in SUBSET words /\ {"no events"} \in SUBSET words
    BY <2>1, <2>2
  <2> QED BY <2>3, <2>4, Zenon
<1> HIDE DEF words
<1>4. computeReputationConfidence(events, events > 0) \in Nat
  <2>1. IsFiniteSet({50, 20, 10, 5})
    <3>1. {50, 20, 10, 5} \in SUBSET (0..50) /\ 0 \in Int /\ 50 \in Int
      BY SMT
    <3>2. IsFiniteSet(0..50)
      BY <3>1, FS_Interval
    <3> QED BY <3>1, <3>2, FS_Subset, SMT
  <2>2. points \in SUBSET {50, 20, 10, 5}
    BY SMT
  <2>3. IsFiniteSet(points)
    BY <2>1, <2>2, FS_Subset, SMT
  <2>4. Cardinality(points) \in Nat
    BY <2>3, FS_CardinalityType
  <2> QED BY <2>4, SMT DEF computeReputationConfidence, Least
<1>5. computeReputation(c) = [reputation |-> score, riskLevel |-> classifyReputationRisk(score),
        totalEvents |-> events, explanation |-> generateReputationExplanation(c, score, events),
        confidence |-> computeReputationConfidence(events, events > 0)]
  BY DEF computeReputation, ReputationResult, score, events
<1>6. computeReputation(c) \in [reputation : Nat, riskLevel : {"low", "medium", "high", "critical"},
                                totalEvents : Nat, explanation : SUBSET words, confidence : Nat]
  BY <1>1, <1>2, <1>3, <1>4, <1>5
<1>7. None \notin [reputation : Nat, riskLevel : {"low", "medium", "high", "critical"},
                    totalEvents : Nat, explanation : SUBSET words, confidence : Nat]
  BY NoneIsNothing, Zenon DEF words
<1>8. computeReputation(c) # None
  BY <1>6, <1>7, Zenon
<1>9. computeReputation(c).reputation = score
  BY <1>5
<1> QED BY <1>8, <1>9, Zenon DEF score

\* The parts of a decision, by the reads that failed.
LEMMA DecisionIs ==
  ASSUME NEW failed, NEW denyList, Decide(failed, denyList)
  PROVE  /\ answer'.failed = failed
         /\ answer'.result = DecidedBy(PartsWithout(failed, denyList))
         /\ answer'.full = DecidedBy(PartsWithout({}, denyList))
         /\ UNCHANGED <<focus, now, chain, counters, disputed, steps>>
BY DEF Decide, Ask, Decided

\* The reputation of a decision is that of the counters read.
LEMMA PartsReputation ==
  ASSUME NEW failed, NEW denyList
  PROVE  PartsWithout(failed, denyList).reputation =
           computeReputation(readCounters(counters, failed \cap EventTypes))
BY DEF PartsWithout, PartsWith

\* A passport states that reputation.
LEMMA RecordedAnswered ==
  ASSUME AInv, NEW failed, NEW denyList, Decide(failed, denyList),
         failed = {}, counters["payment"] = 3, counters["dispute"] = 0
  PROVE  answer'.result.passport.reputation = 750
<1> DEFINE c == readCounters(counters, failed \cap EventTypes)
           parts == PartsWithout(failed, denyList)
<1>1. /\ Counts(c) /\ c["payment"] = 3
      /\ \A t \in EventTypes : t # "payment" => c[t] = 0
  <2>1. c = [t \in EventTypes |-> counters[t]]
    BY DEF readCounters
  <2>2. \A t \in EventTypes : counters[t] \in Nat /\ (counters[t] > 0 => t \in {"payment", "dispute"})
    BY DEF AInv, CountersCount
  <2>3. "payment" \in EventTypes
    BY DEF EventTypes
  <2> QED BY <2>1, <2>2, <2>3 DEF Counts
<1>2. parts.reputation = computeReputation(c)
  BY PartsReputation
<1> HIDE DEF c
<1>3. computeReputation(c) # None /\ computeReputation(c).reputation = 750
  BY <1>1, ReputationIsSome, ThreePayments
<1>4. answer'.result.passport = generatePassport(parts, now)
  <2>1. answer'.result = DecidedBy(parts)
    BY DecisionIs
  <2> HIDE DEF parts
  <2>2. DecidedBy(parts).passport = generatePassport(parts, now)
    BY DEF DecidedBy
  <2> QED BY <2>1, <2>2
<1> HIDE DEF parts
<1>5. generatePassport(parts, now).reputation =
        IF parts.reputation = None THEN 0 ELSE parts.reputation.reputation
  BY DEF generatePassport
<1> QED BY <1>2, <1>3, <1>4, <1>5

(***************************************************************************)
(* Whatever evidence POST /reputation/record was given and whichever of    *)
(* its reads failed, whomever a dispute on record names exchanged a        *)
(* transfer with the subject; and three payments that no transaction shows *)
(* make a reputation of 750.                                               *)
(***************************************************************************)
THEOREM RecordsHold == Spec => []RecordedAsEvidenced
<1>1. Init => RecordedAsEvidenced
  <2>1. Init => AInv /\ answer.ask # "decision"
    BY InvStarts, AskedAs DEF Init
  <2> QED BY <2>1 DEF RecordedAsEvidenced, AInv, DisputesEvidenced
<1>2. AInv /\ RecordedAsEvidenced /\ [Next]_vars => RecordedAsEvidenced'
  <2> SUFFICES ASSUME AInv, RecordedAsEvidenced, [Next]_vars PROVE RecordedAsEvidenced'
    OBVIOUS
  <2>1. DisputesEvidenced'
    BY StepKeepsInv DEF AInv
  <2>2. CASE UNCHANGED vars
    <3>1. Naming(Subject)' = Naming(Subject) /\ answer' = answer /\ counters' = counters
      BY <2>2, NamingStays DEF vars
    <3> QED BY <2>1, <3>1 DEF RecordedAsEvidenced, DisputesEvidenced
  <2>3. ASSUME NEW failed, NEW denyList, Decide(failed, denyList) PROVE RecordedAsEvidenced'
    <3>1. failed = {} /\ counters["payment"] = 3 /\ counters["dispute"] = 0 =>
            answer'.result.passport.reputation = 750
      BY <2>3, RecordedAnswered
    <3>2. answer'.failed = failed /\ counters' = counters
      BY <2>3, DecisionIs
    <3> QED BY <2>1, <3>1, <3>2 DEF RecordedAsEvidenced, DisputesEvidenced
  <2>4. CASE answer'.ask # "decision"
    BY <2>1, <2>4 DEF RecordedAsEvidenced, DisputesEvidenced
  <2>5. answer' = NoAnswer => answer'.ask = "nothing"
    BY AskedAs
  <2> QED BY <2>2, <2>3, <2>4, <2>5, StepsAnswer, AskedAs, Zenon
<1> QED BY <1>1, <1>2, InOrderAlways, PTL DEF Spec

-----------------------------------------------------------------------------
(***************************************************************************)
(* Sybil detection: every signal is a percentage.                          *)
(***************************************************************************)
Portion(n) == Bounded(n, 100)

\* A part of a whole is 0 to 100 percent of it.
LEMMA PercentBounded ==
  ASSUME NEW n \in Nat, NEW d \in Nat \ {0}, n <= d
  PROVE  Portion(Percent(n, d)) /\ Percent(0, d) = 0
<1> DEFINE q == (200 * n + d) \div (2 * d)
<1>1. q \in Nat /\ (2 * d) * q <= 200 * n + d
  <2> DEFINE a == 200 * n + d
             b == 2 * d
  <2>1. a \in Nat /\ b \in Nat \ {0}
    OBVIOUS
  <2> HIDE DEF a, b
  <2>2. a \div b \in Nat /\ b * (a \div b) <= a
    BY <2>1, QuotientNat, Quotient
  <2> QED BY <2>2 DEF a, b
<1> HIDE DEF q
<1>2. q <= 100
  <2> SUFFICES ASSUME q >= 101 PROVE FALSE
    BY <1>1
  <2>1. d * q >= d * 101
    <3>1. q - 101 \in Nat /\ d * (q - 101) \in Nat
      BY <1>1
    <3>2. d * (q - 101) = d * q - d * 101
      BY <1>1
    <3> QED BY <1>1, <3>1, <3>2
  <2>2. d * q \in Int /\ (2 * d) * q = 2 * (d * q)
    BY <1>1
  <2> QED BY <1>1, <2>1, <2>2
<1>3. Percent(0, d) = Rounded(100 * 0, d)
  BY DEF Percent, Rounded
<1>4. Percent(0, d) = 0
  BY <1>3, ZeroRounds
<1> QED BY <1>1, <1>2, <1>4 DEF Percent, Bounded, Portion, q

\* A percentage is a number.
LEMMA PercentInt ==
  ASSUME NEW n \in Int, NEW d \in Nat \ {0}
  PROVE  Percent(n, d) \in Int
<1>1. 200 * n + d \in Int /\ 2 * d \in Nat \ {0}
  OBVIOUS
<1> QED BY <1>1, Quotient DEF Percent

\* The mean of percentages is a percentage.
LEMMA AverageBounded ==
  ASSUME NEW S, IsFiniteSet(S), S # {}, NEW f, \A x \in S : Portion(f[x])
  PROVE  Portion(SumOver(f, S) \div Cardinality(S))
<1> DEFINE k == Cardinality(S)
           total == SumOver(f, S)
           q == total \div k
<1>1. k \in Nat \ {0}
  BY FS_CardinalityType, FS_EmptySet
<1>2. \A x \in S : f[x] \in 0..100
  BY DEF Portion, Bounded
<1>3. total \in Int /\ 0 * k <= total /\ total <= 100 * k
  <2>1. 0 \in Int /\ 100 \in Int
    OBVIOUS
  <2> QED BY <1>2, <2>1, SumBetween
<1> HIDE DEF k, total
<1>4. total \in Nat
  BY <1>1, <1>3
<1>5. q \in Nat /\ k * q <= total
  BY <1>1, <1>4, QuotientNat, Quotient
<1> HIDE DEF q
<1>6. q <= 100
  <2> SUFFICES ASSUME q >= 101 PROVE FALSE
    BY <1>5
  <2>1. k * (q - 101) \in Nat /\ k * (q - 101) = k * q - k * 101
    BY <1>1, <1>5
  <2> QED BY <1>1, <1>3, <1>5, <2>1
<1> QED BY <1>5, <1>6 DEF Portion, Bounded, q, total, k

\* Evenness is a percentage, of any values.
LEMMA EvennessBounded ==
  ASSUME NEW values
  PROVE  Portion(Evenness(values))
<1> DEFINE K(r) == {k \in 1..100 : k * k <= r}
<1>1. \A r : IsFiniteSet(K(r)) /\ Cardinality(K(r)) \in Nat /\ Cardinality(K(r)) <= 100
  <2> SUFFICES ASSUME NEW r
               PROVE  IsFiniteSet(K(r)) /\ Cardinality(K(r)) \in Nat /\ Cardinality(K(r)) <= 100
    OBVIOUS
  <2>1. IsFiniteSet(1..100) /\ Cardinality(1..100) = 100
    <3>1. \A n \in Nat : IsFiniteSet(1..n) /\ Cardinality(1..n) = n
      BY FS_Interval
    <3> QED BY <3>1
  <2>2. K(r) \in SUBSET (1..100)
    OBVIOUS
  <2> HIDE DEF K
  <2> QED BY <2>1, <2>2, FS_Subset, FS_CardinalityType
<1> DEFINE sum == TotalOf(values)
           spread == Len(values) * TotalOf([i \in DOMAIN values |-> values[i] * values[i]]) - sum * sum
           ratio == IF sum * sum < 10000 THEN (10000 * spread) \div (sum * sum)
                    ELSE spread \div ((sum * sum) \div 10000)
<1>2. Evenness(values) = IF Len(values) <= 1 \/ sum = 0 THEN 0 ELSE 100 - Cardinality(K(ratio))
  BY SMT DEF Evenness
<1> HIDE DEF K, sum, ratio
<1>3. \A r : Portion(100 - Cardinality(K(r)))
  BY <1>1 DEF Portion, Bounded
<1> QED BY <1>2, <1>3 DEF Portion, Bounded

\* So is the share of the most frequent value.
LEMMA RepetitionBounded ==
  ASSUME NEW values, NEW n \in Nat, Len(values) = n, DOMAIN values = 1..n
  PROVE  Portion(Repetition(values))
<1>1. CASE n <= 1
  BY <1>1 DEF Repetition, Portion, Bounded
<1>2. CASE n > 1
  <2> DEFINE c == Cardinality(ToSet(values))
  <2>1. IsFiniteSet(1..n) /\ Cardinality(1..n) = n
    BY FS_Interval
  <2>2. ToSet(values) = {values[i] : i \in 1..n}
    BY DEF ToSet
  <2>3. IsFiniteSet(ToSet(values)) /\ c <= n
    BY <2>1, <2>2, ImageFinite
  <2>4. c \in Nat
    BY <2>3, FS_CardinalityType
  <2> HIDE DEF c
  <2>5. n - c \in Nat /\ n - c <= n /\ n \in Nat \ {0}
    BY <1>2, <2>3, <2>4
  <2>6. Portion(Percent(n - c, n))
    BY <2>5, PercentBounded
  <2> QED BY <1>2, <2>6 DEF Repetition, c
<1> QED BY <1>1, <1>2

-----------------------------------------------------------------------------
\* What sybil detection keeps of a transfer.
Transactions == [from : Wallets, to : Wallets, round : Nat, amount : Nat]

\* The transfers of one wallet.
StarOf(w, txs) ==
  /\ txs \in Seq(Transactions)
  /\ \A i \in DOMAIN txs : txs[i].from # txs[i].to /\ w \in {txs[i].from, txs[i].to}

\* In the graph of one wallet's transfers every other wallet has no neighbour
\* but that one.
LEMMA StarGraph ==
  ASSUME NEW w, NEW txs, StarOf(w, txs)
  PROVE  LET adj == buildAdjacencyList(txs)
         IN  /\ DOMAIN adj = GraphNodes(txs)
             /\ \A v \in GraphNodes(txs) : v # w => getNeighbors(adj, v) \subseteq {w}
             /\ \A v : getNeighbors(adj, v) \subseteq GraphNodes(txs) \ {v}
<1> DEFINE adj == buildAdjacencyList(txs)
<1>1. /\ DOMAIN adj = GraphNodes(txs)
      /\ \A v \in GraphNodes(txs) : adj[v] = {u \in GraphNodes(txs) \ {v} :
                                       \E i \in DOMAIN txs : {txs[i].from, txs[i].to} = {u, v}}
  BY DEF buildAdjacencyList
<1>2. ASSUME NEW v \in GraphNodes(txs), v # w, NEW u \in adj[v] PROVE u = w
  <2>1. PICK i \in DOMAIN txs : {txs[i].from, txs[i].to} = {u, v}
    BY <1>1, <1>2
  <2>2. w \in {u, v}
    BY <2>1 DEF StarOf
  <2> QED BY <1>2, <2>2
<1>3. \A v : getNeighbors(adj, v) \subseteq GraphNodes(txs) \ {v}
  BY <1>1 DEF getNeighbors
<1>4. \A v \in GraphNodes(txs) : v # w => getNeighbors(adj, v) \subseteq {w}
  BY <1>1, <1>2 DEF getNeighbors
<1> QED BY <1>1, <1>3, <1>4

\* Its nodes are the wallets of the transfers, finitely many.
LEMMA GraphNodesAre ==
  ASSUME NEW w, NEW txs, StarOf(w, txs)
  PROVE  /\ IsFiniteSet(GraphNodes(txs)) /\ GraphNodes(txs) \subseteq Wallets
         /\ \A v : v \in GraphNodes(txs) <=> \E i \in DOMAIN txs : v \in {txs[i].from, txs[i].to}
         /\ txs # <<>> => w \in GraphNodes(txs) /\ \E v \in GraphNodes(txs) : v # w
<1>1. \A i \in DOMAIN txs : txs[i] \in Transactions /\ txs[i].from # txs[i].to /\ w \in {txs[i].from, txs[i].to}
  BY DEF StarOf
<1>2. \A i \in DOMAIN txs : txs[i].from \in Wallets /\ txs[i].to \in Wallets
  BY <1>1 DEF Transactions
<1>3. \A v : v \in GraphNodes(txs) <=> \E i \in DOMAIN txs : v \in {txs[i].from, txs[i].to}
  BY <1>1 DEF GraphNodes
<1>4. GraphNodes(txs) \subseteq Wallets
  BY <1>2, <1>3
<1>5. IsFiniteSet(GraphNodes(txs))
  BY <1>4, AnalysesConstants, FS_Subset
<1>6. ASSUME txs # <<>> PROVE w \in GraphNodes(txs) /\ \E v \in GraphNodes(txs) : v # w
  <2>1. 1 \in DOMAIN txs
    BY <1>6 DEF StarOf
  <2>2. txs[1].from \in GraphNodes(txs) /\ txs[1].to \in GraphNodes(txs)
    BY <1>3, <2>1
  <2> QED BY <1>1, <2>1, <2>2
<1> QED BY <1>3, <1>4, <1>5, <1>6

\* A pair of neighbours needs two.
LEMMA PairsAre ==
  ASSUME NEW S, NEW p \in Pairs(S)
  PROVE  /\ p \in SUBSET S /\ \E a, b \in p : a # b
         /\ \A x : ~(S \subseteq {x})
<1>1. p \in SUBSET S /\ Cardinality(p) = 2
  BY DEF Pairs
<1>2. ASSUME NEW x, p \subseteq {x} PROVE FALSE
  <2>1. p = {} \/ p = {x}
    BY <1>2
  <2>2. Cardinality({}) = 0 /\ Cardinality({x}) = 1
    BY FS_EmptySet, FS_Singleton
  <2> QED BY <1>1, <2>1, <2>2
<1>3. PICK a \in p : TRUE
  <2>1. p # {}
    BY <1>2
  <2> QED BY <2>1
<1>4. \E b \in p : b # a
  BY <1>2
<1> QED BY <1>1, <1>2, <1>3, <1>4

\* No two neighbours in a star are neighbours of each other: clustering is 0.
LEMMA StarClustering ==
  ASSUME NEW w, NEW txs, StarOf(w, txs), NEW nodes, IsFiniteSet(Members(nodes))
  PROVE  computeAverageClustering(buildAdjacencyList(txs), nodes) = 0
<1> DEFINE adj == buildAdjacencyList(txs)
           counted == Members(nodes) \cap DOMAIN adj
           all == computeAllClusteringCoefficients(adj)
           f == [n \in counted |-> all[n]]
<1>1. /\ DOMAIN adj = GraphNodes(txs)
      /\ \A v \in GraphNodes(txs) : v # w => getNeighbors(adj, v) \subseteq {w}
      /\ \A v : getNeighbors(adj, v) \subseteq GraphNodes(txs) \ {v}
  BY StarGraph
<1>2. IsFiniteSet(GraphNodes(txs))
  BY GraphNodesAre
<1> HIDE DEF adj
<1>3. \A v \in DOMAIN adj : all[v] = 0
  <2> SUFFICES ASSUME NEW v \in DOMAIN adj PROVE all[v] = 0
    OBVIOUS
  <2> DEFINE k == Cardinality(adj[v])
             those == {p \in EdgesOf(adj) : v \notin p /\ \A u \in p : v \in getNeighbors(adj, u)}
  <2>1. all[v] = Coefficient(commonCount(adj, v), k)
    BY DEF computeAllClusteringCoefficients
  <2>2. adj[v] \subseteq GraphNodes(txs) /\ getNeighbors(adj, v) = adj[v]
    BY <1>1 DEF getNeighbors
  <2>3. k \in Nat
    BY <1>2, <2>2, FS_Subset, FS_CardinalityType
  <2>4. CASE v # w
    <3>1. adj[v] \in SUBSET {w}
      BY <1>1, <2>2, <2>4
    <3>2. k <= 1
      <4>1. IsFiniteSet({w}) /\ Cardinality({w}) = 1
        BY FS_Singleton
      <4>2. Cardinality(adj[v]) <= Cardinality({w})
        BY <3>1, <4>1, FS_Subset
      <4> QED BY <4>1, <4>2
    <3> QED BY <2>1, <2>3, <3>2 DEF Coefficient
  <2>5. CASE v = w
    <3>1. those = {}
      <4> SUFFICES ASSUME NEW p \in those PROVE FALSE
        OBVIOUS
      <4>1. p \in Pairs(DOMAIN adj) /\ Joined(adj, p) /\ w \notin p
        BY <2>5 DEF EdgesOf
      <4>2. p \in SUBSET DOMAIN adj
        BY <4>1, PairsAre
      <4>3. PICK a, b \in p : a # b /\ b \in getNeighbors(adj, a)
        BY <4>1 DEF Joined
      <4> QED BY <1>1, <4>1, <4>2, <4>3
    <3>2. commonCount(adj, v) = 0
      BY <3>1, FS_EmptySet DEF commonCount
    <3>3. CASE k < 2
      BY <2>1, <3>3 DEF Coefficient
    <3>4. CASE k >= 2
      <4>1. k * (k - 1) >= 2 /\ k * (k - 1) \in Nat
        <5>1. k - 2 \in Nat /\ k - 1 \in Nat /\ (k - 2) * (k - 1) \in Nat
          BY <2>3, <3>4
        <5>2. (k - 2) * (k - 1) = k * (k - 1) - 2 * (k - 1)
          BY <2>3
        <5> QED BY <2>3, <3>4, <5>1, <5>2
      <4>2. (k * (k - 1)) \div 2 \in Nat \ {0}
        BY <4>1
      <4>3. Percent(0, (k * (k - 1)) \div 2) = 0
        <5> DEFINE d == (k * (k - 1)) \div 2
        <5>1. d \in Nat \ {0}
          BY <4>2
        <5> HIDE DEF d
        <5>2. Percent(0, d) = 0
          BY <5>1, PercentBounded
        <5> QED BY <5>2 DEF d
      <4>4. ~(k < 2)
        BY <2>3, <3>4
      <4> QED BY <2>1, <3>2, <4>3, <4>4, Zenon DEF Coefficient
    <3> QED BY <2>3, <3>3, <3>4
  <2> QED BY <2>4, <2>5
<1>4. IsFiniteSet(counted)
  BY FS_Intersection
<1> HIDE DEF all
<1>5. DOMAIN f = counted /\ \A n \in counted : f[n] = 0
  BY <1>3
<1>6. SumFunction(f) = 0
  <2>1. SumFunction(f) = SumOver(f, counted)
    BY <1>5 DEF SumFunction, SumOver
  <2> HIDE DEF f, counted
  <2> QED BY <1>4, <1>5, <2>1, SumOfNone
<1>7. counted # {} => SumFunction(f) \div Cardinality(counted) = 0
  <2> SUFFICES ASSUME counted # {} PROVE SumFunction(f) \div Cardinality(counted) = 0
    OBVIOUS
  <2>1. Cardinality(counted) \in Nat \ {0}
    BY <1>4, FS_CardinalityType, FS_EmptySet
  <2> HIDE DEF f, counted
  <2>2. 0 \div Cardinality(counted) = 0
    BY <2>1
  <2> QED BY <1>6, <2>2
<1>8. computeAverageClustering(adj, nodes) =
        IF counted = {} THEN 0 ELSE SumFunction(f) \div Cardinality(counted)
  BY DEF computeAverageClustering, all
<1> HIDE DEF f, counted
<1> QED BY <1>7, <1>8, Zenon DEF adj

\* Nothing lies between the leaves of a star but its centre: that density is 0.
LEMMA StarIntermediates ==
  ASSUME NEW w, NEW txs, StarOf(w, txs), NEW nodes, NEW n \in Nat \ {0},
         DOMAIN nodes = 1..n, Len(nodes) = n
  PROVE  computeAverageIntermediateDensity(buildAdjacencyList(txs), nodes) = 0
<1> DEFINE adj == buildAdjacencyList(txs)
           f == [i \in DOMAIN nodes |-> computeIntermediateDensity(adj, nodes[i])]
<1>1. /\ DOMAIN adj = GraphNodes(txs)
      /\ \A v \in GraphNodes(txs) : v # w => getNeighbors(adj, v) \subseteq {w}
      /\ \A v : getNeighbors(adj, v) \subseteq GraphNodes(txs) \ {v}
  BY StarGraph
<1>2. IsFiniteSet(GraphNodes(txs))
  BY GraphNodesAre
<1> HIDE DEF adj
<1>3. \A v : computeIntermediateDensity(adj, v) = 0
  <2> SUFFICES ASSUME NEW v PROVE computeIntermediateDensity(adj, v) = 0
    OBVIOUS
  <2> DEFINE apart == {p \in Pairs(getNeighbors(adj, v)) : ~Joined(adj, p)}
             bridged == {p \in apart : \E u \in DOMAIN adj \ (p \cup {v}) :
                                         \A x \in p : u \in getNeighbors(adj, x)}
  <2>1. bridged = {}
    <3> SUFFICES ASSUME NEW p \in bridged PROVE FALSE
      OBVIOUS
    <3>1. PICK u \in DOMAIN adj \ (p \cup {v}) : \A x \in p : u \in getNeighbors(adj, x)
      OBVIOUS
    <3>2. p \in Pairs(getNeighbors(adj, v))
      OBVIOUS
    <3>3. /\ p \in SUBSET getNeighbors(adj, v) /\ \E a, b \in p : a # b
          /\ \A x : ~(getNeighbors(adj, v) \subseteq {x})
      BY <3>2, PairsAre
    <3>4. v = w
      <4>1. v \in DOMAIN adj
        BY <3>3 DEF getNeighbors
      <4> QED BY <1>1, <3>3, <4>1
    <3>5. PICK a \in p : a # w
      BY <3>3
    <3>6. a \in GraphNodes(txs) /\ u \in getNeighbors(adj, a) /\ u # w
      BY <1>1, <3>1, <3>3, <3>4
    <3> QED BY <1>1, <3>5, <3>6
  <2>2. apart # {} => Percent(Cardinality(bridged), Cardinality(apart)) = 0
    <3> SUFFICES ASSUME apart # {} PROVE Percent(Cardinality(bridged), Cardinality(apart)) = 0
      OBVIOUS
    <3>1. apart \in SUBSET (SUBSET GraphNodes(txs))
      BY <1>1 DEF Pairs
    <3>2. IsFiniteSet(apart)
      <4>1. IsFiniteSet(SUBSET GraphNodes(txs))
        BY <1>2, FS_SUBSET
      <4> HIDE DEF apart
      <4> QED BY <3>1, <4>1, FS_Subset
    <3> HIDE DEF apart, bridged
    <3>3. Cardinality(apart) \in Nat \ {0} /\ Cardinality(bridged) = 0
      BY <2>1, <3>2, FS_CardinalityType, FS_EmptySet
    <3>4. Percent(0, Cardinality(apart)) = 0
      BY <3>3, PercentBounded
    <3> QED BY <3>3, <3>4
  <2>3. computeIntermediateDensity(adj, v) =
          IF apart = {} THEN 0 ELSE Percent(Cardinality(bridged), Cardinality(apart))
    BY DEF computeIntermediateDensity
  <2> HIDE DEF apart, bridged
  <2> QED BY <2>2, <2>3, Zenon
<1>4. DOMAIN f = 1..n /\ \A i \in 1..n : f[i] = 0
  BY <1>3
<1> HIDE DEF f
<1>5. SumFunction(f) = 0
  <2>1. IsFiniteSet(1..n)
    BY FS_Interval
  <2>2. SumFunction(f) = SumOver(f, 1..n)
    BY <1>4 DEF SumFunction, SumOver
  <2> QED BY <1>4, <2>1, <2>2, SumOfNone
<1>6. 0 \div n = 0
  OBVIOUS
<1>7. computeAverageIntermediateDensity(adj, nodes) = 0
  BY <1>5, <1>6, Zenon DEF computeAverageIntermediateDensity, f
<1> QED BY <1>7 DEF adj

\* What is left of the list of nodes: a sequence of wallets, not empty.
NodesOf(nodes) == nodes \in Seq(Wallets) /\ Len(nodes) >= 1

\* A list of nodes and the set of its members.
LEMMA NodesAre ==
  ASSUME NEW nodes, NodesOf(nodes)
  PROVE  /\ Len(nodes) \in Nat \ {0} /\ DOMAIN nodes = 1..Len(nodes)
         /\ IsFiniteSet(Members(nodes)) /\ Members(nodes) # {}
         /\ Members(nodes) = ToSet(nodes)
         /\ IsFiniteSet(DOMAIN nodes)
<1> DEFINE n == Len(nodes)
<1>1. n \in Nat \ {0} /\ DOMAIN nodes = 1..n
  BY DEF NodesOf
<1> HIDE DEF n
<1>2. IsFiniteSet(1..n)
  BY <1>1, FS_Interval
<1>3. Members(nodes) = {nodes[i] : i \in 1..n}
  BY <1>1 DEF Members
<1>4. IsFiniteSet(Members(nodes))
  <2>1. IsFiniteSet({nodes[i] : i \in 1..n})
    BY <1>2, ImageFinite
  <2> QED BY <1>3, <2>1
<1>5. nodes[1] \in Members(nodes)
  BY <1>1, <1>3
<1>6. Members(nodes) = ToSet(nodes)
  BY DEF Members, ToSet
<1> QED BY <1>1, <1>2, <1>4, <1>5, <1>6 DEF n

\* The hub score is a percentage.
LEMMA HubBounded ==
  ASSUME NEW w, NEW txs, StarOf(w, txs), NEW nodes, NodesOf(nodes)
  PROVE  Portion(computeMaxHubScore(buildAdjacencyList(txs), nodes))
<1> DEFINE adj == buildAdjacencyList(txs)
           n == Len(nodes)
           f == [v \in Members(nodes) |-> computeHubScore(adj, v, n)]
           S == {f[v] : v \in Members(nodes)}
<1>1. n \in Nat \ {0} /\ IsFiniteSet(Members(nodes)) /\ Members(nodes) # {}
  BY NodesAre
<1>2. \A v : getNeighbors(adj, v) \subseteq GraphNodes(txs)
  BY StarGraph
<1>3. IsFiniteSet(GraphNodes(txs))
  BY GraphNodesAre
<1> HIDE DEF adj
<1>4. \A v : Portion(computeHubScore(adj, v, n))
  <2> SUFFICES ASSUME NEW v PROVE Portion(computeHubScore(adj, v, n))
    OBVIOUS
  <2> DEFINE degree == Cardinality(getNeighbors(adj, v))
  <2>1. degree \in Nat
    BY <1>2, <1>3, FS_Subset, FS_CardinalityType
  <2>2. computeHubScore(adj, v, n) =
          IF n <= 1 THEN 0 ELSE IF degree >= n - 1 THEN 100 ELSE Percent(degree, n - 1)
    BY DEF computeHubScore
  <2> HIDE DEF degree, n
  <2>3. n > 1 /\ ~(degree >= n - 1) => Portion(Percent(degree, n - 1))
    <3> SUFFICES ASSUME n > 1, ~(degree >= n - 1) PROVE Portion(Percent(degree, n - 1))
      OBVIOUS
    <3> DEFINE d == n - 1
    <3>1. d \in Nat \ {0} /\ degree <= d
      BY <1>1, <2>1
    <3> HIDE DEF d
    <3>2. Portion(Percent(degree, d))
      BY <2>1, <3>1, PercentBounded
    <3> QED BY <3>2 DEF d
  <2> QED BY <1>1, <2>1, <2>2, <2>3 DEF Portion, Bounded
<1> HIDE DEF n
<1>5. \A v \in Members(nodes) : f[v] = computeHubScore(adj, v, n) /\ Portion(f[v])
  BY <1>4
<1>6. IsFiniteSet(S) /\ S # {} /\ \A x \in S : Portion(x)
  <2> HIDE DEF f
  <2>1. IsFiniteSet(S)
    BY <1>1, ImageFinite
  <2> QED BY <1>1, <1>5, <2>1
<1>7. S = {computeHubScore(adj, v, n) : v \in Members(nodes)}
  BY <1>5
<1> HIDE DEF S
<1>8. Highest(S) \in S
  <2>1. S \in SUBSET Int
    BY <1>6 DEF Portion, Bounded
  <2>2. \E x \in S : \A y \in S : y <= x
    BY <1>6, <2>1, GreatestNumber
  <2> QED BY <2>2, Zenon DEF Highest
<1>9. nodes # <<>>
  BY <1>1 DEF n
<1>10. computeMaxHubScore(adj, nodes) = Highest(S)
  BY <1>7, <1>9 DEF computeMaxHubScore, n
<1> QED BY <1>6, <1>8, <1>10 DEF adj

\* The temporal correlation is a percentage.
LEMMA TemporalBounded ==
  ASSUME NEW w, NEW txs, StarOf(w, txs), NEW nodes, NodesOf(nodes)
  PROVE  Portion(computeTemporalCorrelation(txs, nodes))
<1> DEFINE shared(p) == RoundsOf(txs, nodes[p[1]]) \cap RoundsOf(txs, nodes[p[2]])
           either(p) == RoundsOf(txs, nodes[p[1]]) \cup RoundsOf(txs, nodes[p[2]])
           together == {p \in (DOMAIN nodes) \X (DOMAIN nodes) : p[1] < p[2] /\ shared(p) # {}}
           f == [p \in together |-> (100 * Cardinality(shared(p))) \div Cardinality(either(p))]
<1>1. IsFiniteSet(together)
  <2>1. IsFiniteSet((DOMAIN nodes) \X (DOMAIN nodes))
    BY NodesAre, FS_Product
  <2>2. together \in SUBSET ((DOMAIN nodes) \X (DOMAIN nodes))
    OBVIOUS
  <2> HIDE DEF together
  <2> QED BY <2>1, <2>2, FS_Subset
<1>2. \A v : IsFiniteSet(RoundsOf(txs, v))
  <2> SUFFICES ASSUME NEW v PROVE IsFiniteSet(RoundsOf(txs, v))
    OBVIOUS
  <2> DEFINE I == {j \in DOMAIN txs : v \in {txs[j].from, txs[j].to}}
             g == [i \in I |-> txs[i].round]
  <2>1. IsFiniteSet(DOMAIN txs)
    <3>1. Len(txs) \in Nat /\ DOMAIN txs = 1..Len(txs)
      BY DEF StarOf
    <3> QED BY <3>1, FS_Interval
  <2>2. I \in SUBSET DOMAIN txs
    OBVIOUS
  <2>3. IsFiniteSet(I)
    BY <2>1, <2>2, FS_Subset
  <2>4. RoundsOf(txs, v) = {g[i] : i \in I}
    BY DEF RoundsOf
  <2> HIDE DEF I, g
  <2> QED BY <2>3, <2>4, ImageFinite
<1>3. ASSUME NEW p, shared(p) # {}
      PROVE  Portion((100 * Cardinality(shared(p))) \div Cardinality(either(p)))
  <2> DEFINE A == shared(p)
             B == either(p)
             a == Cardinality(A)
             b == Cardinality(B)
  <2>1. IsFiniteSet(B)
    BY <1>2, FS_Union
  <2>2. A \in SUBSET B /\ A # {} /\ B # {}
    BY <1>3
  <2> HIDE DEF A, B
  <2>3. a \in Nat /\ b \in Nat \ {0} /\ a <= b
    BY <2>1, <2>2, FS_Subset, FS_CardinalityType, FS_EmptySet
  <2> HIDE DEF a, b
  <2> DEFINE q == (100 * a) \div b
             m == 100 * a
  <2>4. m \in Nat /\ m <= 100 * b
    BY <2>3
  <2>5. q \in Nat /\ b * q <= m
    <3> HIDE DEF m
    <3>1. m \div b \in Nat /\ b * (m \div b) <= m
      BY <2>3, <2>4, QuotientNat, Quotient
    <3> QED BY <3>1 DEF m
  <2> HIDE DEF q, m
  <2>6. q <= 100
    <3> SUFFICES ASSUME q >= 101 PROVE FALSE
      BY <2>5
    <3>1. b * (q - 101) \in Nat /\ b * (q - 101) = b * q - b * 101
      BY <2>3, <2>5
    <3> QED BY <2>3, <2>4, <2>5, <3>1
  <2> QED BY <2>5, <2>6 DEF Portion, Bounded, q, a, b, A, B
<1>4. \A p \in together : Portion(f[p])
  <2> SUFFICES ASSUME NEW p \in together PROVE Portion(f[p])
    OBVIOUS
  <2>1. shared(p) # {}
    OBVIOUS
  <2>2. f[p] = (100 * Cardinality(shared(p))) \div Cardinality(either(p))
    <3> HIDE DEF shared, either, together
    <3> QED OBVIOUS
  <2> HIDE DEF shared, either, together, f
  <2> QED BY <1>3, <2>1, <2>2
<1>5. SumFunction(f) = SumOver(f, together)
  <2> HIDE DEF together
  <2> QED BY DEF SumFunction, SumOver
<1>6. computeTemporalCorrelation(txs, nodes) =
        IF together = {} THEN 0 ELSE SumFunction(f) \div Cardinality(together)
  BY DEF computeTemporalCorrelation
<1> HIDE DEF together, f
<1>7. together # {} => Portion(SumOver(f, together) \div Cardinality(together))
  BY <1>1, <1>4, AverageBounded
<1> QED BY <1>5, <1>6, <1>7 DEF Portion, Bounded

-----------------------------------------------------------------------------
\* The transfers of a wallet are a finite list.
LEMMA StarIsFinite ==
  ASSUME NEW w, NEW txs, StarOf(w, txs)
  PROVE  /\ Len(txs) \in Nat /\ DOMAIN txs = 1..Len(txs)
         /\ IsFiniteSet(DOMAIN txs) /\ Cardinality(DOMAIN txs) = Len(txs)
<1>1. Len(txs) \in Nat /\ DOMAIN txs = 1..Len(txs)
  BY DEF StarOf
<1>2. \A n \in Nat : IsFiniteSet(1..n) /\ Cardinality(1..n) = n
  BY FS_Interval
<1> QED BY <1>1, <1>2

\* The transfers inside a set of wallets are some of the transfers.
LEMMA DensityBounded ==
  ASSUME NEW w, NEW txs, StarOf(w, txs), NEW internal \in SUBSET DOMAIN txs
  PROVE  Portion(computeInteractionDensity(Cardinality(internal), Len(txs) - Cardinality(internal)))
<1> DEFINE n == Len(txs)
           c == Cardinality(internal)
<1>1. n \in Nat /\ c \in Nat /\ c <= n
  BY StarIsFinite, FS_Subset, FS_CardinalityType
<1> HIDE DEF n, c
<1>2. c + (n - c) = n /\ (n # 0 => n \in Nat \ {0})
  BY <1>1
<1>3. n # 0 => Portion(Percent(c, n))
  BY <1>1, <1>2, PercentBounded
<1>4. computeInteractionDensity(c, n - c) = IF n = 0 THEN 0 ELSE Percent(c, n)
  BY <1>2 DEF computeInteractionDensity
<1> QED BY <1>3, <1>4 DEF Portion, Bounded, n, c

\* The pairs paid both ways are some of the pairs paid.
LEMMA CircularBounded ==
  ASSUME NEW w, NEW txs, StarOf(w, txs)
  PROVE  Portion(computeCircularActivity(txs))
<1> DEFINE way == [i \in DOMAIN txs |-> <<txs[i].from, txs[i].to>>]
           pairs == {<<txs[i].from, txs[i].to>> : i \in DOMAIN txs}
           ends == [p \in pairs |-> {p[1], p[2]}]
           both == {{p[1], p[2]} : p \in {q \in pairs : <<q[2], q[1]>> \in pairs}}
           all == {{p[1], p[2]} : p \in pairs}
<1>1. IsFiniteSet(pairs)
  <2>1. pairs = {way[i] : i \in DOMAIN txs}
    OBVIOUS
  <2>2. IsFiniteSet({way[i] : i \in DOMAIN txs})
    <3> HIDE DEF way
    <3> QED BY StarIsFinite, ImageFinite
  <2> QED BY <2>1, <2>2
<1>2. computeCircularActivity(txs) =
        IF pairs = {} THEN 0 ELSE Percent(Cardinality(both), Cardinality(all))
  BY DEF computeCircularActivity
<1> HIDE DEF pairs
<1>3. IsFiniteSet(all)
  <2>1. all = {ends[p] : p \in pairs}
    OBVIOUS
  <2>2. IsFiniteSet({ends[p] : p \in pairs})
    <3> HIDE DEF ends
    <3> QED BY <1>1, ImageFinite
  <2> QED BY <2>1, <2>2
<1>4. both \in SUBSET all /\ (pairs # {} => all # {})
  OBVIOUS
<1> HIDE DEF both, all
<1>5. Cardinality(both) \in Nat /\ Cardinality(all) \in Nat /\ Cardinality(both) <= Cardinality(all)
  BY <1>3, <1>4, FS_Subset, FS_CardinalityType
<1>6. all # {} => Cardinality(all) \in Nat \ {0}
  BY <1>3, <1>5, FS_EmptySet
<1>7. pairs # {} => Portion(Percent(Cardinality(both), Cardinality(all)))
  BY <1>4, <1>5, <1>6, PercentBounded
<1> QED BY <1>2, <1>7 DEF Portion, Bounded

\* How close the accounts were created; 0 when no node says when.
LEMMA CreationIs ==
  ASSUME NEW s \in Seq(Nat), NEW reference
  PROVE  LET v == computeCreationClustering(Only(s, LAMBDA r : r > 0), reference)
         IN  v \in Int /\ ((\A i \in DOMAIN s : s[i] = 0) => v = 0)
<1> DEFINE dropped == {s[i] : i \in {j \in DOMAIN s : ~(s[j] > 0)}}
           rounds == Only(s, LAMBDA r : r > 0)
           outside == {rounds[i] : i \in {j \in DOMAIN rounds : ~(Distance(rounds[j], reference) <= CreationWindow)}}
           inWindow == Only(rounds, LAMBDA r : Distance(r, reference) <= CreationWindow)
           v == computeCreationClustering(rounds, reference)
<1>1. rounds = Drop(s, dropped)
  BY DEF Only
<1>2. rounds \in Seq(Nat) /\ ToSet(rounds) = ToSet(s) \ dropped
  <2> HIDE DEF dropped, rounds
  <2> QED BY <1>1, DropKeeps
<1>3. inWindow = Drop(rounds, outside)
  <2> HIDE DEF rounds
  <2> QED BY DEF Only
<1>4. v = IF Len(rounds) <= 1 THEN 0 ELSE Percent(Len(inWindow) - 1, Len(rounds) - 1)
  <2> HIDE DEF rounds
  <2> QED BY DEF computeCreationClustering
<1>5. ASSUME \A i \in DOMAIN s : s[i] = 0 PROVE rounds = <<>>
  <2>1. \A i \in DOMAIN s : s[i] \in dropped
    BY <1>5
  <2>2. ToSet(s) \subseteq dropped
    BY <2>1 DEF ToSet
  <2>3. ToSet(rounds) = {}
    BY <1>2, <2>2
  <2> HIDE DEF rounds
  <2>4. DOMAIN rounds = {}
    BY <2>3 DEF ToSet
  <2> QED BY <1>2, <2>4
<1> HIDE DEF rounds, outside
<1>6. inWindow \in Seq(Nat)
  BY <1>2, <1>3, DropKeeps
<1> HIDE DEF inWindow
<1>7. ~(Len(rounds) <= 1) => Percent(Len(inWindow) - 1, Len(rounds) - 1) \in Int
  <2> SUFFICES ASSUME ~(Len(rounds) <= 1) PROVE Percent(Len(inWindow) - 1, Len(rounds) - 1) \in Int
    OBVIOUS
  <2> DEFINE a == Len(inWindow) - 1
             b == Len(rounds) - 1
  <2>1. a \in Int /\ b \in Nat \ {0}
    <3>1. Len(inWindow) \in Nat /\ Len(rounds) \in Nat
      BY <1>2, <1>6
    <3>2. \A k \in Nat : k - 1 \in Int /\ (~(k <= 1) => k - 1 \in Nat \ {0})
      OBVIOUS
    <3> QED BY <3>1, <3>2
  <2> HIDE DEF a, b
  <2>2. Percent(a, b) \in Int
    BY <2>1, PercentInt
  <2> QED BY <2>2 DEF a, b
<1>8. v \in Int
  <2> HIDE DEF v
  <2> QED BY <1>4, <1>7
<1>9. Len(<<>>) <= 1
  OBVIOUS
<1>10. (\A i \in DOMAIN s : s[i] = 0) => v = 0
  <2> HIDE DEF v
  <2> QED BY <1>4, <1>5, <1>9
<1> HIDE DEF v
<1>11. computeCreationClustering(Only(s, LAMBDA r : r > 0), reference) = v
  BY DEF v, rounds
<1> QED BY <1>8, <1>10, <1>11

\* The signals of a star, over any list of wallets.
SignalsBounded(s) ==
  /\ s.creationClustering \in Int
  /\ Portion(s.interactionDensity) /\ Portion(s.balanceSimilarity) /\ Portion(s.circularActivity)
  /\ Portion(s.timingRegularity) /\ Portion(s.amountFingerprint) /\ Portion(s.fundingCorrelation)
  /\ s.neighborhoodClustering = 0 /\ Portion(s.hubScore) /\ s.intermediateDensity = 0
  /\ Portion(s.temporalCorrelation)

\* Every signal is a percentage; without creation rounds their clustering is 0.
LEMMA SignalsAre ==
  ASSUME NEW w, NEW txs, StarOf(w, txs), NEW cluster, NodesOf(cluster), NEW infos, NEW reference,
         \A v \in Wallets : infos[v].createdRound \in Nat
  PROVE  LET s == SignalsOf(infos, reference, txs, cluster, computeGraphSignals(txs, cluster))
         IN  /\ SignalsBounded(s)
             /\ (\A v \in Wallets : infos[v].createdRound = 0) => s.creationClustering = 0
<1> DEFINE n == Len(cluster)
           graph == computeGraphSignals(txs, cluster)
           born == [i \in DOMAIN cluster |-> infos[cluster[i]].createdRound]
           internal == {i \in DOMAIN txs : {txs[i].from, txs[i].to} \subseteq ToSet(cluster)}
           amounts == [i \in DOMAIN txs |-> txs[i].amount]
           paid == Only(amounts, LAMBDA a : a > 0)
           funders == [i \in DOMAIN cluster |-> fundingSource(txs, cluster[i])]
           creation == computeCreationClustering(Only(born, LAMBDA r : r > 0), reference)
<1>1. n \in Nat \ {0} /\ DOMAIN cluster = 1..n /\ IsFiniteSet(Members(cluster))
      /\ \A i \in 1..n : cluster[i] \in Wallets
  BY NodesAre DEF NodesOf
<1>2. born \in Seq(Nat) /\ creation \in Int
      /\ ((\A v \in Wallets : infos[v].createdRound = 0) => creation = 0)
  <2>1. DOMAIN born = 1..n /\ \A i \in 1..n : born[i] = infos[cluster[i]].createdRound
    BY <1>1
  <2>2. born \in [1..n -> Nat]
    BY <1>1
  <2>3. born \in Seq(Nat)
    BY <1>1, <2>2
  <2> HIDE DEF born
  <2>4. creation \in Int /\ ((\A i \in DOMAIN born : born[i] = 0) => creation = 0)
    BY <2>3, CreationIs
  <2> HIDE DEF creation
  <2> QED BY <1>1, <2>1, <2>3, <2>4
<1>3. graph.neighborhoodClustering = 0 /\ Portion(graph.hubScore) /\ graph.intermediateDensity = 0
      /\ Portion(graph.temporalCorrelation)
  <2>1. computeAverageClustering(buildAdjacencyList(txs), cluster) = 0
    BY <1>1, StarClustering
  <2>2. computeAverageIntermediateDensity(buildAdjacencyList(txs), cluster) = 0
    <3> HIDE DEF n
    <3> QED BY <1>1, StarIntermediates DEF n
  <2> QED BY <2>1, <2>2, HubBounded, TemporalBounded DEF computeGraphSignals
<1>4. Portion(computeInteractionDensity(Cardinality(internal), Len(txs) - Cardinality(internal)))
  <2>1. internal \in SUBSET DOMAIN txs
    OBVIOUS
  <2> HIDE DEF internal
  <2> QED BY <2>1, DensityBounded
<1>5. Portion(Repetition(paid))
  <2>1. Len(txs) \in Nat /\ DOMAIN txs = 1..Len(txs) /\ \A i \in DOMAIN txs : txs[i].amount \in Nat
    <3>1. \A i \in DOMAIN txs : txs[i] \in Transactions
      BY DEF StarOf
    <3>2. \A t \in Transactions : t.amount \in Nat
      BY DEF Transactions
    <3> QED BY <3>1, <3>2, StarIsFinite
  <2>2. amounts \in [1..Len(txs) -> Nat]
    BY <2>1
  <2>3. amounts \in Seq(Nat)
    BY <2>1, <2>2
  <2> HIDE DEF amounts
  <2>4. paid \in Seq(Nat)
    BY <2>3, DropKeeps DEF Only
  <2> HIDE DEF paid
  <2>5. Len(paid) \in Nat /\ DOMAIN paid = 1..Len(paid)
    BY <2>4
  <2> QED BY <2>5, RepetitionBounded
<1>6. Portion(Repetition(funders))
  <2>1. DOMAIN funders = 1..n /\ Len(funders) = n /\ n \in Nat
    BY <1>1
  <2> HIDE DEF funders, n
  <2> QED BY <2>1, RepetitionBounded
<1>7. SignalsOf(infos, reference, txs, cluster, graph) =
       [creationClustering |-> creation,
        interactionDensity |->
          computeInteractionDensity(Cardinality(internal), Len(txs) - Cardinality(internal)),
        balanceSimilarity |-> Evenness([i \in DOMAIN cluster |-> infos[cluster[i]].balance]),
        circularActivity |-> computeCircularActivity(txs),
        timingRegularity |-> Evenness(Intervals(txs)),
        amountFingerprint |-> Repetition(paid),
        fundingCorrelation |-> Repetition(funders),
        neighborhoodClustering |-> graph.neighborhoodClustering, hubScore |-> graph.hubScore,
        intermediateDensity |-> graph.intermediateDensity,
        temporalCorrelation |-> graph.temporalCorrelation]
  BY DEF SignalsOf
<1>8. Portion(computeCircularActivity(txs))
  BY CircularBounded
<1>9. /\ Portion(Evenness([i \in DOMAIN cluster |-> infos[cluster[i]].balance]))
      /\ Portion(Evenness(Intervals(txs)))
  BY EvennessBounded
<1> HIDE DEF creation, internal, paid, funders, graph
<1>10. SignalsBounded(SignalsOf(infos, reference, txs, cluster, graph))
  BY <1>2, <1>3, <1>4, <1>5, <1>6, <1>7, <1>8, <1>9 DEF SignalsBounded
<1>11. SignalsOf(infos, reference, txs, cluster, graph).creationClustering = creation
  BY <1>7
<1> QED BY <1>2, <1>10, <1>11 DEF graph

-----------------------------------------------------------------------------
\* A wallet of the graph is first seen in a transfer that names it.
LEMMA FirstSeenIs ==
  ASSUME NEW w, NEW txs, StarOf(w, txs), NEW v \in GraphNodes(txs)
  PROVE  /\ firstSeen(txs, v) \in Nat
         /\ v \in {txs[firstSeen(txs, v)].from, txs[firstSeen(txs, v)].to}
<1> DEFINE I == {i \in DOMAIN txs : v \in {txs[i].from, txs[i].to}}
<1>1. I # {}
  BY GraphNodesAre
<1>2. I \in SUBSET Nat
  <2>1. DOMAIN txs \in SUBSET Nat
    BY StarIsFinite
  <2> QED BY <2>1
<1>3. PICK m \in I : \A n \in I : m <= n
  BY <1>1, <1>2, LeastNumber
<1>4. \E i \in DOMAIN txs : v \in {txs[i].from, txs[i].to}
        /\ \A j \in DOMAIN txs : v \in {txs[j].from, txs[j].to} => i <= j
  BY <1>3
<1>5. firstSeen(txs, v) \in I
  BY <1>4, Zenon DEF firstSeen
<1> QED BY <1>2, <1>5

\* The number of transfers with a counterparty is a number.
LEMMA CountIs ==
  ASSUME NEW w, NEW txs, StarOf(w, txs), NEW v
  PROVE  counterpartyCount(txs, v) \in Nat
<1>1. {i \in DOMAIN txs : v \in {txs[i].from, txs[i].to}} \in SUBSET DOMAIN txs
  OBVIOUS
<1> QED BY <1>1, StarIsFinite, FS_Subset, FS_CardinalityType DEF counterpartyCount

\* The wallets of the transfers, by countedBefore.
CountOrder(txs) == {p \in GraphNodes(txs) \X GraphNodes(txs) : countedBefore(txs, p[1], p[2])}

\* Ordering counterparties by count, then by first sight, is a strict total
\* order.
LEMMA CountOrders ==
  ASSUME NEW w, NEW txs, StarOf(w, txs)
  PROVE  /\ Orders(CountOrder(txs), GraphNodes(txs))
         /\ \A x, y \in GraphNodes(txs) : <<x, y>> \in CountOrder(txs) <=> countedBefore(txs, x, y)
<1> DEFINE S == GraphNodes(txs)
           n(v) == counterpartyCount(txs, v)
           f(v) == firstSeen(txs, v)
           to(v) == txs[f(v)].to
           from(v) == txs[f(v)].from
<1>1. \A v \in S : n(v) \in Nat /\ f(v) \in Nat /\ v \in {from(v), to(v)}
  BY FirstSeenIs, CountIs
<1>2. \A x, y : countedBefore(txs, x, y) <=>
        n(x) > n(y) \/ (n(x) = n(y) /\ (f(x) < f(y) \/ (f(x) = f(y) /\ to(x) = x)))
  BY DEF countedBefore
<1>3. \A x, y \in S : f(x) = f(y) => to(x) = to(y) /\ from(x) = from(y)
  OBVIOUS
<1>4. \A x, y \in S : <<x, y>> \in CountOrder(txs) <=> countedBefore(txs, x, y)
  BY DEF CountOrder
<1> HIDE DEF S, n, f, to, from
<1>5. \A x, y \in S : x # y => countedBefore(txs, x, y) \/ countedBefore(txs, y, x)
  <2> SUFFICES ASSUME NEW x \in S, NEW y \in S, x # y
               PROVE  countedBefore(txs, x, y) \/ countedBefore(txs, y, x)
    OBVIOUS
  <2>1. f(x) = f(y) => to(x) = x \/ to(y) = y
    BY <1>1, <1>3
  <2> QED BY <1>1, <1>2, <2>1
<1>6. \A x, y, z \in S : countedBefore(txs, x, y) /\ countedBefore(txs, y, z) => countedBefore(txs, x, z)
  <2> SUFFICES ASSUME NEW x \in S, NEW y \in S, NEW z \in S,
                      countedBefore(txs, x, y), countedBefore(txs, y, z)
               PROVE  countedBefore(txs, x, z)
    OBVIOUS
  <2>1. f(x) = f(y) => to(x) = to(y)
    BY <1>3
  <2> QED BY <1>1, <1>2, <2>1
<1>7. \A x, y \in S : <<x, y>> \in CountOrder(txs) <=> countedBefore(txs, x, y)
  BY <1>4 DEF S
<1>8. Orders(CountOrder(txs), S)
  BY <1>5, <1>6, <1>7, Zenon DEF Orders
<1> QED BY <1>7, <1>8 DEF S

\* The counterparties are wallets, each once; a transfer has two.
LEMMA CounterpartiesAre ==
  ASSUME NEW w, NEW txs, StarOf(w, txs)
  PROVE  /\ sortedCounterparties(txs) \in Seq(Wallets)
         /\ txs # <<>> => /\ {1, 2} \subseteq DOMAIN sortedCounterparties(txs)
                          /\ sortedCounterparties(txs)[1] # sortedCounterparties(txs)[2]
<1> DEFINE S == GraphNodes(txs)
           c == Cardinality(S)
           Sorted(f) == \A i, j \in DOMAIN f : i < j => f[i] # f[j] /\ countedBefore(txs, f[i], f[j])
           sorted == CHOOSE f \in [1..c -> S] : Sorted(f)
           m == Smaller(MaxCluster, Len(sorted))
<1>1. IsFiniteSet(S) /\ S \subseteq Wallets /\ c \in Nat
  BY GraphNodesAre, FS_CardinalityType
<1>2. \E f \in [1..c -> S] : Sorted(f)
  <2> HIDE DEF S
  <2>1. PICK f : Listing(f, CountOrder(txs), S)
    BY <1>1, CountOrders, OrderLists DEF S
  <2>2. f \in [1..c -> S] /\ \A i, j \in 1..c : i < j => f[i] # f[j] /\ <<f[i], f[j]>> \in CountOrder(txs)
    BY <2>1 DEF Listing
  <2>3. \A x, y \in S : <<x, y>> \in CountOrder(txs) <=> countedBefore(txs, x, y)
    BY CountOrders DEF S
  <2> QED BY <2>2, <2>3
<1>3. sorted \in [1..c -> S] /\ Sorted(sorted)
  BY <1>2, Zenon
<1>4. sortedCounterparties(txs) = SubSeq(sorted, 1, m)
  BY DEF sortedCounterparties
<1> HIDE DEF sorted, c, S
<1>5. Len(sorted) = c /\ sorted \in Seq(S)
  BY <1>1, <1>3
<1>6. m \in Nat /\ m <= c
  BY <1>1, <1>5, SybilConstants DEF Smaller
<1>7. SubSeq(sorted, 1, m) \in Seq(S) /\ Len(SubSeq(sorted, 1, m)) = m
      /\ \A i \in 1..m : SubSeq(sorted, 1, m)[i] = sorted[i]
  BY <1>1, <1>5, <1>6
<1>8. ASSUME txs # <<>> PROVE m >= 2 /\ sorted[1] # sorted[2]
  <2>1. c >= 2
    <3>1. PICK v \in S : w \in S /\ v # w
      BY <1>8, GraphNodesAre DEF S
    <3>2. {v, w} \in SUBSET S
      BY <3>1
    <3>3. Cardinality({v, w}) = 2
      <4>1. IsFiniteSet({v}) /\ Cardinality({v}) = 1
        BY FS_Singleton
      <4>2. Cardinality({v} \cup {w}) = Cardinality({v}) + 1
        BY <3>1, <4>1, FS_AddElement
      <4>3. {v} \cup {w} = {v, w}
        OBVIOUS
      <4> QED BY <4>1, <4>2, <4>3
    <3>4. Cardinality({v, w}) <= Cardinality(S)
      BY <1>1, <3>2, FS_Subset
    <3> QED BY <3>3, <3>4 DEF c
  <2> QED BY <1>1, <1>3, <1>5, <2>1, SybilConstants DEF Smaller
<1> HIDE DEF m
<1>9. Seq(S) \subseteq Seq(Wallets)
  BY <1>1
<1> DEFINE t == sortedCounterparties(txs)
<1>10. t \in Seq(S) /\ Len(t) = m /\ \A i \in 1..m : t[i] = sorted[i]
  BY <1>4, <1>7
<1> HIDE DEF t
<1>11. ASSUME txs # <<>> PROVE {1, 2} \subseteq DOMAIN t /\ t[1] # t[2]
  <2>1. DOMAIN t = 1..m
    BY <1>10
  <2> QED BY <1>6, <1>8, <1>10, <1>11, <2>1
<1> QED BY <1>9, <1>10, <1>11 DEF t

-----------------------------------------------------------------------------
\* What is read of the wallet is a star, with a transfer where one names it.
LEMMA PaymentsAre ==
  ASSUME AInv
  PROVE  /\ StarOf(Subject, ownTransfers(Payments, Subject))
         /\ Naming(Subject) # <<>> => ownTransfers(Payments, Subject) # <<>>
<1> DEFINE other == {chain[i] : i \in {j \in DOMAIN chain : ~(chain[j].kind = "pay")}}
           paid == Only(chain, LAMBDA c : c.kind = "pay")
           txs == Payments
           self == {txs[i] : i \in {j \in DOMAIN txs : ~(txs[j].from # txs[j].to)}}
           moved == Transfers(txs)
           far == {moved[i] : i \in {j \in DOMAIN moved : ~(Subject \in {moved[j].from, moved[j].to})}}
           own == ownTransfers(txs, Subject)
<1>1. chain \in Seq(Entries) /\ \A i \in DOMAIN chain : chain[i].from # chain[i].to
  BY DEF AInv, ChainInOrder
<1>2. paid \in Seq(Entries) /\ ToSet(paid) = {e \in ToSet(chain) : e.kind = "pay"}
  <2>1. paid = Drop(chain, other)
    BY DEF Only
  <2>2. ToSet(chain) \ other = {e \in ToSet(chain) : e.kind = "pay"}
    BY DEF ToSet
  <2> HIDE DEF other, paid
  <2> QED BY <1>1, <2>1, <2>2, DropKeeps
<1>3. txs = [i \in DOMAIN paid |->
        [from |-> paid[i].from, to |-> paid[i].to, round |-> paid[i].day, amount |-> paid[i].amount]]
  BY DEF Payments
<1> HIDE DEF paid, txs
<1>4. DOMAIN paid = 1..Len(paid) /\ Len(paid) \in Nat /\ \A i \in DOMAIN paid : paid[i] \in Entries
  BY <1>2
<1>5. txs \in Seq(Transactions)
  <2>1. \A e \in Entries : [from |-> e.from, to |-> e.to, round |-> e.day, amount |-> e.amount] \in Transactions
    BY DEF Entries, Transactions
  <2>2. txs \in [1..Len(paid) -> Transactions]
    BY <1>3, <1>4, <2>1
  <2> QED BY <1>4, <2>2
<1>6. moved \in Seq(Transactions) /\ ToSet(moved) = ToSet(txs) \ self
  <2>1. moved = Drop(txs, self)
    BY DEF Transfers, Only
  <2> HIDE DEF self, moved
  <2> QED BY <1>5, <2>1, DropKeeps
<1>7. own \in Seq(Transactions) /\ ToSet(own) = ToSet(moved) \ far
  <2>1. own = Drop(moved, far)
    BY DEF ownTransfers, Only
  <2> HIDE DEF far, own, moved
  <2> QED BY <1>6, <2>1, DropKeeps
<1>8. \A t \in ToSet(moved) : t.from # t.to
  <2> SUFFICES ASSUME NEW t \in ToSet(moved), ~(t.from # t.to) PROVE FALSE
    OBVIOUS
  <2>1. t \in ToSet(txs) /\ t \notin self
    BY <1>6
  <2>2. PICK j \in DOMAIN txs : t = txs[j]
    BY <2>1 DEF ToSet
  <2> QED BY <2>1, <2>2
<1>9. \A t \in ToSet(own) : t \in ToSet(moved) /\ Subject \in {t.from, t.to}
  <2> SUFFICES ASSUME NEW t \in ToSet(own), ~(Subject \in {t.from, t.to}) PROVE FALSE
    BY <1>7
  <2>1. t \in ToSet(moved) /\ t \notin far
    BY <1>7
  <2>2. PICK j \in DOMAIN moved : t = moved[j]
    BY <2>1 DEF ToSet
  <2> QED BY <2>1, <2>2
<1>10. StarOf(Subject, own)
  <2>1. \A i \in DOMAIN own : own[i] \in ToSet(own)
    BY DEF ToSet
  <2> HIDE DEF own, moved
  <2> QED BY <1>7, <1>8, <1>9, <2>1 DEF StarOf
<1>11. ASSUME Naming(Subject) # <<>> PROVE own # <<>>
  <2>1. Naming(Subject) \in Seq(Entries)
        /\ ToSet(Naming(Subject)) = {e \in ToSet(chain) : e.kind = "pay" /\ Subject \in {e.from, e.to}}
    BY NamingIs DEF AInv
  <2>2. 1 \in DOMAIN Naming(Subject)
    BY <1>11, <2>1
  <2>3. Naming(Subject)[1] \in ToSet(Naming(Subject))
    BY <2>2 DEF ToSet
  <2>4. PICK e \in ToSet(chain) : e.kind = "pay" /\ Subject \in {e.from, e.to}
    BY <2>1, <2>3
  <2>5. e.from # e.to
    <3>1. PICK i \in DOMAIN chain : e = chain[i]
      BY <2>4 DEF ToSet
    <3> QED BY <1>1, <3>1
  <2>6. e \in ToSet(paid)
    BY <1>2, <2>4
  <2>7. PICK i \in DOMAIN paid : paid[i] = e
    BY <2>6 DEF ToSet
  <2> DEFINE t == txs[i]
  <2>8. i \in DOMAIN txs /\ t.from = e.from /\ t.to = e.to
    BY <1>3, <2>7
  <2>9. t \in ToSet(txs) /\ t \notin self
    BY <2>5, <2>8 DEF ToSet
  <2>10. t \in ToSet(moved) /\ t \notin far
    BY <1>6, <2>4, <2>8, <2>9
  <2>11. t \in ToSet(own)
    BY <1>7, <2>10
  <2>12. ToSet(<<>>) = {}
    BY DEF ToSet
  <2> HIDE DEF own, t
  <2> QED BY <2>11, <2>12
<1> HIDE DEF own
<1>12. ownTransfers(Payments, Subject) = own
  BY DEF own, txs
<1> QED BY <1>10, <1>11, <1>12

\* At most one account could not be read.
LEMMA AtMostOne ==
  ASSUME NEW unread \in UpTo(1, Wallets)
  PROVE  \A x, y \in unread : x = y
<1>1. PICK k \in 0..1 : unread \in SUBSET Wallets /\ Cardinality(unread) = k
  BY DEF UpTo, kSubset
<1>2. IsFiniteSet(unread)
  BY <1>1, AnalysesConstants, FS_Subset
<1> SUFFICES ASSUME NEW x \in unread, NEW y \in unread, x # y PROVE FALSE
  OBVIOUS
<1>3. Cardinality({x} \cup {y}) = 2
  <2>1. IsFiniteSet({x}) /\ Cardinality({x}) = 1
    BY FS_Singleton
  <2> QED BY <2>1, FS_AddElement
<1>4. {x} \cup {y} \in SUBSET unread
  OBVIOUS
<1>5. Cardinality({x} \cup {y}) <= Cardinality(unread)
  BY <1>2, <1>4, FS_Subset
<1> QED BY <1>1, <1>3, <1>5

\* The wallet, and a counterparty when it has a transfer.
LEMMA ClusterIs ==
  ASSUME NEW w \in Wallets, NEW txs, StarOf(w, txs), NEW unread, \A x, y \in unread : x = y
  PROVE  /\ NodesOf(clusterOf(w, unread, txs))
         /\ txs # <<>> => Len(clusterOf(w, unread, txs)) > 1
<1> DEFINE s == sortedCounterparties(txs)
           dropped == {s[i] : i \in {j \in DOMAIN s : ~(s[j] \notin unread)}}
           t == Only(s, LAMBDA v : v \notin unread)
<1>1. s \in Seq(Wallets) /\ (txs # <<>> => {1, 2} \subseteq DOMAIN s /\ s[1] # s[2])
  BY CounterpartiesAre
<1>2. clusterOf(w, unread, txs) = <<w>> \o t
  BY DEF clusterOf
<1>3. t = Drop(s, dropped)
  <2> HIDE DEF s
  <2> QED BY DEF Only
<1>4. t \in Seq(Wallets) /\ ToSet(t) = ToSet(s) \ dropped
  <2> HIDE DEF s, t, dropped
  <2> QED BY <1>1, <1>3, DropKeeps
<1>5. ASSUME txs # <<>> PROVE t # <<>>
  <2>1. PICK i \in {1, 2} : s[i] \notin unread
    BY <1>1, <1>5
  <2>2. i \in DOMAIN s
    BY <1>1, <1>5, <2>1
  <2> HIDE DEF s
  <2>3. s[i] \in ToSet(s) /\ s[i] \notin dropped
    BY <2>1, <2>2 DEF ToSet
  <2>4. s[i] \in ToSet(t)
    BY <1>4, <2>3
  <2>5. ToSet(<<>>) = {}
    BY DEF ToSet
  <2> HIDE DEF t
  <2> QED BY <2>4, <2>5
<1> HIDE DEF t
<1>6. /\ <<w>> \o t \in Seq(Wallets) /\ Len(<<w>> \o t) = 1 + Len(t) /\ Len(t) \in Nat
      /\ t # <<>> => Len(t) >= 1
  BY <1>4
<1> QED BY <1>2, <1>5, <1>6 DEF NodesOf

\* The risk of such signals is a number, at most 60 without creation
\* clustering.
LEMMA RiskBounded ==
  ASSUME NEW s, SignalsBounded(s)
  PROVE  /\ computeSybilRisk(s) \in Int
         /\ s.creationClustering = 0 => computeSybilRisk(s) <= 60
<1> DEFINE total == 20 * s.creationClustering + 15 * s.interactionDensity + 10 * s.balanceSimilarity
             + 5 * s.circularActivity + 8 * s.timingRegularity + 5 * s.amountFingerprint
             + 2 * s.fundingCorrelation + 10 * s.neighborhoodClustering + 8 * s.hubScore
             + 10 * s.intermediateDensity + 7 * s.temporalCorrelation + 50
           q == total \div 100
<1>1. computeSybilRisk(s) = q
  BY DEF computeSybilRisk
<1>2. total \in Int /\ (s.creationClustering = 0 => total <= 6050)
  <2>1. ASSUME NEW a \in Int, NEW b \in Nat, NEW c \in Nat, NEW d \in Nat, NEW e \in Nat,
               NEW f \in Nat, NEW g \in Nat, NEW h \in Nat, NEW k \in Nat,
               b <= 100, c <= 100, d <= 100, e <= 100, f <= 100, g <= 100, h <= 100, k <= 100
        PROVE  LET t == 20 * a + 15 * b + 10 * c + 5 * d + 8 * e + 5 * f + 2 * g + 10 * 0 + 8 * h
                          + 10 * 0 + 7 * k + 50
               IN  t \in Int /\ (a = 0 => t <= 6050)
    BY <2>1, SMT
  <2> DEFINE a == s.creationClustering
             b == s.interactionDensity
             c == s.balanceSimilarity
             d == s.circularActivity
             e == s.timingRegularity
             f == s.amountFingerprint
             g == s.fundingCorrelation
             h == s.hubScore
             k == s.temporalCorrelation
  <2>2. /\ a \in Int /\ b \in Nat /\ c \in Nat /\ d \in Nat /\ e \in Nat
        /\ f \in Nat /\ g \in Nat /\ h \in Nat /\ k \in Nat
        /\ b <= 100 /\ c <= 100 /\ d <= 100 /\ e <= 100 /\ f <= 100 /\ g <= 100 /\ h <= 100 /\ k <= 100
    BY SMT DEF SignalsBounded, Portion, Bounded
  <2>3. total = 20 * a + 15 * b + 10 * c + 5 * d + 8 * e + 5 * f + 2 * g + 10 * 0 + 8 * h
                + 10 * 0 + 7 * k + 50
    BY SMT DEF SignalsBounded
  <2> HIDE DEF a, b, c, d, e, f, g, h, k, total
  <2>4. total \in Int /\ (a = 0 => total <= 6050)
    BY <2>1, <2>2, <2>3, SMT
  <2> QED BY <2>4 DEF a
<1> HIDE DEF total
<1>3. q \in Int /\ 100 * q <= total
  BY <1>2, SMT
<1> HIDE DEF q
<1>4. total <= 6050 => q <= 60
  BY <1>2, <1>3, SMT
<1> QED BY <1>1, <1>2, <1>3, <1>4, SMT

\* What sybil detection says of the wallet when its account is read.
StarSeen(r) ==
  /\ r.sybilRisk \in Int
  /\ r.signals.neighborhoodClustering = 0 /\ r.signals.intermediateDensity = 0
  /\ (\A w \in Wallets : Accounts[w].createdRound = 0) => r.sybilRisk <= 60
  /\ Naming(Subject) # <<>> => "created together" \in r.explanation

\* What sybil detection answers about a wallet whose account was read.
LEMMA StarIsSeen ==
  ASSUME AInv, NEW unread, \A x, y \in unread : x = y,
         Infos({})[Subject] # Unread
  PROVE  StarSeen(detectSybil(Subject, Infos({}), unread, Payments))
<1> DEFINE infos == Infos({})
           txs == ownTransfers(Payments, Subject)
           cluster == clusterOf(Subject, unread, txs)
           graph == computeGraphSignals(txs, cluster)
           s == SignalsOf(infos, infos[Subject].createdRound, txs, cluster, graph)
           r == SybilResult(Subject, txs, cluster, s, graph.subGroupCount)
<1>1. detectSybil(Subject, infos, unread, Payments) = r
  BY DEF detectSybil, AssessAround, AssessCluster
<1>2. StarOf(Subject, txs) /\ (Naming(Subject) # <<>> => txs # <<>>)
  BY PaymentsAre
<1>3. \A v \in Wallets : infos[v].createdRound = Accounts[v].createdRound
                         /\ infos[v].createdRound \in Nat
  BY AnalysesConstants DEF Infos
<1> HIDE DEF infos, txs
<1>4. NodesOf(cluster) /\ (txs # <<>> => Len(cluster) > 1)
  BY <1>2, AnalysesConstants, ClusterIs
<1> HIDE DEF cluster
<1>5. /\ SignalsBounded(s)
      /\ (\A v \in Wallets : infos[v].createdRound = 0) => s.creationClustering = 0
  BY <1>2, <1>3, <1>4, SignalsAre
<1> HIDE DEF s, graph
<1>6. /\ computeSybilRisk(s) \in Int
      /\ s.creationClustering = 0 => computeSybilRisk(s) <= 60
  BY <1>5, RiskBounded
<1>7. r.sybilRisk = computeSybilRisk(s) /\ r.signals = s
      /\ r.explanation = generateSybilExplanation(Len(cluster), s, graph.subGroupCount, computeSybilRisk(s))
  BY DEF SybilResult
<1>8. Len(cluster) > 1 => "created together" \in r.explanation
  <2>1. \A size, signals, groups, risk : size > 1 =>
          "created together" \in generateSybilExplanation(size, signals, groups, risk)
    BY DEF generateSybilExplanation
  <2> HIDE DEF r
  <2> QED BY <1>7, <2>1
<1>9. s.neighborhoodClustering = 0 /\ s.intermediateDensity = 0
  BY <1>5 DEF SignalsBounded
<1> HIDE DEF r
<1>10. StarSeen(r)
  BY <1>2, <1>3, <1>4, <1>5, <1>6, <1>7, <1>8, <1>9 DEF StarSeen
<1>11. detectSybil(Subject, Infos({}), unread, Payments) = r
  BY <1>1 DEF infos
<1> QED BY <1>10, <1>11

\* And whenever it answers at all.
LEMMA SybilIs ==
  ASSUME AInv, NEW unread, \A x, y \in unread : x = y
  PROVE  LET r == detectSybil(Subject, Infos({}), unread, Payments)
         IN  r # Unread => StarSeen(r)
<1>1. Infos({})[Subject] = Unread => detectSybil(Subject, Infos({}), unread, Payments) = Unread
  BY DEF detectSybil
<1> QED BY <1>1, StarIsSeen

\* The answer to a sybil check.
LEMMA SybilAnswered ==
  ASSUME AInv, NEW unread \in UpTo(1, Wallets), AskSybil(unread)
  PROVE  (answer'.result # Unread => StarSeen(answer'.result)) /\ UNCHANGED chain
<1>1. answer'.result = detectSybil(Subject, Infos({}), unread, Payments) /\ UNCHANGED chain
  BY DEF AskSybil, Ask
<1> QED BY <1>1, AtMostOne, SybilIs

(***************************************************************************)
(* Whatever was paid and whichever counterparty could not be read,         *)
(* detectSybil of src/sybil.ts sees a star: both ring signals are 0, and   *)
(* without creation rounds the risk stays below the 70 percent that deny a *)
(* wallet.                                                                 *)
(***************************************************************************)
THEOREM StarSeenAlways == Spec => []SybilSeesAStar
<1>1. Init => SybilSeesAStar
  BY Zenon, AskedAs DEF Init, SybilSeesAStar
<1>2. AInv /\ SybilSeesAStar /\ [Next]_vars => SybilSeesAStar'
  <2> SUFFICES ASSUME AInv, SybilSeesAStar, [Next]_vars PROVE SybilSeesAStar'
    OBVIOUS
  <2>1. CASE UNCHANGED vars
    BY <2>1, Zenon DEF SybilSeesAStar, vars
  <2>2. ASSUME NEW unread \in UpTo(1, Wallets), AskSybil(unread) PROVE SybilSeesAStar'
    <3>1. answer'.result # Unread => StarSeen(answer'.result)
      BY <2>2, SybilAnswered
    <3> DEFINE r == answer'.result
    <3>2. StarSeen(r) => /\ r.signals.neighborhoodClustering = 0 /\ r.signals.intermediateDensity = 0
                         /\ (\A w \in Wallets : Accounts[w].createdRound = 0) => r.sybilRisk < 70
      <4>1. \A n \in Int : n <= 60 => n < 70
        BY SMT
      <4> HIDE DEF r
      <4> QED BY <4>1, Zenon DEF StarSeen
    <3> HIDE DEF r
    <3> QED BY <3>1, <3>2, Zenon DEF SybilSeesAStar, r
  <2>3. CASE answer'.ask # "sybil"
    BY <2>3, Zenon DEF SybilSeesAStar
  <2>4. answer' = NoAnswer => answer'.ask = "nothing"
    BY AskedAs
  <2> QED BY <2>1, <2>2, <2>3, <2>4, StepsAnswer, AskedAs, Zenon
<1> QED BY <1>1, <1>2, InOrderAlways, PTL DEF Spec

-----------------------------------------------------------------------------
(***************************************************************************)
(* What a decision makes of its parts only grows with them.                *)
(***************************************************************************)
\* The factors of underwriting.
Factors(trust, delegation, sybil, reputation) ==
  <<[name |-> "trust", score |-> trust, weight |-> 35],
    [name |-> "delegation", score |-> delegation, weight |-> 25],
    [name |-> "sybil", score |-> sybil, weight |-> 20],
    [name |-> "reputation", score |-> reputation, weight |-> 20]>>

\* The composite score grows with the delegation and the reputation.
LEMMA CompositeGrows ==
  ASSUME NEW t \in Int, NEW d \in Int, NEW e \in Int, d <= e, NEW s \in Int,
         NEW p \in Int, NEW q \in Int, p <= q
  PROVE  LET less == computeCompositeScore(Factors(t, d, s, p))
             more == computeCompositeScore(Factors(t, e, s, q))
         IN  less \in Nat /\ more \in Nat /\ less <= more
<1> DEFINE a == Factors(t, d, s, p)
           b == Factors(t, e, s, q)
           w(f) == [i \in DOMAIN f |-> f[i].weight]
           v(f) == [i \in DOMAIN f |-> f[i].score * f[i].weight]
<1>1. /\ DOMAIN a = 1..4 /\ DOMAIN b = 1..4
      /\ \A i \in 1..4 : /\ a[i].weight = b[i].weight /\ a[i].weight \in Nat
                         /\ a[i].score \in Int /\ b[i].score \in Int /\ a[i].score <= b[i].score
  BY SMT DEF Factors
<1> HIDE DEF a, b
<1>2. /\ DOMAIN v(a) = 1..4 /\ DOMAIN v(b) = 1..4 /\ w(a) = w(b) /\ DOMAIN w(a) = 1..4
      /\ \A i \in 1..4 : w(a)[i] \in Nat /\ v(a)[i] \in Int /\ v(b)[i] \in Int /\ v(a)[i] <= v(b)[i]
  <2>1. \A i \in 1..4 : /\ v(a)[i] = a[i].score * a[i].weight /\ v(b)[i] = b[i].score * b[i].weight
                        /\ w(a)[i] = a[i].weight
    BY <1>1, SMT
  <2>2. w(a) = w(b) /\ DOMAIN w(a) = 1..4 /\ DOMAIN v(a) = 1..4 /\ DOMAIN v(b) = 1..4
    BY <1>1, SMT
  <2>3. ASSUME NEW x \in Int, NEW y \in Int, x <= y, NEW k \in Nat
        PROVE  x * k \in Int /\ y * k \in Int /\ x * k <= y * k
    <3>1. (y - x) * k \in Nat /\ (y - x) * k = y * k - x * k
      BY <2>3, SMT
    <3> QED BY <2>3, <3>1, SMT
  <2> HIDE DEF w, v
  <2>4. \A i \in 1..4 : w(a)[i] \in Nat /\ v(a)[i] \in Int /\ v(b)[i] \in Int /\ v(a)[i] <= v(b)[i]
    <3> SUFFICES ASSUME NEW i \in 1..4
                 PROVE  w(a)[i] \in Nat /\ v(a)[i] \in Int /\ v(b)[i] \in Int /\ v(a)[i] <= v(b)[i]
      OBVIOUS
    <3>1. /\ a[i].score * a[i].weight \in Int /\ b[i].score * a[i].weight \in Int
          /\ a[i].score * a[i].weight <= b[i].score * a[i].weight
      BY <1>1, <2>3
    <3> QED BY <1>1, <2>1, <3>1
  <2> QED BY <2>2, <2>4
<1> HIDE DEF w, v
<1> DEFINE W == SumFunction(w(a))
           A == SumFunction(v(a))
           B == SumFunction(v(b))
           capped(x) == Most(0, Least(1000, x))
<1>3. W \in Nat /\ A \in Int /\ B \in Int /\ A <= B /\ SumFunction(w(b)) = W
  <2>1. IsFiniteSet(1..4)
    <3>1. \A n \in Nat : IsFiniteSet(1..n)
      BY FS_Interval
    <3> QED BY <3>1
  <2>2. W = SumOver(w(a), 1..4) /\ A = SumOver(v(a), 1..4) /\ B = SumOver(v(b), 1..4)
    BY <1>2, Zenon DEF SumFunction, SumOver
  <2>3. SumOver(w(a), 1..4) \in Nat
    BY <1>2, <2>1, SumNat
  <2>4. SumOver(v(a), 1..4) \in Int /\ SumOver(v(b), 1..4) \in Int
    BY <1>2, <2>1, SumSplits
  <2>5. SumOver(v(a), 1..4) <= SumOver(v(b), 1..4)
    BY <1>2, <2>1, SumGrows
  <2> QED BY <1>2, <2>2, <2>3, <2>4, <2>5
<1>4. /\ computeCompositeScore(a) = IF W = 0 THEN 0 ELSE capped(Rounded(A, W))
      /\ computeCompositeScore(b) = IF W = 0 THEN 0 ELSE capped(Rounded(B, W))
  <2>1. ASSUME NEW f, w(f) = w(a)
        PROVE  computeCompositeScore(f) = IF W = 0 THEN 0 ELSE capped(Rounded(SumFunction(v(f)), W))
    BY <2>1 DEF computeCompositeScore, w, v
  <2> QED BY <1>2, <2>1
<1> HIDE DEF W, A, B
<1>5. W # 0 => Rounded(A, W) \in Int /\ Rounded(B, W) \in Int /\ Rounded(A, W) <= Rounded(B, W)
  <2> SUFFICES ASSUME W # 0 PROVE Rounded(A, W) \in Int /\ Rounded(B, W) \in Int /\ Rounded(A, W) <= Rounded(B, W)
    OBVIOUS
  <2>1. W \in Nat \ {0}
    BY <1>3
  <2> QED BY <1>3, <2>1, RoundedGrows
<1>6. \A x, y \in Int : x <= y => capped(x) \in Nat /\ capped(y) \in Nat /\ capped(x) <= capped(y) /\ capped(y) <= 1000
  BY SMT DEF Most, Least
<1> HIDE DEF capped
<1>7. /\ computeCompositeScore(a) \in Nat /\ computeCompositeScore(b) \in Nat
      /\ computeCompositeScore(a) <= computeCompositeScore(b) /\ computeCompositeScore(b) <= 1000
  <2>1. CASE W = 0
    BY <1>4, <2>1, SMT
  <2>2. CASE W # 0
    BY <1>4, <1>5, <1>6, <2>2
  <2> QED BY <2>1, <2>2
<1> QED BY <1>7 DEF a, b

\* The product of two numbers grows with both, and so does a thousandth of it.
LEMMA ShareGrows ==
  ASSUME NEW a \in Nat, NEW b \in Nat, a <= b, NEW x \in Nat, NEW y \in Nat, x <= y
  PROVE  /\ (a * x) \div 1000 \in Nat /\ (b * y) \div 1000 \in Nat
         /\ (a * x) \div 1000 <= (b * y) \div 1000
<1>1. a * x \in Nat /\ b * y \in Nat /\ a * x <= b * y
  <2>1. (b - a) * x \in Nat /\ (b - a) * x = b * x - a * x
    BY SMT
  <2>2. b * (y - x) \in Nat /\ b * (y - x) = b * y - b * x
    BY SMT
  <2> QED BY <2>1, <2>2, SMT
<1> DEFINE m == a * x
           n == b * y
<1>2. m \in Nat /\ n \in Nat /\ m <= n
  BY <1>1
<1> HIDE DEF m, n
<1>3. 1000 \in Nat \ {0}
  BY SMT
<1>4. m \div 1000 \in Nat /\ n \div 1000 \in Nat /\ m \div 1000 <= n \div 1000
  BY <1>2, <1>3, QuotientGrows, QuotientNat, SMT
<1> QED BY <1>4 DEF m, n

\* The limit of underwriting grows with the composite, the credit and the
\* reputation.
LEMMA LimitGrows ==
  ASSUME NEW c \in Nat, NEW d \in Nat, c <= d, NEW l \in Nat, NEW m \in Nat, l <= m,
         NEW s \in Int, s < 70, NEW p \in Nat, NEW q \in Nat, p <= q
  PROVE  /\ computeUnderwritingLimit(c, l, s, p) \in Nat /\ computeUnderwritingLimit(d, m, s, q) \in Nat
         /\ computeUnderwritingLimit(c, l, s, p) <= computeUnderwritingLimit(d, m, s, q)
<1> DEFINE byScore(x, y) == (x * (500 + y)) \div 1000
           bySybil(x, y) == (byScore(x, y) * (1000 - 7 * s)) \div 1000
           byEvents(x, y, z) == (bySybil(x, y) * (1000 + (3 * z) \div 10)) \div 1000
           capped(x) == Most(0, Least(135000, x))
<1>1. /\ byScore(l, c) \in Nat /\ byScore(m, d) \in Nat /\ byScore(l, c) <= byScore(m, d)
  <2>1. 500 + c \in Nat /\ 500 + d \in Nat /\ 500 + c <= 500 + d
    BY SMT
  <2> QED BY <2>1, ShareGrows
<1> HIDE DEF byScore
<1>2. /\ bySybil(l, c) \in Nat /\ bySybil(m, d) \in Nat /\ bySybil(l, c) <= bySybil(m, d)
  <2>1. 1000 - 7 * s \in Nat /\ 1000 - 7 * s <= 1000 - 7 * s
    BY SMT
  <2> QED BY <1>1, <2>1, ShareGrows
<1> HIDE DEF bySybil
<1>3. /\ byEvents(l, c, p) \in Nat /\ byEvents(m, d, q) \in Nat /\ byEvents(l, c, p) <= byEvents(m, d, q)
  <2>1. (3 * p) \div 10 \in Nat /\ (3 * q) \div 10 \in Nat /\ (3 * p) \div 10 <= (3 * q) \div 10
    <3>1. 3 * p \in Nat /\ 3 * q \in Nat /\ 3 * p <= 3 * q /\ 10 \in Nat \ {0}
      BY SMT
    <3> QED BY <3>1, QuotientGrows, QuotientNat
  <2>2. /\ 1000 + (3 * p) \div 10 \in Nat /\ 1000 + (3 * q) \div 10 \in Nat
        /\ 1000 + (3 * p) \div 10 <= 1000 + (3 * q) \div 10
    BY <2>1, SMT
  <2> QED BY <1>2, <2>2, ShareGrows
<1>4. /\ computeUnderwritingLimit(c, l, s, p) = capped(byEvents(l, c, p))
      /\ computeUnderwritingLimit(d, m, s, q) = capped(byEvents(m, d, q))
  BY SMT DEF computeUnderwritingLimit, byEvents, bySybil, byScore
<1> HIDE DEF byEvents
<1>5. \A x, y \in Nat : x <= y => capped(x) \in Nat /\ capped(y) \in Nat /\ capped(x) <= capped(y)
  BY SMT DEF Most, Least
<1> HIDE DEF capped
<1> QED BY <1>3, <1>4, <1>5, Zenon

-----------------------------------------------------------------------------
(***************************************************************************)
(* The parts of an answer have their types.                                *)
(***************************************************************************)
TrustTyped(r) ==
  /\ r.trustScore \in Nat /\ r.approved = (r.trustScore >= 400)
  /\ Bounded(r.breakdown.velocity, 1000) /\ Bounded(r.breakdown.compliance, 1000)
  /\ r.balance \in Nat /\ r.totalTxns \in Nat /\ r.accountAgeDays \in Nat

\* Every trust score is typed.
LEMMA TrustIsTyped ==
  ASSUME AInv, NEW w \in Wallets, NEW accountRead \in BOOLEAN, NEW answered \in Nat, NEW threw \in BOOLEAN
  PROVE  TrustTyped(scoreWallet(IF accountRead THEN AccountInfo(w) ELSE None,
                                fetchTransactionHistory(RoundsNewestFirst(w), answered, threw)))
<1> DEFINE rounds == RoundsNewestFirst(w)
           h == fetchTransactionHistory(rounds, answered, threw)
           info == IF accountRead THEN AccountInfo(w) ELSE None
<1>1. NewestFirst(rounds)
  BY RoundsAreNewestFirst
<1>2. AccountRead(info)
  BY InfoIsRead DEF AccountRead
<1> HIDE DEF rounds
<1>3. HistoryOf(h, rounds)
  BY <1>1, HistoryRead
<1> HIDE DEF info, h
<1>4. TrustTyped(scoreWallet(info, h))
  BY <1>2, <1>3, ScoreIs DEF TrustTyped
<1> QED BY <1>4 DEF info, h, rounds

\* A credit estimate is an amount; within capacity is granted, and the risk goes
\* with it.
LEMMA EstimateIs ==
  ASSUME NEW trust, TrustTyped(trust), NEW requested \in Nat
  PROVE  LET r == estimateCredit(trust, requested)
         IN  /\ r.estimatedLimit \in Nat
             /\ r.approved = (requested > 0 => r.estimatedLimit >= requested)
             /\ r.risk = classifyCreditRisk(r.estimatedLimit, requested)
             /\ requested > 0 => ("within capacity" \in r.explanation <=> r.approved)
<1> DEFINE known == trust # None
           balance == IF known THEN trust.balance ELSE 0
           txns == IF known THEN trust.totalTxns ELSE 0
           days == IF known THEN trust.accountAgeDays ELSE 0
           velocity == IF known THEN trust.breakdown.velocity ELSE 500
           compliance == IF known THEN trust.breakdown.compliance ELSE 500
           b == [balanceCapacity |-> computeBalanceCapacity(balance),
                 activityBonus |-> computeActivityBonus(txns), ageBonus |-> computeAgeBonus(days),
                 riskPenalty |-> computeRiskPenalty(velocity, compliance)]
           limit == computeCreditLimit(b)
           approved == requested > 0 => limit >= requested
           words == generateCreditExplanation(balance, txns, days, limit, requested, approved)
           r == estimateCredit(trust, requested)
<1>1. /\ balance \in Nat /\ txns \in Nat /\ days \in Nat
      /\ Bounded(velocity, 1000) /\ Bounded(compliance, 1000)
  BY SMT DEF TrustTyped, Bounded
<1>2. /\ r.estimatedLimit = limit /\ r.risk = classifyCreditRisk(limit, requested)
      /\ r.approved = approved /\ r.explanation = words
  BY Zenon DEF estimateCredit
<1> HIDE DEF balance, txns, days, velocity, compliance
<1>3. b.balanceCapacity \in Int /\ b.activityBonus \in Int /\ b.ageBonus \in Int
  <2>1. computeBalanceCapacity(balance) \in Int
    <3>1. balance \div 20 \in Int
      BY <1>1, SMT
    <3> QED BY <3>1, SMT DEF computeBalanceCapacity, Least
  <2>2. computeActivityBonus(txns) \in Int
    BY <1>1, SMT DEF computeActivityBonus, Least
  <2>3. computeAgeBonus(days) \in Int
    <3>1. (15000 * days) \div 365 \in Int
      BY <1>1, SMT
    <3> QED BY <3>1, SMT DEF computeAgeBonus, Least
  <2> QED BY <2>1, <2>2, <2>3
<1>4. b.riskPenalty \in Int
  <2>1. Rounded((400 - velocity) * 5000, 400) \in Int
    <3>1. (400 - velocity) * 5000 \in Int /\ 400 \in Nat \ {0} /\ (400 - velocity) * 5000 <= (400 - velocity) * 5000
      BY <1>1, SMT DEF Bounded
    <3> QED BY <3>1, RoundedGrows
  <2>2. Rounded((600 - compliance) * 10000, 600) \in Int
    <3>1. (600 - compliance) * 10000 \in Int /\ 600 \in Nat \ {0}
          /\ (600 - compliance) * 10000 <= (600 - compliance) * 10000
      BY <1>1, SMT DEF Bounded
    <3> QED BY <3>1, RoundedGrows
  <2> DEFINE x == Rounded((400 - velocity) * 5000, 400)
             y == Rounded((600 - compliance) * 10000, 600)
  <2>3. b.riskPenalty = (IF velocity < 400 THEN x ELSE 0) + (IF compliance < 600 THEN y ELSE 0)
    BY SMT DEF computeRiskPenalty
  <2> HIDE DEF x, y, b
  <2> QED BY <2>1, <2>2, <2>3, SMT DEF x, y
<1> HIDE DEF b
<1>5. limit \in Nat
  <2> DEFINE sum == b.balanceCapacity + b.activityBonus + b.ageBonus - b.riskPenalty
  <2>1. sum \in Int
    BY <1>3, <1>4
  <2>2. limit = Most(0, Least(135000, sum))
    BY SMT DEF computeCreditLimit
  <2> HIDE DEF sum, limit
  <2> QED BY <2>1, <2>2, SMT DEF Most, Least
<1> HIDE DEF limit
<1>6. ASSUME requested > 0 PROVE "within capacity" \in words <=> approved
  <2> DEFINE grades == {Graded(balance, 100001, 1001, <<"strong collateral", "moderate collateral", "minimal collateral">>),
                        Graded(days, 366, 31, <<"years of history", "months of history", "new account">>),
                        Graded(txns, 101, 11, <<"strong activity", "moderate activity", "limited activity">>)}
             lines == {<<"within capacity", requested > 0 /\ approved>>,
                       <<"exceeds capacity", requested > 0 /\ ~approved>>}
  <2>1. words = grades \cup Said(lines)
    BY SMT DEF generateCreditExplanation
  <2>2. "within capacity" \notin grades
    BY SMT DEF Graded
  <2>3. "within capacity" \in Said(lines) <=> approved
    <3>1. \A x, y : <<x, y>>[1] = x /\ <<x, y>>[2] = y
      OBVIOUS
    <3>2. "exceeds capacity" # "within capacity"
      OBVIOUS
    <3> HIDE DEF approved
    <3> QED BY <1>6, <3>1, <3>2, Zenon DEF Said
  <2> HIDE DEF words, grades, lines
  <2> QED BY <2>1, <2>2, <2>3, Zenon
<1> HIDE DEF r, words
<1> QED BY <1>2, <1>5, <1>6, Zenon DEF r, approved

\* A wallet without a delegation scores 35 of 100.
LEMMA NoDelegationScore ==
  ASSUME NEW wallet, NEW lists, NEW scores
  PROVE  LET r == scoreDelegation(wallet, <<>>, lists, scores)
         IN  r.trustScore = 350
<1> DEFINE own == <<>>
           first == {own[i].to : i \in 1 .. Least(5, Len(own))}
           known == {scores[w] : w \in first} \ {None}
           answered == {i \in 1 .. Least(5, Len(own)) : scores[own[i].to] # None}
           total == SumFunction([i \in answered |-> scores[own[i].to]])
           quality == IF answered = {} THEN 0 ELSE total \div Cardinality(answered)
           amount == SumOf(own)
           raw == computeDelegationTrustScore(
               [depth |-> computeDepthScore(0), quality |-> computeSponsorQualityScore(quality),
                count |-> computeSponsorCountScore(Len(own), quality),
                amount |-> computeAmountScore(amount)])
<1>1. Len(own) = 0 /\ 1 .. Least(5, Len(own)) = {}
  <2>1. Len(<<>>) = 0 /\ Least(5, 0) = 0 /\ 1..0 = {}
    BY SMT DEF Least
  <2> QED BY <2>1
<1>2. scoreDelegation(wallet, <<>>, lists, scores).trustScore = sponsorCap(raw, known, 0)
  BY DEF scoreDelegation, DelegationResult
<1>3. known = {} /\ quality = 0
  BY <1>1
<1>4. amount = 0
  <2> DEFINE f == [i \in DOMAIN own |-> own[i].amount]
  <2>1. DOMAIN f = {}
    BY SMT
  <2>2. SumFunction(f) = SumOver(f, {})
    BY <2>1, Zenon DEF SumFunction, SumOver
  <2>3. SumOver(f, {}) = 0
    <3> HIDE DEF f
    <3>1. IsFiniteSet({})
      BY FS_EmptySet
    <3> QED BY <3>1, SumOfNone
  <2>4. amount = SumFunction(f)
    BY DEF SumOf
  <2> QED BY <2>2, <2>3, <2>4
<1> HIDE DEF known, quality, amount
<1>5. raw = computeDelegationTrustScore(
               [depth |-> computeDepthScore(0), quality |-> computeSponsorQualityScore(0),
                count |-> computeSponsorCountScore(0, 0), amount |-> computeAmountScore(0)])
  BY <1>1, <1>3, <1>4
<1> HIDE DEF raw
<1>6. computeDepthScore(0) = 1000 /\ computeSponsorQualityScore(0) = 0
      /\ computeSponsorCountScore(0, 0) = 0
  <2>1. computeDepthScore(0) = 1000
    BY SMT DEF computeDepthScore
  <2>2. Rounded(0, 10) = 0 /\ Rounded(0, 1000) = 0
    BY SMT DEF Rounded
  <2>3. Least(1000, 0) = 0 /\ 0 * 200 * Most(100, 0) = 0
    BY SMT DEF Least, Most
  <2> QED BY <2>1, <2>2, <2>3, SMT DEF computeSponsorQualityScore, computeSponsorCountScore
<1>7. computeAmountScore(0) = 0
  <2>1. Log10(1) = 0
    <3> DEFINE below == {p \in LogPoints : p[1] <= 1}
    <3>1. below = {<<1, 0>>}
      BY SMT DEF LogPoints
    <3>2. (CHOOSE p \in below : \A q \in below : q[1] <= p[1]) \in below
      <4>1. <<1, 0>>[1] <= <<1, 0>>[1]
        BY SMT
      <4>2. \E p \in below : \A q \in below : q[1] <= p[1]
        BY <3>1, <4>1, Zenon
      <4> HIDE DEF below
      <4> QED BY <4>2, Zenon
    <3>3. Log10(1) = (CHOOSE p \in below : \A q \in below : q[1] <= p[1])[2]
      BY Zenon DEF Log10
    <3>4. (CHOOSE p \in below : \A q \in below : q[1] <= p[1]) = <<1, 0>>
      BY <3>1, <3>2, Zenon
    <3>5. <<1, 0>>[2] = 0
      BY SMT
    <3> HIDE DEF below
    <3> QED BY <3>3, <3>4, <3>5, Zenon
  <2>2. ~(0 >= 10000) /\ 0 + 1 = 1 /\ 0 * 25 = 0 /\ Rounded(0, 1000) = 0 /\ 10 * 0 = 0
    BY SMT DEF Rounded
  <2> QED BY <2>1, <2>2, SMT DEF computeAmountScore
<1>8. raw = 350
  <2>1. raw = Rounded(35 * 1000 + 30 * 0 + 15 * 0 + 20 * 0, 100)
    BY <1>5, <1>6, <1>7, SMT DEF computeDelegationTrustScore
  <2>2. Rounded(35 * 1000 + 30 * 0 + 15 * 0 + 20 * 0, 100) = 350
    BY SMT DEF Rounded
  <2> QED BY <2>1, <2>2
<1> QED BY <1>2, <1>3, <1>8, Zenon DEF sponsorCap

-----------------------------------------------------------------------------
(***************************************************************************)
(* The parts of a decision.                                                *)
(***************************************************************************)
\* The scores the parts p come to.
SybilRiskOf(p) == IF p.sybil = None THEN 0 ELSE p.sybil.sybilRisk
\* Underwriting's factor for it.
SybilScoreOf(p) == IF p.sybil = None THEN 500 ELSE 10 * (100 - SybilRiskOf(p))
\* The reputation, 0 when there is none.
ReputationOf(p) == IF p.reputation = None THEN 0 ELSE p.reputation.reputation
\* The credit limit, 0 when there is none.
LimitOf(p) == IF p.credit = None THEN 0 ELSE p.credit.estimatedLimit

\* The numbers underwriting reads are numbers.
PartsTyped(p) ==
  /\ TrustTyped(p.trust) /\ ScoreOf(p.trust) \in Nat
  /\ ScoreOf(p.delegation) \in Nat
  /\ SybilRiskOf(p) \in Int /\ SybilScoreOf(p) \in Int
  /\ ReputationOf(p) \in Nat
  /\ LimitOf(p) \in Nat

\* The parts p come to no more than the parts q, under the same trust and risk.
NoBetter(p, q) ==
  /\ ScoreOf(p.trust) = ScoreOf(q.trust)
  /\ ScoreOf(p.delegation) <= ScoreOf(q.delegation)
  /\ SybilRiskOf(p) = SybilRiskOf(q) /\ SybilScoreOf(p) = SybilScoreOf(q)
  /\ ReputationOf(p) <= ReputationOf(q)
  /\ LimitOf(p) <= LimitOf(q)
  /\ p.sanctions = "allowed" => q.sanctions = "allowed"

\* What underwriting decides, from those numbers.
LEMMA UnderwriteIs ==
  ASSUME NEW p
  PROVE  LET f == Factors(ScoreOf(p.trust), ScoreOf(p.delegation), SybilScoreOf(p), ReputationOf(p))
             c == computeCompositeScore(f)
             yes == approvedBy(c, SybilRiskOf(p), ReputationOf(p), p.sanctions)
         IN  /\ underwrite(p).approved = yes
             /\ underwrite(p).recommendedLimit =
                  IF yes THEN computeUnderwritingLimit(c, LimitOf(p), SybilRiskOf(p), ReputationOf(p)) ELSE 0
BY Zenon DEF underwrite, Factors, SybilScoreOf, SybilRiskOf, ReputationOf, LimitOf

\* Parts that come to no more are not approved where the others are denied, nor
\* for more.
LEMMA UnderwriteGrows ==
  ASSUME NEW p, NEW q, PartsTyped(p), PartsTyped(q), NoBetter(p, q)
  PROVE  /\ underwrite(p).approved => underwrite(q).approved
         /\ underwrite(p).recommendedLimit <= underwrite(q).recommendedLimit
<1> DEFINE t == ScoreOf(q.trust)
           d == ScoreOf(p.delegation)
           e == ScoreOf(q.delegation)
           s == SybilScoreOf(q)
           k == SybilRiskOf(q)
           r == ReputationOf(p)
           u == ReputationOf(q)
           l == LimitOf(p)
           m == LimitOf(q)
           a == computeCompositeScore(Factors(t, d, s, r))
           b == computeCompositeScore(Factors(t, e, s, u))
           pYes == approvedBy(a, k, r, p.sanctions)
           qYes == approvedBy(b, k, u, q.sanctions)
           pSum == computeUnderwritingLimit(a, l, k, r)
           qSum == computeUnderwritingLimit(b, m, k, u)
<1>1. /\ t \in Nat /\ d \in Nat /\ e \in Nat /\ s \in Int /\ k \in Int /\ r \in Nat /\ u \in Nat
      /\ l \in Nat /\ m \in Nat /\ d <= e /\ r <= u /\ l <= m
      /\ p.sanctions = "allowed" => q.sanctions = "allowed"
  BY DEF PartsTyped, NoBetter
<1>2. /\ underwrite(p).approved = pYes /\ underwrite(q).approved = qYes
      /\ underwrite(p).recommendedLimit = IF pYes THEN pSum ELSE 0
      /\ underwrite(q).recommendedLimit = IF qYes THEN qSum ELSE 0
  BY UnderwriteIs, Zenon DEF NoBetter
<1> HIDE DEF t, d, e, s, k, r, u, l, m
<1>3. a \in Nat /\ b \in Nat /\ a <= b
  <2>1. t \in Int /\ d \in Int /\ e \in Int /\ d <= e /\ s \in Int /\ r \in Int /\ u \in Int /\ r <= u
    BY <1>1
  <2> HIDE DEF pYes, qYes, pSum, qSum
  <2> QED BY <2>1, CompositeGrows, Zenon
<1> HIDE DEF a, b
<1>4. pYes => qYes /\ k < 70
  BY <1>1, <1>3, SMT DEF approvedBy, decideApproval
<1>5. qYes => k < 70
  BY <1>1, SMT DEF approvedBy, decideApproval
<1> HIDE DEF pYes, qYes
<1>6. ASSUME k < 70 PROVE pSum \in Nat /\ qSum \in Nat /\ pSum <= qSum
  BY <1>1, <1>3, <1>6, LimitGrows
<1> HIDE DEF pSum, qSum
<1>7. underwrite(p).recommendedLimit <= underwrite(q).recommendedLimit
  <2>1. CASE pYes
    BY <1>2, <1>4, <1>6, <2>1
  <2>2. CASE ~pYes /\ qYes
    BY <1>2, <1>5, <1>6, <2>2
  <2>3. CASE ~pYes /\ ~qYes
    BY <1>2, <2>3
  <2> QED BY <2>1, <2>2, <2>3
<1> QED BY <1>2, <1>4, <1>7, Zenon

\* From 40 points on the confidence is always enough.
LEMMA ConfidentFrom40 ==
  ASSUME NEW score \in Nat, score >= 400
  PROVE  computeConfidence(score) >= 45
<1>1. CASE score >= 600
  <2> DEFINE n == Rounded(30 * (score - 600), 400)
  <2>1. n \in Nat
    <3>1. 30 * (score - 600) \in Nat /\ 400 \in Nat \ {0}
      BY <1>1, SMT
    <3> QED BY <3>1, RoundedNat
  <2>2. computeConfidence(score) = Least(100, 70 + n)
    BY <1>1, SMT DEF computeConfidence
  <2> HIDE DEF n
  <2> QED BY <2>1, <2>2, SMT DEF Least
<1>2. CASE ~(score >= 600)
  <2> DEFINE n == Rounded(20 * (score - 400), 200)
  <2>1. n \in Nat
    <3>1. 20 * (score - 400) \in Nat /\ 200 \in Nat \ {0}
      BY SMT
    <3> QED BY <3>1, RoundedNat
  <2>2. computeConfidence(score) = 50 + n
    BY <1>2, SMT DEF computeConfidence
  <2> HIDE DEF n
  <2> QED BY <2>1, <2>2, SMT
<1> QED BY <1>1, <1>2

\* The combined score of a counterparty grows with its delegation.
LEMMA CombinedGrows ==
  ASSUME NEW t \in Nat, NEW d \in Nat, NEW e \in Nat, d <= e
  PROVE  /\ computeCombinedScore(t, d) \in Nat /\ computeCombinedScore(t, e) \in Nat
         /\ computeCombinedScore(t, d) <= computeCombinedScore(t, e)
<1>1. /\ 6 * t + 4 * d \in Nat /\ 6 * t + 4 * e \in Nat /\ 6 * t + 4 * d <= 6 * t + 4 * e
      /\ 10 \in Nat \ {0}
  BY SMT
<1> QED BY <1>1, RoundedGrows, RoundedNat DEF computeCombinedScore

\* A counterparty refused for the better parts is refused for the worse.
LEMMA CounterpartyGrows ==
  ASSUME NEW p, NEW q, PartsTyped(p), PartsTyped(q), NoBetter(p, q)
  PROVE  checkCounterparty(p.trust, p.delegation, p.sanctions).allow =>
           checkCounterparty(q.trust, q.delegation, q.sanctions).allow
<1> DEFINE a == computeCombinedScore(ScoreOf(p.trust), ScoreOf(p.delegation))
           b == computeCombinedScore(ScoreOf(q.trust), ScoreOf(q.delegation))
<1>1. a \in Nat /\ b \in Nat /\ a <= b
  <2>1. /\ ScoreOf(q.trust) \in Nat /\ ScoreOf(p.delegation) \in Nat /\ ScoreOf(q.delegation) \in Nat
        /\ ScoreOf(p.delegation) <= ScoreOf(q.delegation) /\ ScoreOf(p.trust) = ScoreOf(q.trust)
    BY DEF PartsTyped, NoBetter
  <2> QED BY <2>1, CombinedGrows
<1>2. /\ checkCounterparty(p.trust, p.delegation, p.sanctions).allow =
           (decideAllow(a, computeConfidence(a)) /\ p.sanctions = "allowed")
      /\ checkCounterparty(q.trust, q.delegation, q.sanctions).allow =
           (decideAllow(b, computeConfidence(b)) /\ q.sanctions = "allowed")
  BY Zenon DEF checkCounterparty
<1> HIDE DEF a, b
<1>3. a >= 400 => b >= 400 /\ computeConfidence(b) >= 45
  <2>1. a >= 400 => b >= 400
    BY <1>1, SMT
  <2> QED BY <1>1, <2>1, ConfidentFrom40
<1>4. decideAllow(a, computeConfidence(a)) => decideAllow(b, computeConfidence(b))
  BY <1>3, Zenon DEF decideAllow
<1> QED BY <1>2, <1>4, Zenon DEF NoBetter

-----------------------------------------------------------------------------
\* The parts of a decision, one by one.
LEMMA PartsAre ==
  ASSUME NEW failed, NEW denyList
  PROVE  LET p == PartsWithout(failed, denyList)
             sybil == detectSybil(Subject, Infos(IF "sybil" \in failed THEN {Subject} ELSE {}), {}, Payments)
         IN  /\ p.trust = scoreWallet(IF "account" \in failed THEN None ELSE AccountInfo(Subject),
                            fetchTransactionHistory(RoundsNewestFirst(Subject), MaxPages, "history" \in failed))
             /\ p.delegation = IF "delegation" \in failed THEN None
                    ELSE scoreDelegation(Subject, <<>>, [w \in Wallets |-> <<>>], [w \in Wallets |-> 0])
             /\ p.credit = IF "credit" \in failed THEN None ELSE estimateCredit(p.trust, 0)
             /\ p.sybil = IF sybil = Unread THEN None ELSE sybil
             /\ p.reputation = computeReputation(readCounters(counters, failed \cap EventTypes))
             /\ p.sanctions = checkSanctions(Subject, denyList, "sanctions" \in failed)
BY Zenon DEF PartsWithout, PartsWith

\* What the counters that could be read come to.
LEMMA CountersRead ==
  ASSUME AInv, NEW failed
  PROVE  /\ Counts(readCounters(counters, failed \cap EventTypes))
         /\ \A t \in EventTypes : readCounters(counters, failed \cap EventTypes)[t] =
              IF t \in failed THEN 0 ELSE counters[t]
<1> DEFINE c == readCounters(counters, failed \cap EventTypes)
<1>1. c = [t \in EventTypes |-> IF t \in failed \cap EventTypes THEN 0 ELSE counters[t]]
  BY DEF readCounters
<1>2. \A t \in EventTypes : c[t] = IF t \in failed THEN 0 ELSE counters[t]
  BY <1>1
<1>3. \A t \in EventTypes : counters[t] \in Nat
  BY DEF AInv, CountersCount
<1> HIDE DEF c
<1>4. Counts(c)
  BY <1>1, <1>2, <1>3 DEF Counts
<1> QED BY <1>2, <1>4 DEF c

\* A decision's reputation is at most 1000.
LEMMA ReputationRead ==
  ASSUME AInv, NEW failed, NEW denyList
  PROVE  LET p == PartsWithout(failed, denyList)
             c == readCounters(counters, failed \cap EventTypes)
         IN  /\ p.reputation # None
             /\ ReputationOf(p) = computeReputationScore(c, NoOpts)
             /\ ReputationOf(p) \in Nat /\ ReputationOf(p) <= 1000
<1> DEFINE p == PartsWithout(failed, denyList)
           c == readCounters(counters, failed \cap EventTypes)
<1>1. Counts(c)
  BY CountersRead
<1>2. p.reputation = computeReputation(c)
  BY PartsReputation
<1> HIDE DEF p, c
<1>3. p.reputation # None /\ ReputationOf(p) = computeReputationScore(c, NoOpts)
  BY <1>1, <1>2, ReputationIsSome, Zenon DEF ReputationOf
<1>4. computeReputationScore(c, NoOpts) \in Nat /\ computeReputationScore(c, NoOpts) <= 1000
  BY <1>1, ReputationRanges
<1> QED BY <1>3, <1>4 DEF p, c

\* The parts of every decision are typed.
LEMMA PartsAreTyped ==
  ASSUME AInv, NEW failed, NEW denyList
  PROVE  PartsTyped(PartsWithout(failed, denyList))
<1> DEFINE p == PartsWithout(failed, denyList)
<1>1. TrustTyped(p.trust)
  <2> DEFINE read == ~("account" \in failed)
             threw == "history" \in failed
  <2>1. p.trust = scoreWallet(IF read THEN AccountInfo(Subject) ELSE None,
                    fetchTransactionHistory(RoundsNewestFirst(Subject), MaxPages, threw))
    BY PartsAre, Zenon
  <2>2. read \in BOOLEAN /\ threw \in BOOLEAN
    OBVIOUS
  <2>3. MaxPages \in Nat /\ Subject \in Wallets
    BY TrustScoreConstants, AnalysesConstants
  <2> HIDE DEF read, threw, p
  <2>4. TrustTyped(scoreWallet(IF read THEN AccountInfo(Subject) ELSE None,
                    fetchTransactionHistory(RoundsNewestFirst(Subject), MaxPages, threw)))
    BY <2>2, <2>3, TrustIsTyped
  <2> QED BY <2>1, <2>4
<1>2. ScoreOf(p.delegation) \in Nat
  <2> DEFINE r == scoreDelegation(Subject, <<>>, [w \in Wallets |-> <<>>], [w \in Wallets |-> 0])
  <2>1. r.trustScore = 350
    BY NoDelegationScore
  <2>2. p.delegation = None \/ p.delegation = r
    BY PartsAre, Zenon
  <2> HIDE DEF p, r
  <2>3. 350 \in Nat
    BY SMT
  <2> QED BY <2>1, <2>2, <2>3 DEF ScoreOf
<1>3. SybilRiskOf(p) \in Int /\ SybilScoreOf(p) \in Int
  <2> DEFINE r == detectSybil(Subject, Infos(IF "sybil" \in failed THEN {Subject} ELSE {}), {}, Payments)
  <2>1. p.sybil = IF r = Unread THEN None ELSE r
    BY PartsAre, Zenon
  <2>2. r # Unread => r.sybilRisk \in Int
    <3>1. CASE "sybil" \in failed
      <4>1. Infos({Subject})[Subject] = Unread
        BY AnalysesConstants DEF Infos
      <4>2. r = Unread
        BY <3>1, <4>1 DEF detectSybil
      <4> QED BY <4>2
    <3>2. CASE "sybil" \notin failed
      <4>1. r = detectSybil(Subject, Infos({}), {}, Payments)
        BY <3>2
      <4>2. r # Unread => StarSeen(r)
        <5> HIDE DEF r
        <5> QED BY <4>1, SybilIs
      <4> QED BY <4>2 DEF StarSeen
    <3> QED BY <3>1, <3>2
  <2> HIDE DEF p, r
  <2>3. SybilRiskOf(p) \in Int
    BY <2>1, <2>2 DEF SybilRiskOf
  <2> QED BY <2>3, SMT DEF SybilScoreOf
<1>4. ReputationOf(p) \in Nat
  BY ReputationRead
<1>5. LimitOf(p) \in Nat
  <2>1. p.credit = None \/ p.credit = estimateCredit(p.trust, 0)
    BY PartsAre, Zenon
  <2> HIDE DEF p
  <2>2. estimateCredit(p.trust, 0).estimatedLimit \in Nat
    BY <1>1, EstimateIs
  <2> QED BY <2>1, <2>2 DEF LimitOf
<1> HIDE DEF p
<1>6. ScoreOf(p.trust) \in Nat
  BY <1>1 DEF ScoreOf, TrustTyped
<1>7. PartsTyped(p)
  BY <1>1, <1>2, <1>3, <1>4, <1>5, <1>6 DEF PartsTyped
<1> QED BY <1>7 DEF p

\* A failure that is not taken for good news leaves no better parts.
LEMMA FailureIsNoBetter ==
  ASSUME AInv, NEW failed \in SUBSET Reads, failed \cap TakenForGood = {}, NEW denyList
  PROVE  NoBetter(PartsWithout(failed, denyList), PartsWithout({}, denyList))
<1> DEFINE p == PartsWithout(failed, denyList)
           q == PartsWithout({}, denyList)
<1>1. /\ "account" \notin failed /\ "history" \notin failed /\ "sybil" \notin failed /\ "dispute" \notin failed
  BY DEF TakenForGood
<1>2. p.trust = q.trust /\ p.sybil = q.sybil
  <2> DEFINE trust(f) == scoreWallet(IF "account" \in f THEN None ELSE AccountInfo(Subject),
               fetchTransactionHistory(RoundsNewestFirst(Subject), MaxPages, "history" \in f))
             sybil(f) == detectSybil(Subject, Infos(IF "sybil" \in f THEN {Subject} ELSE {}), {}, Payments)
  <2>1. /\ p.trust = trust(failed) /\ q.trust = trust({})
        /\ p.sybil = IF sybil(failed) = Unread THEN None ELSE sybil(failed)
        /\ q.sybil = IF sybil({}) = Unread THEN None ELSE sybil({})
    BY PartsAre, Zenon
  <2>2. ("history" \in failed) = ("history" \in {})
    BY <1>1
  <2>3. (IF "account" \in failed THEN None ELSE AccountInfo(Subject))
          = (IF "account" \in {} THEN None ELSE AccountInfo(Subject))
    BY <1>1
  <2>4. (IF "sybil" \in failed THEN {Subject} ELSE {}) = (IF "sybil" \in {} THEN {Subject} ELSE {})
    BY <1>1
  <2>5. trust(failed) = trust({})
    BY <2>2, <2>3
  <2>6. sybil(failed) = sybil({})
    BY <2>4
  <2> HIDE DEF p, q, trust, sybil
  <2> QED BY <2>1, <2>5, <2>6
<1>3. ScoreOf(p.delegation) <= ScoreOf(q.delegation)
  <2> DEFINE r == scoreDelegation(Subject, <<>>, [w \in Wallets |-> <<>>], [w \in Wallets |-> 0])
  <2>1. (p.delegation = None \/ p.delegation = r) /\ q.delegation = r
    BY PartsAre
  <2>2. r.trustScore = 350
    BY NoDelegationScore
  <2> HIDE DEF p, q, r
  <2>3. 0 <= 350 /\ 350 <= 350 /\ 0 <= 0
    BY SMT
  <2> QED BY <2>1, <2>2, <2>3 DEF ScoreOf
<1>4. ReputationOf(p) <= ReputationOf(q)
  <2> DEFINE c == readCounters(counters, failed \cap EventTypes)
             d == readCounters(counters, {} \cap EventTypes)
  <2>1. /\ ReputationOf(p) = computeReputationScore(c, NoOpts) /\ ReputationOf(p) \in Nat
        /\ ReputationOf(q) = computeReputationScore(d, NoOpts) /\ ReputationOf(q) \in Nat
    BY ReputationRead
  <2>2. /\ Counts(c) /\ \A t \in EventTypes : c[t] = IF t \in failed THEN 0 ELSE counters[t]
    BY CountersRead
  <2>3. \A t \in EventTypes : counters[t] \in Nat /\ (counters[t] > 0 => t \in {"payment", "dispute"})
    BY DEF AInv, CountersCount
  <2>4. CASE "payment" \in failed
    <3>1. \A t \in EventTypes \ Negative : c[t] = 0
      <4> HIDE DEF c
      <4>1. "dispute" \in Negative
        BY DEF Negative
      <4> QED BY <2>2, <2>3, <2>4, <4>1
    <3> HIDE DEF c, d, p, q
    <3>2. computeReputationScore(c, NoOpts) = 0
      BY <2>2, <3>1, ReputationRanges
    <3> QED BY <2>1, <3>2
  <2>5. CASE "payment" \notin failed
    <3>1. failed \cap EventTypes = {}
      BY <1>1, <2>5 DEF Reads, EventTypes
    <3>2. c = d
      BY <3>1
    <3> HIDE DEF c, d, p, q
    <3> QED BY <2>1, <3>2
  <2> QED BY <2>4, <2>5
<1>5. LimitOf(p) <= LimitOf(q)
  <2>1. (p.credit = None \/ p.credit = q.credit) /\ q.credit = estimateCredit(q.trust, 0)
    <3>1. /\ p.credit = IF "credit" \in failed THEN None ELSE estimateCredit(p.trust, 0)
          /\ q.credit = IF "credit" \in {} THEN None ELSE estimateCredit(q.trust, 0)
      BY PartsAre, Zenon
    <3> HIDE DEF p, q
    <3> QED BY <1>2, <3>1
  <2>2. LimitOf(q) \in Nat
    BY PartsAreTyped DEF PartsTyped
  <2> HIDE DEF p, q
  <2> QED BY <2>1, <2>2 DEF LimitOf
<1>6. p.sanctions = "allowed" => q.sanctions = "allowed"
  <2>1. /\ p.sanctions = checkSanctions(Subject, denyList, "sanctions" \in failed)
        /\ q.sanctions = checkSanctions(Subject, denyList, "sanctions" \in {})
    BY PartsAre, Zenon
  <2> HIDE DEF p, q
  <2> QED BY <2>1 DEF checkSanctions
<1> HIDE DEF p, q
<1>7. ScoreOf(p.trust) = ScoreOf(q.trust) /\ SybilRiskOf(p) = SybilRiskOf(q) /\ SybilScoreOf(p) = SybilScoreOf(q)
  BY <1>2, Zenon DEF SybilRiskOf, SybilScoreOf
<1>8. NoBetter(p, q)
  BY <1>3, <1>4, <1>5, <1>6, <1>7 DEF NoBetter
<1> QED BY <1>8 DEF p, q

\* A decision keeps DenialsStand.
LEMMA DenialsKept ==
  ASSUME AInv, NEW failed \in SUBSET Reads, NEW denyList, Decide(failed, denyList)
  PROVE  DenialsStand'
<1> DEFINE p == PartsWithout(failed, denyList)
           q == PartsWithout({}, denyList)
<1>1. /\ answer'.failed = failed /\ answer'.result = DecidedBy(p) /\ answer'.full = DecidedBy(q)
  BY DecisionIs
<1>2. SUFFICES ASSUME failed \cap TakenForGood = {}
               PROVE  /\ DecidedBy(p).underwrite.approved => DecidedBy(q).underwrite.approved
                      /\ DecidedBy(p).underwrite.recommendedLimit <= DecidedBy(q).underwrite.recommendedLimit
                      /\ DecidedBy(p).counterparty.allow => DecidedBy(q).counterparty.allow
                      /\ DecidedBy(p).passport.creditLimit <= DecidedBy(q).passport.creditLimit
  <2> HIDE DEF p, q
  <2> QED BY <1>1, Zenon DEF DenialsStand, TakenForGood
<1>3. PartsTyped(p) /\ PartsTyped(q) /\ NoBetter(p, q)
  BY <1>2, PartsAreTyped, FailureIsNoBetter
<1> HIDE DEF p, q
<1>4. \A r : /\ DecidedBy(r).underwrite = underwrite(r)
             /\ DecidedBy(r).counterparty = checkCounterparty(r.trust, r.delegation, r.sanctions)
             /\ DecidedBy(r).passport.creditLimit = LimitOf(r)
  <2>1. \A r : /\ DecidedBy(r).underwrite = underwrite(r)
               /\ DecidedBy(r).counterparty = checkCounterparty(r.trust, r.delegation, r.sanctions)
               /\ DecidedBy(r).passport = generatePassport(r, now)
    BY DEF DecidedBy
  <2>2. \A r : generatePassport(r, now).creditLimit = LimitOf(r)
    BY Zenon DEF generatePassport, LimitOf
  <2> QED BY <2>1, <2>2
<1>5. LimitOf(p) <= LimitOf(q)
  BY <1>3 DEF NoBetter
<1> QED BY <1>3, <1>4, <1>5, UnderwriteGrows, CounterpartyGrows

(***************************************************************************)
(* For every chain, every account and every set of failed reads outside    *)
(* TakenForGood, a decision of src/underwriting.ts, src/counterparty.ts or *)
(* src/passport.ts is no better than the one the same wallet gets when     *)
(* every read comes back.                                                  *)
(***************************************************************************)
THEOREM DenialsHold == Spec => []DenialsStand
<1>1. Init => DenialsStand
  BY Zenon, AskedAs DEF Init, DenialsStand
<1>2. AInv /\ DenialsStand /\ [Next]_vars => DenialsStand'
  <2> SUFFICES ASSUME AInv, DenialsStand, [Next]_vars PROVE DenialsStand'
    OBVIOUS
  <2>1. CASE UNCHANGED vars
    BY <2>1, Zenon DEF DenialsStand, vars
  <2>2. ASSUME NEW failed \in UpTo(MaxFailures, Reads), NEW denyList, Decide(failed, denyList)
        PROVE  DenialsStand'
    <3>1. failed \in SUBSET Reads
      BY DEF UpTo, kSubset
    <3> QED BY <2>2, <3>1, DenialsKept
  <2>3. CASE answer'.ask # "decision"
    BY <2>3, Zenon DEF DenialsStand
  <2>4. answer' = NoAnswer => answer'.ask = "nothing"
    BY AskedAs
  <2> QED BY <2>1, <2>2, <2>3, <2>4, StepsAnswer, AskedAs, Zenon
<1> QED BY <1>1, <1>2, InOrderAlways, PTL DEF Spec

-----------------------------------------------------------------------------
(***************************************************************************)
(* The replay of registry calls into a list of delegations.                *)
(***************************************************************************)
Listed == [to : Wallets, amount : Nat]
Calls == [kind : {"add", "revoke"}, agent : Wallets, sponsor : Wallets, amount : Nat]

\* A step of the replay keeps a list of delegations, and replaces what the list
\* says of one agent.
LEMMA StepReplaces ==
  ASSUME NEW list \in Seq(Listed), NEW tx \in Calls
  PROVE  /\ replayStep(list, tx) \in Seq(Listed)
         /\ ToSet(replayStep(list, tx)) =
              {d \in ToSet(list) : d.to # tx.agent}
              \cup (IF tx.kind = "add" THEN {[to |-> tx.agent, amount |-> tx.amount]} ELSE {})
<1> DEFINE new == [to |-> tx.agent, amount |-> tx.amount]
           others == {d \in ToSet(list) : d.to # tx.agent}
<1>1. new \in Listed /\ new.to = tx.agent
  BY DEF Listed, Calls
<1>2. tx.kind = "add" \/ (tx.kind = "revoke" /\ tx.kind # "add")
  BY DEF Calls
<1>3. CASE tx.kind = "revoke"
  <2> DEFINE dropped == {list[i] : i \in {j \in DOMAIN list : ~(list[j].to # tx.agent)}}
  <2>1. replayStep(list, tx) = Drop(list, dropped)
    BY <1>3 DEF replayStep, MapDelete, Only
  <2>2. ToSet(list) \ dropped = others
    BY DEF ToSet
  <2> HIDE DEF dropped, others
  <2>3. Drop(list, dropped) \in Seq(Listed) /\ ToSet(Drop(list, dropped)) = ToSet(list) \ dropped
    BY DropKeeps
  <2> QED BY <1>3, <2>1, <2>2, <2>3 DEF others
<1>4. CASE tx.kind = "add" /\ \E i \in DOMAIN list : list[i].to = tx.agent
  <2> DEFINE put == [i \in DOMAIN list |-> IF list[i].to = tx.agent THEN new ELSE list[i]]
  <2>1. replayStep(list, tx) = put
    BY <1>4 DEF replayStep, MapSet
  <2>2. DOMAIN list = 1..Len(list) /\ Len(list) \in Nat /\ \A i \in DOMAIN list : list[i] \in Listed
    OBVIOUS
  <2>3. DOMAIN put = 1..Len(list) /\ \A i \in 1..Len(list) : put[i] \in Listed
    BY <1>1, <2>2
  <2>4. put \in Seq(Listed)
    BY <1>1, <2>2
  <2>5. ToSet(put) = others \cup {new}
    <3>1. \A i \in DOMAIN list : put[i] = IF list[i].to = tx.agent THEN new ELSE list[i]
      OBVIOUS
    <3>2. DOMAIN put = DOMAIN list
      OBVIOUS
    <3> HIDE DEF put, new
    <3> QED BY <1>4, <3>1, <3>2, Zenon DEF ToSet
  <2> QED BY <1>4, <2>1, <2>4, <2>5
<1>5. CASE tx.kind = "add" /\ ~ \E i \in DOMAIN list : list[i].to = tx.agent
  <2>1. replayStep(list, tx) = Append(list, new)
    BY <1>5 DEF replayStep, MapSet
  <2>2. Append(list, new) \in Seq(Listed)
    BY <1>1
  <2>3. ToSet(Append(list, new)) = ToSet(list) \cup {new}
    <3> DEFINE longer == Append(list, new)
    <3>1. /\ DOMAIN list = 1..Len(list) /\ Len(list) \in Nat
          /\ DOMAIN longer = 1..(Len(list) + 1) /\ longer[Len(list) + 1] = new
          /\ \A i \in 1..Len(list) : longer[i] = list[i]
      BY <1>1
    <3> HIDE DEF longer, new
    <3>2. \A x : x \in ToSet(longer) <=> x \in ToSet(list) \/ x = new
      BY <3>1 DEF ToSet
    <3> QED BY <3>2 DEF longer
  <2>4. ToSet(list) = others
    BY <1>5 DEF ToSet
  <2> QED BY <1>5, <2>1, <2>2, <2>3, <2>4
<1> QED BY <1>2, <1>3, <1>4, <1>5

\* The recursion of FoldLeft over the sets of indices of s.
ReplayedOver(T, s) ==
  T = [d \in SUBSET DOMAIN s |-> IF d = {} THEN <<>> ELSE replayStep(T[d \ {Max(d)}], s[Max(d)])]

\* f applies one call after the other.
ReplayedBy(f, s, r) ==
  /\ f \in [0..Len(s) -> Seq(Listed)] /\ f[0] = <<>> /\ f[Len(s)] = r
  /\ \A i \in 1..Len(s) : f[i] = replayStep(f[i - 1], s[i])

\* FoldLeft applies one call after the other.
LEMMA ReplayFolds ==
  ASSUME NEW s \in Seq(Calls)
  PROVE  \E f : ReplayedBy(f, s, FoldLeft(replayStep, <<>>, s))
<1> DEFINE n == Len(s)
           S == 1..n
           V == Seq(Listed)
           pick == [d \in SUBSET S |-> Max(d)]
           step == [i \in S |-> [v \in V |-> replayStep(v, s[i])]]
           T == CHOOSE F : ReplayedOver(F, s)
<1>1. n \in Nat /\ DOMAIN s = S /\ IsFiniteSet(S) /\ \A i \in S : s[i] \in Calls
  BY FS_Interval
<1>2. \A d \in SUBSET S : d # {} => pick[d] = Max(d) /\ pick[d] \in d
  BY <1>1, MaxIsIn
<1>3. \A v \in V, c \in Calls : replayStep(v, c) \in V
  BY StepReplaces
<1>4. step \in [S -> [V -> V]] /\ \A i \in S, v \in V : step[i][v] = replayStep(v, s[i])
  BY <1>1, <1>3
<1>0. <<>> \in V
  OBVIOUS
<1> HIDE DEF pick, step, V
<1>5. PICK F \in [SUBSET S -> V] : FoldsBy(F, pick, <<>>, step, SUBSET S)
  <2>1. \A d \in SUBSET S : d # {} => pick[d] \in d
    BY <1>2
  <2>2. Foldable(S, pick, V, <<>>, step)
    BY <1>0, <1>1, <1>4, <2>1, FoldExists
  <2> QED BY <2>2 DEF Foldable
<1>6. \A d \in SUBSET S : F[d] = IF d = {} THEN <<>> ELSE replayStep(F[d \ {Max(d)}], s[Max(d)])
  <2> SUFFICES ASSUME NEW d \in SUBSET S
               PROVE  F[d] = IF d = {} THEN <<>> ELSE replayStep(F[d \ {Max(d)}], s[Max(d)])
    OBVIOUS
  <2>1. F[d] = IF d = {} THEN <<>> ELSE step[pick[d]][F[d \ {pick[d]}]]
    BY <1>5 DEF FoldsBy
  <2>2. ASSUME d # {} PROVE step[pick[d]][F[d \ {pick[d]}]] = replayStep(F[d \ {Max(d)}], s[Max(d)])
    <3>1. Max(d) = pick[d] /\ pick[d] \in S /\ d \ {pick[d]} \in SUBSET S
      BY <1>2, <2>2
    <3>2. F[d \ {pick[d]}] \in V
      BY <1>5, <3>1
    <3> QED BY <1>4, <3>1, <3>2
  <2> QED BY <2>1, <2>2
<1>7. F = [d \in SUBSET S |-> F[d]]
  BY <1>5
<1>8. ReplayedOver(F, s)
  BY <1>1, <1>6, <1>7, Zenon DEF ReplayedOver
<1>9. ReplayedOver(T, s)
  BY <1>8, Zenon
<1>10. FoldLeft(replayStep, <<>>, s) = T[S]
  BY <1>1 DEF FoldLeft, MapThenFoldSet, ReplayedOver
<1> HIDE DEF T
<1>11. \A d \in SUBSET S : T[d] = IF d = {} THEN <<>> ELSE replayStep(T[d \ {Max(d)}], s[Max(d)])
  <2> DEFINE body(d) == IF d = {} THEN <<>> ELSE replayStep(T[d \ {Max(d)}], s[Max(d)])
  <2>1. T = [d \in SUBSET S |-> body(d)]
    BY <1>1, <1>9 DEF ReplayedOver
  <2> HIDE DEF body
  <2>2. \A d \in SUBSET S : T[d] = body(d)
    BY <2>1, Zenon
  <2> QED BY <2>2 DEF body
<1> DEFINE f == [i \in 0..n |-> T[1..i]]
<1>12. f[0] = <<>> /\ f[n] = T[S]
  <2>1. 1..0 = {} /\ 0 \in 0..n /\ n \in 0..n
    BY <1>1
  <2>2. T[{}] = <<>>
    BY <1>11
  <2> QED BY <2>1, <2>2
<1>13. \A i \in 1..n : f[i] = replayStep(f[i - 1], s[i])
  <2> SUFFICES ASSUME NEW i \in 1..n PROVE f[i] = replayStep(f[i - 1], s[i])
    OBVIOUS
  <2>1. i \in Nat /\ i > 0 /\ i \in 0..n /\ i - 1 \in 0..n /\ 1..i \in SUBSET S /\ 1..i # {}
    <3>1. n \in Nat /\ i \in 1..n
      BY <1>1
    <3> HIDE DEF n
    <3>2. i \in Nat /\ i > 0 /\ i \in 0..n /\ i - 1 \in 0..n
      BY <3>1
    <3>3. 1..i \subseteq 1..n /\ i \in 1..i
      BY <3>1
    <3> QED BY <3>2, <3>3
  <2>2. T[1..i] = replayStep(T[1..(i - 1)], s[i])
    BY <1>11, <2>1, MaxOfPrefix
  <2> QED BY <2>1, <2>2
<1> HIDE DEF f
<1>14. \A i \in 0..n : f[i] \in V
  <2> DEFINE Bad == {i \in 0..n : f[i] \notin V}
  <2>1. SUFFICES ASSUME Bad # {} PROVE FALSE
    OBVIOUS
  <2>2. 0 \notin Bad /\ Bad \in SUBSET (0..n)
    BY <1>0, <1>12
  <2>3. PICK m \in 1..n : m \in Bad /\ m - 1 \in 0..n /\ m - 1 \notin Bad
    <3> HIDE DEF Bad
    <3> QED BY <1>1, <2>1, <2>2, FirstFailure
  <2>4. f[m - 1] \in V /\ s[m] \in Calls /\ f[m] = replayStep(f[m - 1], s[m])
    BY <1>1, <1>13, <2>3
  <2> QED BY <1>3, <2>3, <2>4
<1>15. f \in [0..n -> V]
  BY <1>14 DEF f
<1>16. ReplayedBy(f, s, FoldLeft(replayStep, <<>>, s))
  BY <1>10, <1>12, <1>13, <1>15 DEF ReplayedBy, V
<1> QED BY <1>16

-----------------------------------------------------------------------------
\* The last word of the first n calls on the agent of d is that d is added.
Left(s, n, d) ==
  \E k \in 1..n : /\ s[k].kind = "add" /\ d = [to |-> s[k].agent, amount |-> s[k].amount]
                  /\ \A m \in 1..n : m > k => s[m].agent # s[k].agent

\* One more call has the last word on its own agent and leaves the others alone.
LEMMA LeftGoesOn ==
  ASSUME NEW s \in Seq(Calls), NEW m \in 1..Len(s), NEW d
  PROVE  Left(s, m, d) <=> \/ Left(s, m - 1, d) /\ d.to # s[m].agent
                           \/ s[m].kind = "add" /\ d = [to |-> s[m].agent, amount |-> s[m].amount]
<1> DEFINE e(k) == [to |-> s[k].agent, amount |-> s[k].amount]
<1>0. \A k : e(k).to = s[k].agent
  OBVIOUS
<1>1. /\ m \in Nat /\ m - 1 \in Nat /\ m \in 1..m
      /\ \A k \in 1..m : k = m \/ (k \in 1..(m - 1) /\ m > k)
      /\ \A k \in 1..(m - 1) : k \in 1..m /\ m > k
      /\ \A k \in 1..m : ~(k > m)
  OBVIOUS
<1> HIDE DEF e
<1>2. ASSUME Left(s, m, d)
      PROVE  (Left(s, m - 1, d) /\ d.to # s[m].agent) \/ (s[m].kind = "add" /\ d = e(m))
  <2>1. PICK k \in 1..m : /\ s[k].kind = "add" /\ d = e(k)
                          /\ \A j \in 1..m : j > k => s[j].agent # s[k].agent
    BY <1>2 DEF Left, e
  <2>2. CASE k = m
    BY <2>1, <2>2
  <2>3. CASE k \in 1..(m - 1) /\ m > k
    <3>1. Left(s, m - 1, d)
      BY <1>1, <2>1, <2>3 DEF Left, e
    <3>2. d.to # s[m].agent
      BY <1>0, <1>1, <2>1, <2>3
    <3> QED BY <3>1, <3>2
  <2> QED BY <1>1, <2>2, <2>3
<1>3. ASSUME Left(s, m - 1, d), d.to # s[m].agent PROVE Left(s, m, d)
  <2>1. PICK k \in 1..(m - 1) : /\ s[k].kind = "add" /\ d = e(k)
                                /\ \A j \in 1..(m - 1) : j > k => s[j].agent # s[k].agent
    BY <1>3 DEF Left, e
  <2>2. \A j \in 1..m : j > k => s[j].agent # s[k].agent
    BY <1>0, <1>1, <1>3, <2>1
  <2> QED BY <1>1, <2>1, <2>2 DEF Left, e
<1>4. ASSUME s[m].kind = "add", d = e(m) PROVE Left(s, m, d)
  BY <1>1, <1>4 DEF Left, e
<1> QED BY <1>2, <1>3, <1>4 DEF e

\* The replay lists what the calls leave.
LEMMA ReplayLeaves ==
  ASSUME NEW s \in Seq(Calls)
  PROVE  /\ FoldLeft(replayStep, <<>>, s) \in Seq(Listed)
         /\ \A d : d \in ToSet(FoldLeft(replayStep, <<>>, s)) <=> Left(s, Len(s), d)
<1>1. PICK f : ReplayedBy(f, s, FoldLeft(replayStep, <<>>, s))
  BY ReplayFolds
<1> DEFINE n == Len(s)
           Good(i) == \A d : d \in ToSet(f[i]) <=> Left(s, i, d)
           Bad == {i \in 0..n : ~Good(i)}
<1>2. /\ n \in Nat /\ f \in [0..n -> Seq(Listed)] /\ f[0] = <<>>
      /\ f[n] = FoldLeft(replayStep, <<>>, s)
      /\ \A i \in 1..n : f[i] = replayStep(f[i - 1], s[i])
  BY <1>1 DEF ReplayedBy
<1>3. Good(0)
  <2>1. ToSet(<<>>) = {} /\ 1..0 = {}
    BY DEF ToSet
  <2> QED BY <1>2, <2>1 DEF Left
<1>4. ASSUME NEW m \in 1..n, Good(m - 1) PROVE Good(m)
  <2> DEFINE new == [to |-> s[m].agent, amount |-> s[m].amount]
  <2>1. f[m - 1] \in Seq(Listed) /\ s[m] \in Calls /\ f[m] = replayStep(f[m - 1], s[m])
    BY <1>2
  <2>2. ToSet(f[m]) = {d \in ToSet(f[m - 1]) : d.to # s[m].agent}
                      \cup (IF s[m].kind = "add" THEN {new} ELSE {})
    BY <2>1, StepReplaces
  <2>3. \A d : Left(s, m, d) <=> \/ Left(s, m - 1, d) /\ d.to # s[m].agent
                                 \/ s[m].kind = "add" /\ d = new
    BY LeftGoesOn
  <2> HIDE DEF new
  <2> QED BY <1>4, <2>2, <2>3, Zenon
<1>5. Bad = {}
  <2>1. SUFFICES ASSUME Bad # {} PROVE FALSE
    OBVIOUS
  <2> HIDE DEF Good
  <2>2. 0 \notin Bad /\ Bad \in SUBSET (0..n)
    BY <1>3
  <2>3. PICK m \in 1..n : m \in Bad /\ m - 1 \in 0..n /\ m - 1 \notin Bad
    <3> HIDE DEF Bad
    <3> QED BY <1>2, <2>1, <2>2, FirstFailure
  <2> QED BY <1>4, <2>3
<1>6. n \in 0..n
  BY <1>2
<1>7. Good(n)
  <2> HIDE DEF Good
  <2> QED BY <1>5, <1>6
<1>8. f[n] \in Seq(Listed)
  BY <1>2, <1>6
<1> HIDE DEF n
<1> QED BY <1>2, <1>7, <1>8 DEF n

\* The last element that is kept of a sequence is the last one not dropped.
LEMMA LastKept ==
  ASSUME NEW S, NEW s \in Seq(S), NEW dropped
  PROVE  LET t == Drop(s, dropped)
         IN  /\ t = <<>> <=> \A k \in 1..Len(s) : s[k] \in dropped
             /\ t # <<>> => \E k \in 1..Len(s) :
                  /\ s[k] \notin dropped /\ t[Len(t)] = s[k]
                  /\ \A m \in 1..Len(s) : m > k => s[m] \in dropped
<1> DEFINE t == Drop(s, dropped)
           n == Len(s)
           l == Len(t)
<1>1. t \in Seq(S) /\ Selected(t, s, n, dropped)
  BY DropSelects
<1>2. PICK h : Selects(h, t, s, n, dropped)
  BY <1>1 DEF Selected
<1> HIDE DEF t
<1>3. /\ l \in Nat /\ n \in Nat /\ h \in [1..l -> 1..n]
      /\ \A i, j \in 1..l : i < j => h[i] < h[j]
      /\ \A j \in 1..l : t[j] = s[h[j]] /\ t[j] \notin dropped
      /\ \A i \in 1..n : s[i] \notin dropped => \E j \in 1..l : h[j] = i
  BY <1>1, <1>2 DEF Selects
<1>4. t = <<>> <=> l = 0
  BY <1>1
<1> HIDE DEF n, l
<1>5. ASSUME l = 0 PROVE \A k \in 1..n : s[k] \in dropped
  BY <1>3, <1>5
<1>6. ASSUME l # 0
      PROVE  \E k \in 1..n : /\ s[k] \notin dropped /\ t[l] = s[k]
                             /\ \A m \in 1..n : m > k => s[m] \in dropped
  <2>1. l \in 1..l
    BY <1>3, <1>6
  <2>2. h[l] \in 1..n /\ s[h[l]] \notin dropped /\ t[l] = s[h[l]]
    BY <1>3, <2>1
  <2>3. ASSUME NEW m \in 1..n, m > h[l], s[m] \notin dropped PROVE FALSE
    <3>1. PICK j \in 1..l : h[j] = m
      BY <1>3, <2>3
    <3>2. j = l \/ j < l
      BY <1>3
    <3>3. j < l => h[j] < h[l]
      BY <1>3, <2>1
    <3>4. m \in Nat /\ h[l] \in Nat
      BY <1>3, <2>2
    <3> QED BY <2>3, <3>1, <3>2, <3>3, <3>4
  <2> QED BY <2>2, <2>3
<1>7. \A k \in 1..n : k > 0
  BY <1>3
<1> QED BY <1>4, <1>5, <1>6 DEF n, l, t

-----------------------------------------------------------------------------
\* The registry calls of a sponsor, and the last word of the chain on an agent.
IsCall(e, sponsor) == e.kind # "pay" /\ e.from = sponsor

LeftOnChain(d) ==
  \E k \in DOMAIN chain :
    /\ chain[k].kind = "add" /\ chain[k].from = Subject
    /\ d = [to |-> chain[k].to, amount |-> chain[k].amount]
    /\ \A m \in DOMAIN chain : m > k /\ IsCall(chain[m], Subject) => chain[m].to # chain[k].to

\* The registry holds active what the chain leaves.
LEMMA ActiveIs ==
  ASSUME ChainInOrder(chain, now), NEW d
  PROVE  d \in Active(Subject) <=> LeftOnChain(d)
<1> DEFINE dropped(w) == {chain[i] : i \in {j \in DOMAIN chain :
                            ~(chain[j].kind # "pay" /\ chain[j].from = Subject /\ chain[j].to = w)}}
           t(w) == Drop(chain, dropped(w))
           n == Len(chain)
           Names(k, w) == IsCall(chain[k], Subject) /\ chain[k].to = w
<1>1. chain \in Seq(Entries) /\ n \in Nat /\ DOMAIN chain = 1..n
  BY DEF ChainInOrder
<1>2. \A k \in 1..n : /\ chain[k].to \in Wallets /\ (chain[k].kind = "add" => chain[k].kind # "pay")
  <2>1. \A k \in 1..n : chain[k] \in Entries
    BY <1>1
  <2> QED BY <2>1 DEF Entries
<1>3. \A w : \A k \in 1..n : chain[k] \in dropped(w) <=> ~Names(k, w)
  BY <1>1 DEF IsCall
<1>4. d \in Active(Subject) <=>
        \E w \in Wallets : t(w) # <<>> /\ t(w)[Len(t(w))].kind = "add"
                           /\ d = [to |-> w, amount |-> t(w)[Len(t(w))].amount]
  <2> DEFINE last == [w \in Wallets |-> t(w)]
  <2>1. Active(Subject) = {[to |-> w, amount |-> last[w][Len(last[w])].amount] :
           w \in {v \in Wallets : last[v] # <<>> /\ last[v][Len(last[v])].kind = "add"}}
    BY DEF Active, Only
  <2>2. \A w \in Wallets : last[w] = t(w)
    OBVIOUS
  <2> HIDE DEF last, t
  <2> QED BY <2>1, <2>2
<1>5. ASSUME NEW w
      PROVE  /\ t(w) = <<>> <=> \A k \in 1..n : chain[k] \in dropped(w)
             /\ t(w) # <<>> => \E k \in 1..n :
                  /\ chain[k] \notin dropped(w) /\ t(w)[Len(t(w))] = chain[k]
                  /\ \A m \in 1..n : m > k => chain[m] \in dropped(w)
  BY <1>1, LastKept
<1> HIDE DEF t, dropped, n
<1>6. ASSUME NEW w
      PROVE  /\ t(w) = <<>> <=> \A k \in 1..n : ~Names(k, w)
             /\ t(w) # <<>> => \E k \in 1..n :
                  /\ Names(k, w) /\ t(w)[Len(t(w))] = chain[k]
                  /\ \A m \in 1..n : m > k => ~Names(m, w)
  <2> HIDE DEF Names
  <2>1. \A k \in 1..n : chain[k] \in dropped(w) <=> ~Names(k, w)
    BY <1>3
  <2> QED BY <1>5, <2>1
<1>7. ASSUME NEW w \in Wallets, t(w) # <<>>, t(w)[Len(t(w))].kind = "add",
             d = [to |-> w, amount |-> t(w)[Len(t(w))].amount]
      PROVE  LeftOnChain(d)
  <2>1. PICK k \in 1..n : /\ Names(k, w) /\ t(w)[Len(t(w))] = chain[k]
                          /\ \A m \in 1..n : m > k => ~Names(m, w)
    BY <1>6, <1>7
  <2>2. chain[k].kind = "add" /\ chain[k].from = Subject /\ chain[k].to = w
        /\ d = [to |-> chain[k].to, amount |-> chain[k].amount]
    BY <1>7, <2>1 DEF IsCall
  <2>3. \A m \in 1..n : m > k /\ IsCall(chain[m], Subject) => chain[m].to # w
    BY <2>1
  <2> QED BY <1>1, <2>2, <2>3 DEF LeftOnChain
<1>8. ASSUME LeftOnChain(d)
      PROVE  \E w \in Wallets : t(w) # <<>> /\ t(w)[Len(t(w))].kind = "add"
                           /\ d = [to |-> w, amount |-> t(w)[Len(t(w))].amount]
  <2>1. PICK k \in 1..n :
          /\ chain[k].kind = "add" /\ chain[k].from = Subject
          /\ d = [to |-> chain[k].to, amount |-> chain[k].amount]
          /\ \A m \in 1..n : m > k /\ IsCall(chain[m], Subject) => chain[m].to # chain[k].to
    BY <1>1, <1>8 DEF LeftOnChain
  <2> DEFINE w == chain[k].to
  <2>2. w \in Wallets /\ Names(k, w)
    BY <1>2, <2>1 DEF IsCall
  <2>3. t(w) # <<>>
    BY <1>6, <2>2
  <2>4. PICK l \in 1..n : /\ Names(l, w) /\ t(w)[Len(t(w))] = chain[l]
                          /\ \A m \in 1..n : m > l => ~Names(m, w)
    BY <1>6, <2>3
  <2>5. ~(k > l) /\ ~(l > k)
    BY <2>1, <2>2, <2>4
  <2>6. k = l
    BY <1>1, <2>5
  <2> QED BY <2>1, <2>2, <2>3, <2>4, <2>6
<1> QED BY <1>4, <1>7, <1>8

\* The calls s are, one for one and in order, those the Subject made on the chain.
Mirrors(g, s) ==
  /\ g \in [1..Len(s) -> DOMAIN chain]
  /\ \A i, j \in 1..Len(s) : i < j => g[i] < g[j]
  /\ \A i \in 1..Len(s) : /\ IsCall(chain[g[i]], Subject) /\ s[i].kind = chain[g[i]].kind
                          /\ s[i].agent = chain[g[i]].to /\ s[i].amount = chain[g[i]].amount
  /\ \A k \in DOMAIN chain : IsCall(chain[k], Subject) => \E i \in 1..Len(s) : g[i] = k

\* Such calls leave what the chain leaves.
LEMMA MirrorLeaves ==
  ASSUME ChainInOrder(chain, now), NEW s \in Seq(Calls), NEW g, Mirrors(g, s), NEW d
  PROVE  Left(s, Len(s), d) <=> LeftOnChain(d)
<1> DEFINE n == Len(s)
<1>1. /\ n \in Nat /\ DOMAIN chain \subseteq Nat
      /\ \A k \in DOMAIN chain : chain[k].kind = "add" => chain[k].kind # "pay"
  BY DEF ChainInOrder
<1>2. /\ g \in [1..n -> DOMAIN chain]
      /\ \A i, j \in 1..n : i < j => g[i] < g[j]
      /\ \A i \in 1..n : /\ IsCall(chain[g[i]], Subject) /\ s[i].kind = chain[g[i]].kind
                         /\ s[i].agent = chain[g[i]].to /\ s[i].amount = chain[g[i]].amount
      /\ \A k \in DOMAIN chain : IsCall(chain[k], Subject) => \E i \in 1..n : g[i] = k
  BY DEF Mirrors
<1>3. \A i, j \in 1..n : i > j <=> g[i] > g[j]
  <2> SUFFICES ASSUME NEW i \in 1..n, NEW j \in 1..n PROVE i > j <=> g[i] > g[j]
    OBVIOUS
  <2>1. g[i] \in Nat /\ g[j] \in Nat /\ i \in Nat /\ j \in Nat
    BY <1>1, <1>2
  <2>2. i < j => g[i] < g[j]
    BY <1>2
  <2>3. j < i => g[j] < g[i]
    BY <1>2
  <2>4. i = j => g[i] = g[j]
    OBVIOUS
  <2> QED BY <2>1, <2>2, <2>3, <2>4
<1> HIDE DEF n
<1>4. ASSUME Left(s, n, d) PROVE LeftOnChain(d)
  <2>1. PICK k \in 1..n : /\ s[k].kind = "add" /\ d = [to |-> s[k].agent, amount |-> s[k].amount]
                          /\ \A m \in 1..n : m > k => s[m].agent # s[k].agent
    BY <1>4 DEF Left
  <2>2. /\ g[k] \in DOMAIN chain /\ chain[g[k]].kind = "add" /\ chain[g[k]].from = Subject
        /\ d = [to |-> chain[g[k]].to, amount |-> chain[g[k]].amount]
        /\ s[k].agent = chain[g[k]].to
    BY <1>2, <2>1 DEF IsCall
  <2>3. ASSUME NEW m \in DOMAIN chain, m > g[k], IsCall(chain[m], Subject)
        PROVE  chain[m].to # chain[g[k]].to
    <3>1. PICK i \in 1..n : g[i] = m
      BY <1>2, <2>3
    <3>2. i > k
      BY <1>3, <2>3, <3>1
    <3>3. s[i].agent # s[k].agent /\ s[i].agent = chain[m].to
      BY <1>2, <2>1, <3>1, <3>2
    <3> QED BY <2>2, <3>3
  <2> QED BY <2>2, <2>3 DEF LeftOnChain
<1>5. ASSUME LeftOnChain(d) PROVE Left(s, n, d)
  <2>1. PICK k \in DOMAIN chain :
          /\ chain[k].kind = "add" /\ chain[k].from = Subject
          /\ d = [to |-> chain[k].to, amount |-> chain[k].amount]
          /\ \A m \in DOMAIN chain : m > k /\ IsCall(chain[m], Subject) => chain[m].to # chain[k].to
    BY <1>5 DEF LeftOnChain
  <2>2. IsCall(chain[k], Subject)
    BY <1>1, <2>1 DEF IsCall
  <2>3. PICK i \in 1..n : g[i] = k
    BY <1>2, <2>2
  <2>4. s[i].kind = "add" /\ d = [to |-> s[i].agent, amount |-> s[i].amount]
        /\ s[i].agent = chain[k].to
    BY <1>2, <2>1, <2>3
  <2>5. ASSUME NEW m \in 1..n, m > i PROVE s[m].agent # s[i].agent
    <3>1. g[m] \in DOMAIN chain /\ g[m] > k /\ IsCall(chain[g[m]], Subject)
      BY <1>2, <1>3, <2>3, <2>5
    <3>2. s[m].agent = chain[g[m]].to
      BY <1>2
    <3> QED BY <2>1, <2>4, <3>1, <3>2
  <2> QED BY <2>4, <2>5 DEF Left
<1> QED BY <1>4, <1>5 DEF n

-----------------------------------------------------------------------------
\* The registry calls of the chain that name a wallet, and one of them as the
\* indexer gives it.
CallsNaming(w) == Only(chain, LAMBDA c : c.kind # "pay" /\ w \in {c.from, c.to})
CallOf(e) == [kind |-> e.kind, agent |-> e.to, sponsor |-> e.from, amount |-> e.amount]

\* They are calls of the chain, and all of them, in its order.
LEMMA CallsNamingAre ==
  ASSUME ChainInOrder(chain, now), NEW w
  PROVE  LET t == CallsNaming(w)
         IN  /\ t \in Seq(Entries)
             /\ \A i \in 1..Len(t) : t[i].kind # "pay" /\ w \in {t[i].from, t[i].to}
             /\ \E h : /\ h \in [1..Len(t) -> DOMAIN chain]
                       /\ \A i, j \in 1..Len(t) : i < j => h[i] < h[j]
                       /\ \A j \in 1..Len(t) : t[j] = chain[h[j]]
                       /\ \A k \in DOMAIN chain : chain[k].kind # "pay" /\ w \in {chain[k].from, chain[k].to}
                            => \E j \in 1..Len(t) : h[j] = k
<1> DEFINE Passes(e) == e.kind # "pay" /\ w \in {e.from, e.to}
           dropped == {chain[i] : i \in {j \in DOMAIN chain : ~Passes(chain[j])}}
           t == CallsNaming(w)
<1>1. chain \in Seq(Entries) /\ DOMAIN chain = 1..Len(chain)
  BY DEF ChainInOrder
<1>2. t = Drop(chain, dropped)
  BY DEF CallsNaming, Only
<1>3. \A k \in DOMAIN chain : chain[k] \in dropped <=> ~Passes(chain[k])
  OBVIOUS
<1> HIDE DEF dropped, t
<1>4. t \in Seq(Entries) /\ Selected(t, chain, Len(chain), dropped)
  BY <1>1, <1>2, DropSelects
<1>5. PICK h : Selects(h, t, chain, Len(chain), dropped)
  BY <1>4 DEF Selected
<1>6. /\ h \in [1..Len(t) -> DOMAIN chain]
      /\ \A i, j \in 1..Len(t) : i < j => h[i] < h[j]
      /\ \A j \in 1..Len(t) : t[j] = chain[h[j]] /\ t[j] \notin dropped
      /\ \A i \in DOMAIN chain : chain[i] \notin dropped => \E j \in 1..Len(t) : h[j] = i
  BY <1>1, <1>5 DEF Selects
<1>7. \A i \in 1..Len(t) : Passes(t[i])
  BY <1>3, <1>6
<1>8. \A k \in DOMAIN chain : Passes(chain[k]) => \E j \in 1..Len(t) : h[j] = k
  BY <1>3, <1>6
<1> QED BY <1>4, <1>6, <1>7, <1>8 DEF t

\* A page is made of calls; one that is complete and oldest first lists all of them.
LEMMA PageIs ==
  ASSUME ChainInOrder(chain, now), NEW w, NEW newestFirst
  PROVE  /\ RegistryPage(w, newestFirst) \in Seq(Calls)
         /\ CallsNaming(w) = <<>> => RegistryPage(w, newestFirst) = <<>>
         /\ Len(CallsNaming(w)) <= PageLimit =>
              /\ Len(RegistryPage(w, FALSE)) = Len(CallsNaming(w))
              /\ \A i \in 1..Len(CallsNaming(w)) : RegistryPage(w, FALSE)[i] = CallOf(CallsNaming(w)[i])
<1> DEFINE t == CallsNaming(w)
           page(x) == IF x THEN Reverse(t) ELSE t
           m(x) == Least(PageLimit, Len(page(x)))
<1>1. t \in Seq(Entries) /\ \A i \in 1..Len(t) : t[i].kind # "pay"
  BY CallsNamingAre
<1>2. \A x : RegistryPage(w, x) = [i \in 1..m(x) |-> CallOf(page(x)[i])]
  BY DEF RegistryPage, CallsNaming, CallOf
<1> HIDE DEF t
<1>3. \A i \in 1..Len(t) : CallOf(t[i]) \in Calls
  <2> SUFFICES ASSUME NEW i \in 1..Len(t) PROVE CallOf(t[i]) \in Calls
    OBVIOUS
  <2>1. t[i] \in Entries /\ t[i].kind # "pay"
    BY <1>1
  <2> QED BY <2>1 DEF Entries, Calls, CallOf
<1>4. \A x : Len(page(x)) = Len(t) /\ \A i \in 1..Len(t) : \E j \in 1..Len(t) : page(x)[i] = t[j]
  <2>1. /\ Len(Reverse(t)) = Len(t)
        /\ \A i \in 1..Len(t) : (Len(t) - i) + 1 \in 1..Len(t) /\ Reverse(t)[i] = t[(Len(t) - i) + 1]
    BY <1>1 DEF Reverse
  <2> QED BY <2>1
<1> HIDE DEF page
<1>5. PageLimit \in Nat \ {0} /\ Len(t) \in Nat
  BY <1>1, AnalysesConstants
<1>6. \A x : m(x) = Least(PageLimit, Len(t))
  BY <1>4
<1>7. Least(PageLimit, Len(t)) \in Nat /\ Least(PageLimit, Len(t)) <= Len(t)
  BY <1>5 DEF Least
<1>8. \A x : m(x) \in Nat /\ m(x) <= Len(t)
  BY <1>6, <1>7
<1> HIDE DEF m
<1>9. \A x : \A i \in 1..m(x) : CallOf(page(x)[i]) \in Calls
  <2> SUFFICES ASSUME NEW x, NEW i \in 1..m(x) PROVE CallOf(page(x)[i]) \in Calls
    OBVIOUS
  <2>1. m(x) \in Nat /\ m(x) <= Len(t)
    BY <1>8
  <2>2. i \in 1..Len(t)
    BY <1>5, <2>1
  <2> QED BY <1>3, <1>4, <2>2
<1>10. ASSUME NEW x PROVE RegistryPage(w, x) \in Seq(Calls)
  <2>1. m(x) \in Nat
    BY <1>8
  <2>2. [i \in 1..m(x) |-> CallOf(page(x)[i])] \in Seq(Calls)
    BY <1>9, <2>1
  <2> QED BY <1>2, <2>2
<1>11. ASSUME t = <<>> PROVE RegistryPage(w, newestFirst) = <<>>
  <2>1. Len(t) = 0
    BY <1>11
  <2>2. m(newestFirst) = 0
    BY <1>8, <2>1
  <2>3. DOMAIN RegistryPage(w, newestFirst) = 1..0
    BY <1>2, <2>2
  <2> QED BY <1>10, <2>3
<1>12. ASSUME Len(t) <= PageLimit
       PROVE  /\ Len(RegistryPage(w, FALSE)) = Len(t)
              /\ \A i \in 1..Len(t) : RegistryPage(w, FALSE)[i] = CallOf(t[i])
  <2>1. m(FALSE) = Len(t)
    <3>1. Least(PageLimit, Len(t)) = Len(t)
      BY <1>5, <1>12 DEF Least
    <3> QED BY <1>6, <3>1
  <2>2. page(FALSE) = t
    BY DEF page
  <2>3. RegistryPage(w, FALSE) = [i \in 1..Len(t) |-> CallOf(t[i])]
    BY <1>2, <2>1, <2>2
  <2>4. RegistryPage(w, FALSE) \in Seq(Calls) /\ DOMAIN RegistryPage(w, FALSE) = 1..Len(t)
    BY <1>10, <2>3
  <2>5. \A i \in 1..Len(t) : RegistryPage(w, FALSE)[i] = CallOf(t[i])
    BY <2>3
  <2>6. ASSUME NEW p \in Seq(Calls), DOMAIN p = 1..Len(t) PROVE Len(p) = Len(t)
    BY <1>5, <2>6
  <2>7. Len(RegistryPage(w, FALSE)) = Len(t)
    BY <2>4, <2>6
  <2> QED BY <2>5, <2>7
<1> QED BY <1>10, <1>11, <1>12 DEF t

-----------------------------------------------------------------------------
\* On a complete page the calls by the Subject itself mirror those of the chain.
LEMMA OwnCallsMirror ==
  ASSUME ChainInOrder(chain, now), Len(CallsNaming(Subject)) <= PageLimit, NEW dropped,
         \A i \in DOMAIN RegistryPage(Subject, FALSE) :
           RegistryPage(Subject, FALSE)[i] \in dropped <=> RegistryPage(Subject, FALSE)[i].sponsor # Subject
  PROVE  /\ Drop(RegistryPage(Subject, FALSE), dropped) \in Seq(Calls)
         /\ \E g : Mirrors(g, Drop(RegistryPage(Subject, FALSE), dropped))
<1> DEFINE page == RegistryPage(Subject, FALSE)
           own == Drop(page, dropped)
           t == CallsNaming(Subject)
           n == Len(t)
           m == Len(own)
<1>1. page \in Seq(Calls) /\ Len(page) = n /\ \A i \in 1..n : page[i] = CallOf(t[i])
  BY PageIs
<1>2. /\ t \in Seq(Entries)
      /\ \A i \in 1..n : t[i].kind # "pay" /\ Subject \in {t[i].from, t[i].to}
  BY CallsNamingAre
<1>3. PICK h : /\ h \in [1..n -> DOMAIN chain]
               /\ \A i, j \in 1..n : i < j => h[i] < h[j]
               /\ \A j \in 1..n : t[j] = chain[h[j]]
               /\ \A k \in DOMAIN chain : chain[k].kind # "pay" /\ Subject \in {chain[k].from, chain[k].to}
                    => \E j \in 1..n : h[j] = k
  BY CallsNamingAre
<1>4. \A i \in 1..n : page[i] \in dropped <=> page[i].sponsor # Subject
  <2>1. ASSUME NEW p \in Seq(Calls), Len(p) = n PROVE DOMAIN p = 1..n
    BY <2>1
  <2>2. DOMAIN page = 1..n
    BY <1>1, <2>1
  <2> QED BY <2>2
<1>5. own \in Seq(Calls) /\ Selected(own, page, Len(page), dropped)
  BY <1>1, DropSelects
<1>6. PICK f : Selects(f, own, page, n, dropped)
  BY <1>1, <1>5 DEF Selected
<1> HIDE DEF page, own, t
<1>7. /\ f \in [1..m -> 1..n]
      /\ \A i, j \in 1..m : i < j => f[i] < f[j]
      /\ \A j \in 1..m : own[j] = page[f[j]] /\ own[j] \notin dropped
      /\ \A i \in 1..n : page[i] \notin dropped => \E j \in 1..m : f[j] = i
  BY <1>6 DEF Selects
<1>8. \A i \in 1..n : /\ page[i].kind = t[i].kind /\ page[i].agent = t[i].to
                      /\ page[i].sponsor = t[i].from /\ page[i].amount = t[i].amount
  <2>1. \A e : /\ CallOf(e).kind = e.kind /\ CallOf(e).agent = e.to
               /\ CallOf(e).sponsor = e.from /\ CallOf(e).amount = e.amount
    BY DEF CallOf
  <2> QED BY <1>1, <2>1
<1> HIDE DEF n, m
<1> DEFINE g == [i \in 1..m |-> h[f[i]]]
<1>9. g \in [1..m -> DOMAIN chain] /\ \A i \in 1..m : g[i] = h[f[i]] /\ f[i] \in 1..n
  BY <1>3, <1>7
<1> HIDE DEF g
<1>10. \A i, j \in 1..m : i < j => g[i] < g[j]
  BY <1>3, <1>7, <1>9
<1>11. ASSUME NEW i \in 1..m
       PROVE  /\ IsCall(chain[g[i]], Subject) /\ own[i].kind = chain[g[i]].kind
              /\ own[i].agent = chain[g[i]].to /\ own[i].amount = chain[g[i]].amount
  <2>1. own[i] = page[f[i]] /\ page[f[i]].sponsor = Subject /\ t[f[i]] = chain[g[i]]
    BY <1>3, <1>4, <1>7, <1>9
  <2> QED BY <1>2, <1>8, <1>9, <2>1 DEF IsCall
<1>12. ASSUME NEW k \in DOMAIN chain, IsCall(chain[k], Subject)
       PROVE  \E i \in 1..m : g[i] = k
  <2>1. PICK j \in 1..n : h[j] = k
    BY <1>3, <1>12 DEF IsCall
  <2>2. page[j] \notin dropped
    BY <1>3, <1>4, <1>8, <1>12, <2>1 DEF IsCall
  <2>3. PICK i \in 1..m : f[i] = j
    BY <1>7, <2>2
  <2> QED BY <1>9, <2>1, <2>3
<1>13. Mirrors(g, own)
  BY <1>9, <1>10, <1>11, <1>12 DEF Mirrors, m
<1> QED BY <1>5, <1>13 DEF own, page

\* Replayed, they are the delegations the registry holds active.
LEMMA OwnCallsReplay ==
  ASSUME ChainInOrder(chain, now), Len(CallsNaming(Subject)) <= PageLimit, NEW dropped,
         \A i \in DOMAIN RegistryPage(Subject, FALSE) :
           RegistryPage(Subject, FALSE)[i] \in dropped <=> RegistryPage(Subject, FALSE)[i].sponsor # Subject
  PROVE  ToSet(FoldLeft(replayStep, <<>>, Drop(RegistryPage(Subject, FALSE), dropped))) = Active(Subject)
<1> DEFINE own == Drop(RegistryPage(Subject, FALSE), dropped)
           list == FoldLeft(replayStep, <<>>, own)
<1>1. own \in Seq(Calls)
  BY OwnCallsMirror
<1>2. PICK g : Mirrors(g, own)
  BY OwnCallsMirror
<1> HIDE DEF own
<1>3. \A d : d \in ToSet(list) <=> Left(own, Len(own), d)
  BY <1>1, ReplayLeaves
<1>4. \A d : Left(own, Len(own), d) <=> LeftOnChain(d)
  BY <1>1, <1>2, MirrorLeaves
<1>5. \A d : d \in Active(Subject) <=> LeftOnChain(d)
  BY ActiveIs
<1> HIDE DEF list
<1>6. ToSet(list) = Active(Subject)
  BY <1>3, <1>4, <1>5
<1> QED BY <1>6 DEF list, own

\* The lists behind the two answers, from a complete page.
LEMMA ListsAsRegistered ==
  ASSUME ChainInOrder(chain, now), NEW legacy, CallsNaming(Subject) # <<>>,
         Len(CallsNaming(Subject)) <= PageLimit
  PROVE  LET read == ReadOf(Subject, "ok", legacy, FALSE)
         IN  /\ ToSet(fetchDelegations(Subject, read)) = Active(Subject)
             /\ ToSet(fetchDelegationEdges(Subject, read)) = Active(Subject)
<1> DEFINE page == RegistryPage(Subject, FALSE)
           read == ReadOf(Subject, "ok", legacy, FALSE)
           a == {page[i] : i \in {j \in DOMAIN page : ~(page[j].kind # "pay" /\ page[j].sponsor \in {Subject, None})}}
           b == {page[i] : i \in {j \in DOMAIN page : ~(page[j].kind # "pay" /\ page[j].sponsor = Subject)}}
<1>1. page \in Seq(Calls) /\ Len(page) = Len(CallsNaming(Subject)) /\ CallsNaming(Subject) \in Seq(Entries)
  BY PageIs, CallsNamingAre
<1>2. \A i \in DOMAIN page : page[i].kind # "pay" /\ page[i].sponsor \in Wallets
  <2> HIDE DEF page
  <2>1. \A i \in DOMAIN page : page[i] \in Calls
    BY <1>1
  <2> QED BY <2>1 DEF Calls
<1>3. HasCalls(page)
  <2>1. Len(CallsNaming(Subject)) >= 1
    BY <1>1
  <2> HIDE DEF page
  <2>2. 1 \in DOMAIN page
    BY <1>1, <2>1
  <2> QED BY <1>2, <2>2 DEF HasCalls
<1>4. read.app = "ok" /\ read.page = page
  BY DEF ReadOf
<1>5. None \notin Wallets
  BY NoneIsNothing, Zenon
<1>6. callsOf(page, Subject) = Drop(page, a)
  BY DEF callsOf, Only
<1>7. fetchDelegations(Subject, read) = FoldLeft(replayStep, <<>>, Drop(page, a))
  <2> HIDE DEF read, page, a
  <2>1. "ok" # "threw"
    OBVIOUS
  <2> QED BY <1>3, <1>4, <1>6, <2>1, Zenon DEF fetchDelegations
<1>8. fetchDelegationEdges(Subject, read) = FoldLeft(replayStep, <<>>, Drop(page, b))
  <2>1. Only(page, LAMBDA tx : tx.kind # "pay" /\ tx.sponsor = Subject) = Drop(page, b)
    BY DEF Only
  <2> HIDE DEF read, page, b
  <2>2. "ok" # "threw"
    OBVIOUS
  <2> QED BY <1>3, <1>4, <2>1, <2>2, Zenon DEF fetchDelegationEdges
<1>9. \A i \in DOMAIN page : page[i] \in a <=> page[i].sponsor # Subject
  <2>1. \A i \in DOMAIN page : page[i].kind # "pay" /\ page[i].sponsor # None
    BY <1>2, <1>5
  <2> HIDE DEF page
  <2> QED BY <2>1
<1>10. \A i \in DOMAIN page : page[i] \in b <=> page[i].sponsor # Subject
  <2> HIDE DEF page
  <2> QED BY <1>2
<1> HIDE DEF a, b
<1>11. ToSet(FoldLeft(replayStep, <<>>, Drop(page, a))) = Active(Subject)
  BY <1>9, OwnCallsReplay
<1>12. ToSet(FoldLeft(replayStep, <<>>, Drop(page, b))) = Active(Subject)
  BY <1>10, OwnCallsReplay
<1> HIDE DEF page, read
<1> QED BY <1>7, <1>8, <1>11, <1>12 DEF read

\* Without a registry call the list is of payments to others.
LEMMA ListWithoutCalls ==
  ASSUME ChainInOrder(chain, now), NEW app, NEW legacy, NEW newestFirst, CallsNaming(Subject) = <<>>
  PROVE  LET read == ReadOf(Subject, app, legacy, newestFirst)
         IN  ToSet(fetchDelegations(Subject, read)) \subseteq {d \in ToSet(read.transfers) : d.to # Subject}
<1> DEFINE page == RegistryPage(Subject, newestFirst)
           read == ReadOf(Subject, app, legacy, newestFirst)
           sent == TransfersOf(Subject)
           dropped == {sent[i] : i \in {j \in DOMAIN sent : ~(sent[j].to # Subject)}}
<1>1. read.page = page /\ read.transfers = sent
  BY DEF ReadOf
<1>2. ~HasCalls(page)
  <2>1. page = <<>>
    BY PageIs
  <2>2. DOMAIN <<>> = {}
    OBVIOUS
  <2> QED BY <2>1, <2>2 DEF HasCalls
<1>3. SentElsewhere(sent, Subject) = Drop(sent, dropped)
  BY DEF SentElsewhere, Only
<1>4. fetchDelegations(Subject, read) \in {<<>>, Drop(sent, dropped)}
  <2> HIDE DEF page, read, sent, dropped
  <2> QED BY <1>1, <1>2, <1>3, Zenon DEF fetchDelegations
<1>5. sent \in Seq(Listed)
  <2> DEFINE t == Naming(Subject)
  <2>1. t \in Seq(Entries)
    BY NamingIs
  <2>2. sent = [i \in DOMAIN t |-> [to |-> t[i].to, amount |-> t[i].amount]]
    BY DEF TransfersOf
  <2> HIDE DEF t
  <2>3. \A i \in DOMAIN t : t[i] \in Entries
    BY <2>1
  <2>4. \A i \in DOMAIN t : [to |-> t[i].to, amount |-> t[i].amount] \in Listed
    BY <2>3 DEF Entries, Listed
  <2>5. DOMAIN t = 1..Len(t) /\ Len(t) \in Nat
    BY <2>1
  <2> HIDE DEF sent
  <2> QED BY <2>2, <2>4, <2>5
<1>6. ToSet(sent) \ dropped \subseteq {d \in ToSet(sent) : d.to # Subject}
  <2> HIDE DEF sent
  <2> QED BY DEF ToSet
<1> HIDE DEF dropped, sent
<1>7. ToSet(Drop(sent, dropped)) = ToSet(sent) \ dropped
  BY <1>5, DropKeeps
<1>8. ToSet(<<>>) = {}
  BY DEF ToSet
<1> HIDE DEF read
<1>9. ToSet(fetchDelegations(Subject, read)) \subseteq {d \in ToSet(read.transfers) : d.to # Subject}
  BY <1>1, <1>4, <1>6, <1>7, <1>8
<1> QED BY <1>9 DEF read

-----------------------------------------------------------------------------
\* What DelegationsAsRegistered says of an answer.
Registered(a, calls, active) ==
  /\ a.read.app = "ok" /\ ~a.newestFirst /\ Len(calls) <= PageLimit /\ calls # <<>> =>
       ToSet(a.list) = active /\ ToSet(a.edges) = active
  /\ calls = <<>> => ToSet(a.list) \subseteq {d \in ToSet(a.read.transfers) : d.to # Subject}
  /\ a.list = <<>> => a.result.trustScore = 350

\* The answer to a delegation request.
LEMMA RegisteredAnswered ==
  ASSUME AInv, NEW app, NEW legacy, NEW newestFirst \in BOOLEAN, AskDelegations(app, legacy, newestFirst)
  PROVE  Registered(answer', CallsNaming(Subject), Active(Subject)) /\ UNCHANGED chain
<1> DEFINE read == ReadOf(Subject, app, legacy, newestFirst)
           own == fetchDelegations(Subject, read)
           lists == [w \in Wallets |-> fetchDelegations(w, GoodRead(w))]
           scores == [w \in Wallets |-> TrustOf(w).trustScore]
           result == scoreDelegation(Subject, own, lists, scores)
           edges == fetchDelegationEdges(Subject, read)
           calls == CallsNaming(Subject)
           active == Active(Subject)
<1>1. /\ answer' = [ask |-> "delegation", read |-> read, newestFirst |-> newestFirst, list |-> own,
                    edges |-> edges, result |-> result]
      /\ UNCHANGED chain
  BY DEF AskDelegations, Ask
<1>2. ChainInOrder(chain, now)
  BY DEF AInv
<1>3. read.app = app
  BY DEF ReadOf
<1>4. ASSUME app = "ok", newestFirst = FALSE, calls # <<>>, Len(calls) <= PageLimit
      PROVE  ToSet(own) = active /\ ToSet(edges) = active
  BY <1>2, <1>4, ListsAsRegistered
<1>5. calls = <<>> => ToSet(own) \subseteq {d \in ToSet(read.transfers) : d.to # Subject}
  BY <1>2, ListWithoutCalls
<1>6. own = <<>> => result.trustScore = 350
  <2>1. scoreDelegation(Subject, <<>>, lists, scores).trustScore = 350
    BY NoDelegationScore
  <2> HIDE DEF lists, scores
  <2> QED BY <2>1
<1> HIDE DEF read, own, edges, result, calls, active
<1>7. /\ answer'.read = read /\ answer'.newestFirst = newestFirst /\ answer'.list = own
      /\ answer'.edges = edges /\ answer'.result = result
  BY <1>1
<1>8. Registered(answer', calls, active)
  BY <1>3, <1>4, <1>5, <1>6, <1>7 DEF Registered
<1> QED BY <1>1, <1>8 DEF calls, active

\* A request changes neither the calls nor what is active.
LEMMA CallsStay ==
  ASSUME UNCHANGED chain
  PROVE  CallsNaming(Subject)' = CallsNaming(Subject) /\ Active(Subject)' = Active(Subject)
<1>1. CallsNaming(Subject)' = CallsNaming(Subject)
  BY DEF CallsNaming, Only
<1>2. Active(Subject)' = Active(Subject)
  BY DEF Active, Only
<1> QED BY <1>1, <1>2

(***************************************************************************)
(* For any wallets, amounts, page sizes and chains, what                   *)
(* fetchDelegations of src/delegation.ts and its copy in src/trust-graph.ts*)
(* replay from a complete page, oldest first, is what the registry holds   *)
(* active; without registry calls it is payments to others; and an empty   *)
(* list scores 35 of 100.                                                  *)
(***************************************************************************)
THEOREM RegisteredAlways == Spec => []DelegationsAsRegistered
<1>1. Init => DelegationsAsRegistered
  BY Zenon, AskedAs DEF Init, DelegationsAsRegistered
<1>2. AInv /\ DelegationsAsRegistered /\ [Next]_vars => DelegationsAsRegistered'
  <2> SUFFICES ASSUME AInv, DelegationsAsRegistered, [Next]_vars PROVE DelegationsAsRegistered'
    OBVIOUS
  <2>1. DelegationsAsRegistered =>
          (answer.ask = "delegation" => Registered(answer, CallsNaming(Subject), Active(Subject)))
    BY DEF DelegationsAsRegistered, Registered, CallsNaming
  <2>2. (answer'.ask = "delegation" => Registered(answer', CallsNaming(Subject)', Active(Subject)'))
          => DelegationsAsRegistered'
    BY DEF DelegationsAsRegistered, Registered, CallsNaming
  <2>3. CASE UNCHANGED vars
    BY <2>1, <2>2, <2>3, CallsStay DEF vars
  <2>4. ASSUME NEW app, NEW legacy, NEW newestFirst \in BOOLEAN, AskDelegations(app, legacy, newestFirst)
        PROVE  DelegationsAsRegistered'
    BY <2>2, <2>4, RegisteredAnswered, CallsStay
  <2>5. CASE answer'.ask # "delegation"
    BY <2>2, <2>5
  <2>6. answer' = NoAnswer => answer'.ask = "nothing"
    BY AskedAs
  <2> QED BY <2>3, <2>4, <2>5, <2>6, StepsAnswer, AskedAs, Zenon
<1> QED BY <1>1, <1>2, InOrderAlways, PTL DEF Spec

-----------------------------------------------------------------------------
(***************************************************************************)
(* The lists of delegations and the walk over them have their types.       *)
(***************************************************************************)
\* What a wallet paid, read as delegations.
LEMMA TransfersTyped ==
  ASSUME ChainInOrder(chain, now), NEW w
  PROVE  TransfersOf(w) \in Seq(Listed)
<1> DEFINE t == Naming(w)
           sent == TransfersOf(w)
<1>1. t \in Seq(Entries)
  BY NamingIs
<1>2. sent = [i \in DOMAIN t |-> [to |-> t[i].to, amount |-> t[i].amount]]
  BY DEF TransfersOf
<1> HIDE DEF t
<1>3. \A i \in DOMAIN t : t[i] \in Entries
  BY <1>1
<1>4. \A i \in DOMAIN t : [to |-> t[i].to, amount |-> t[i].amount] \in Listed
  BY <1>3 DEF Entries, Listed
<1>5. DOMAIN t = 1..Len(t) /\ Len(t) \in Nat
  BY <1>1
<1> HIDE DEF sent
<1>6. sent \in Seq(Listed)
  BY <1>2, <1>4, <1>5
<1> QED BY <1>6 DEF sent

\* Whatever was read, a list of delegations is typed.
LEMMA ListTyped ==
  ASSUME ChainInOrder(chain, now), NEW w, NEW app, NEW legacy, NEW newestFirst
  PROVE  fetchDelegations(w, ReadOf(w, app, legacy, newestFirst)) \in Seq(Listed)
<1> DEFINE page == RegistryPage(w, newestFirst)
           read == ReadOf(w, app, legacy, newestFirst)
           sent == TransfersOf(w)
           a == {page[i] : i \in {j \in DOMAIN page : ~(page[j].kind # "pay" /\ page[j].sponsor \in {w, None})}}
           b == {sent[i] : i \in {j \in DOMAIN sent : ~(sent[j].to # w)}}
           list == FoldLeft(replayStep, <<>>, Drop(page, a))
<1>1. read.page = page /\ read.transfers = sent
  BY DEF ReadOf
<1>2. callsOf(page, w) = Drop(page, a) /\ SentElsewhere(sent, w) = Drop(sent, b)
  BY DEF callsOf, SentElsewhere, Only
<1>3. page \in Seq(Calls) /\ sent \in Seq(Listed)
  BY PageIs, TransfersTyped
<1> HIDE DEF page, sent, read, a, b
<1>4. Drop(page, a) \in Seq(Calls) /\ Drop(sent, b) \in Seq(Listed)
  BY <1>3, DropKeeps
<1>5. list \in Seq(Listed)
  BY <1>4, ReplayLeaves
<1>6. <<>> \in Seq(Listed)
  OBVIOUS
<1>7. fetchDelegations(w, read) \in {<<>>, list, Drop(sent, b)}
  BY <1>1, <1>2, Zenon DEF fetchDelegations
<1> HIDE DEF list
<1> QED BY <1>4, <1>5, <1>6, <1>7 DEF read

\* One delegation more, for the targets not seen before.
AlsoFresh(acc, d, seen) == IF d.to \in seen \cup ToSet(acc) THEN acc ELSE Append(acc, d.to)

FreshOver(T, s, seen) ==
  T = [d \in SUBSET DOMAIN s |-> IF d = {} THEN <<>> ELSE AlsoFresh(T[d \ {Max(d)}], s[Max(d)], seen)]

Fresh(s, seen) ==
  FoldLeft(LAMBDA acc, d : IF d.to \in seen \cup ToSet(acc) THEN acc ELSE Append(acc, d.to), <<>>, s)

\* f takes one target after the other.
FreshBy(f, s, seen, r) ==
  /\ f \in [0..Len(s) -> Seq(Wallets)] /\ f[0] = <<>> /\ f[Len(s)] = r
  /\ \A i \in 1..Len(s) : f[i] = AlsoFresh(f[i - 1], s[i], seen)

\* FoldLeft takes one target after the other.
LEMMA FreshFolds ==
  ASSUME NEW s \in Seq(Listed), NEW seen
  PROVE  \E f : FreshBy(f, s, seen, Fresh(s, seen))
<1> DEFINE n == Len(s)
           S == 1..n
           V == Seq(Wallets)
           pick == [d \in SUBSET S |-> Max(d)]
           step == [i \in S |-> [v \in V |-> AlsoFresh(v, s[i], seen)]]
           T == CHOOSE F : FreshOver(F, s, seen)
<1>1. n \in Nat /\ DOMAIN s = S /\ IsFiniteSet(S) /\ \A i \in S : s[i] \in Listed
  BY FS_Interval
<1>2. \A d \in SUBSET S : d # {} => pick[d] = Max(d) /\ pick[d] \in d
  BY <1>1, MaxIsIn
<1>3. \A v \in V, c \in Listed : AlsoFresh(v, c, seen) \in V
  BY DEF AlsoFresh, Listed
<1>4. step \in [S -> [V -> V]] /\ \A i \in S, v \in V : step[i][v] = AlsoFresh(v, s[i], seen)
  BY <1>1, <1>3
<1>0. <<>> \in V
  OBVIOUS
<1> HIDE DEF pick, step, V
<1>5. PICK F \in [SUBSET S -> V] : FoldsBy(F, pick, <<>>, step, SUBSET S)
  <2>1. \A d \in SUBSET S : d # {} => pick[d] \in d
    BY <1>2
  <2>2. Foldable(S, pick, V, <<>>, step)
    BY <1>0, <1>1, <1>4, <2>1, FoldExists
  <2> QED BY <2>2 DEF Foldable
<1>6. \A d \in SUBSET S : F[d] = IF d = {} THEN <<>> ELSE AlsoFresh(F[d \ {Max(d)}], s[Max(d)], seen)
  <2> SUFFICES ASSUME NEW d \in SUBSET S
               PROVE  F[d] = IF d = {} THEN <<>> ELSE AlsoFresh(F[d \ {Max(d)}], s[Max(d)], seen)
    OBVIOUS
  <2>1. F[d] = IF d = {} THEN <<>> ELSE step[pick[d]][F[d \ {pick[d]}]]
    BY <1>5 DEF FoldsBy
  <2>2. ASSUME d # {} PROVE step[pick[d]][F[d \ {pick[d]}]] = AlsoFresh(F[d \ {Max(d)}], s[Max(d)], seen)
    <3>1. Max(d) = pick[d] /\ pick[d] \in S /\ d \ {pick[d]} \in SUBSET S
      BY <1>2, <2>2
    <3>2. F[d \ {pick[d]}] \in V
      BY <1>5, <3>1
    <3> QED BY <1>4, <3>1, <3>2
  <2> QED BY <2>1, <2>2
<1>7. F = [d \in SUBSET S |-> F[d]]
  BY <1>5
<1>8. FreshOver(F, s, seen)
  BY <1>1, <1>6, <1>7, Zenon DEF FreshOver
<1>9. FreshOver(T, s, seen)
  BY <1>8, Zenon
<1>10. Fresh(s, seen) = T[S]
  BY <1>1 DEF Fresh, FoldLeft, MapThenFoldSet, FreshOver, AlsoFresh
<1> HIDE DEF T
<1>11. \A d \in SUBSET S : T[d] = IF d = {} THEN <<>> ELSE AlsoFresh(T[d \ {Max(d)}], s[Max(d)], seen)
  <2> DEFINE body(d) == IF d = {} THEN <<>> ELSE AlsoFresh(T[d \ {Max(d)}], s[Max(d)], seen)
  <2>1. T = [d \in SUBSET S |-> body(d)]
    BY <1>1, <1>9 DEF FreshOver
  <2> HIDE DEF body
  <2>2. \A d \in SUBSET S : T[d] = body(d)
    BY <2>1, Zenon
  <2> QED BY <2>2 DEF body
<1> DEFINE f == [i \in 0..n |-> T[1..i]]
<1>12. f[0] = <<>> /\ f[n] = T[S]
  <2>1. 1..0 = {} /\ 0 \in 0..n /\ n \in 0..n
    BY <1>1
  <2>2. T[{}] = <<>>
    BY <1>11
  <2> QED BY <2>1, <2>2
<1>13. \A i \in 1..n : f[i] = AlsoFresh(f[i - 1], s[i], seen)
  <2> SUFFICES ASSUME NEW i \in 1..n PROVE f[i] = AlsoFresh(f[i - 1], s[i], seen)
    OBVIOUS
  <2>1. i \in Nat /\ i > 0 /\ i \in 0..n /\ i - 1 \in 0..n /\ 1..i \in SUBSET S /\ 1..i # {}
    <3>1. n \in Nat /\ i \in 1..n
      BY <1>1
    <3> HIDE DEF n
    <3>2. i \in Nat /\ i > 0 /\ i \in 0..n /\ i - 1 \in 0..n
      BY <3>1
    <3>3. 1..i \subseteq 1..n /\ i \in 1..i
      BY <3>1
    <3> QED BY <3>2, <3>3
  <2>2. T[1..i] = AlsoFresh(T[1..(i - 1)], s[i], seen)
    BY <1>11, <2>1, MaxOfPrefix
  <2> QED BY <2>1, <2>2
<1> HIDE DEF f
<1>14. \A i \in 0..n : f[i] \in V
  <2> DEFINE Bad == {i \in 0..n : f[i] \notin V}
  <2>1. SUFFICES ASSUME Bad # {} PROVE FALSE
    OBVIOUS
  <2>2. 0 \notin Bad /\ Bad \in SUBSET (0..n)
    BY <1>0, <1>12
  <2>3. PICK m \in 1..n : m \in Bad /\ m - 1 \in 0..n /\ m - 1 \notin Bad
    <3> HIDE DEF Bad
    <3> QED BY <1>1, <2>1, <2>2, FirstFailure
  <2>4. f[m - 1] \in V /\ s[m] \in Listed /\ f[m] = AlsoFresh(f[m - 1], s[m], seen)
    BY <1>1, <1>13, <2>3
  <2> QED BY <1>3, <2>3, <2>4
<1>15. f \in [0..n -> V]
  BY <1>14 DEF f
<1>16. FreshBy(f, s, seen, Fresh(s, seen))
  BY <1>10, <1>12, <1>13, <1>15 DEF FreshBy, V
<1> QED BY <1>16

\* The targets not seen before are wallets.
LEMMA FreshTyped ==
  ASSUME NEW s \in Seq(Listed), NEW seen
  PROVE  Fresh(s, seen) \in Seq(Wallets)
<1>1. PICK f : FreshBy(f, s, seen, Fresh(s, seen))
  BY FreshFolds
<1>2. Len(s) \in Nat
  OBVIOUS
<1>3. Len(s) \in 0..Len(s)
  BY <1>2
<1> QED BY <1>1, <1>3 DEF FreshBy

\* And so are the targets a walk takes.
LEMMA TargetsTyped ==
  ASSUME NEW list \in Seq(Listed), NEW seen
  PROVE  newTargets(list, seen) \in Seq(Wallets)
<1> DEFINE fresh == Fresh(list, seen)
           m == Least(Branching, Len(fresh))
<1>1. newTargets(list, seen) = SubSeq(fresh, 1, m)
  BY DEF newTargets, Fresh
<1>2. fresh \in Seq(Wallets)
  BY FreshTyped
<1> HIDE DEF fresh
<1>3. m \in Nat /\ m <= Len(fresh)
  BY <1>2, BranchingPositive DEF Least
<1> HIDE DEF m
<1>4. SubSeq(fresh, 1, m) \in Seq(Wallets)
  BY <1>2, <1>3
<1> QED BY <1>1, <1>4

-----------------------------------------------------------------------------
\* A place in the queue, and what a walk is after some turns.
Places == [at : Wallets, depth : Nat]
Depths == UNION {[D -> Nat] : D \in (SUBSET Wallets) \ {{}}}
Walks == [queue : Seq(Places), depth : Depths, expanded : Seq(Places)]

\* The lists of all wallets.
AllLists(lists) == lists \in [Wallets -> Seq(Listed)]

WalkStart(wallet) == [queue |-> <<[at |-> wallet, depth |-> 0]>>, depth |-> [w \in {wallet} |-> 0], expanded |-> <<>>]

WalkTurn(walk, lists, maxDepth) == IF walk.queue = <<>> THEN walk ELSE WalkStep(walk, lists, maxDepth)

\* A turn of the walk keeps its types.
LEMMA TurnTyped ==
  ASSUME NEW walk \in Walks, NEW lists, AllLists(lists), NEW maxDepth
  PROVE  WalkTurn(walk, lists, maxDepth) \in Walks
<1> DEFINE here == Head(walk.queue)
           next == IF here.depth >= maxDepth THEN <<>> ELSE newTargets(lists[here.at], DOMAIN walk.depth)
           q == [i \in DOMAIN next |-> [at |-> next[i], depth |-> here.depth + 1]]
           d == [w \in DOMAIN walk.depth \cup ToSet(next) |->
                    IF w \in DOMAIN walk.depth THEN walk.depth[w] ELSE here.depth + 1]
           e == IF here.depth >= maxDepth THEN walk.expanded ELSE Append(walk.expanded, here)
<1>1. SUFFICES ASSUME walk.queue # <<>> PROVE WalkStep(walk, lists, maxDepth) \in Walks
  BY DEF WalkTurn
<1>2. /\ walk.queue \in Seq(Places) /\ walk.depth \in Depths /\ walk.expanded \in Seq(Places)
  BY DEF Walks
<1>3. here \in Places /\ Tail(walk.queue) \in Seq(Places)
  BY <1>1, <1>2
<1>4. here.at \in Wallets /\ here.depth \in Nat /\ here.depth + 1 \in Nat
  BY <1>3 DEF Places
<1>5. WalkStep(walk, lists, maxDepth) = [queue |-> Tail(walk.queue) \o q, depth |-> d, expanded |-> e]
  BY DEF WalkStep
<1> HIDE DEF here
<1>6. next \in Seq(Wallets)
  <2>1. lists[here.at] \in Seq(Listed)
    BY <1>4 DEF AllLists
  <2>2. newTargets(lists[here.at], DOMAIN walk.depth) \in Seq(Wallets)
    BY <2>1, TargetsTyped
  <2> QED BY <2>2
<1> HIDE DEF next
<1>7. q \in Seq(Places)
  <2>1. DOMAIN next = 1..Len(next) /\ Len(next) \in Nat /\ \A i \in DOMAIN next : next[i] \in Wallets
    BY <1>6
  <2>2. \A i \in DOMAIN next : [at |-> next[i], depth |-> here.depth + 1] \in Places
    BY <1>4, <2>1 DEF Places
  <2> QED BY <2>1, <2>2
<1>8. ToSet(next) \subseteq Wallets
  BY <1>6 DEF ToSet
<1>9. d \in Depths
  <2>1. PICK D \in (SUBSET Wallets) \ {{}} : walk.depth \in [D -> Nat]
    BY <1>2 DEF Depths
  <2>2. d \in [D \cup ToSet(next) -> Nat]
    BY <1>4, <2>1
  <2>3. D \cup ToSet(next) \in (SUBSET Wallets) \ {{}}
    BY <1>8, <2>1
  <2> HIDE DEF d
  <2> QED BY <2>2, <2>3 DEF Depths
<1>10. e \in Seq(Places)
  BY <1>2, <1>3
<1> HIDE DEF q, d, e
<1>11. Tail(walk.queue) \o q \in Seq(Places)
  BY <1>3, <1>7
<1> QED BY <1>5, <1>9, <1>10, <1>11 DEF Walks

\* The walk as a function of its turns.
WalkOf(wallet, lists, maxDepth) ==
  CHOOSE f : f = [n \in Nat |-> IF n = 0 THEN WalkStart(wallet) ELSE WalkTurn(f[n - 1], lists, maxDepth)]

\* It starts at the wallet and goes on turn by turn.
LEMMA WalkGoes ==
  ASSUME NEW wallet \in Wallets, NEW lists, AllLists(lists), NEW maxDepth
  PROVE  LET f == WalkOf(wallet, lists, maxDepth)
         IN  /\ f \in [Nat -> Walks]
             /\ f[0] = WalkStart(wallet)
             /\ \A n \in Nat : f[n + 1] = WalkTurn(f[n], lists, maxDepth)
             /\ Walk(wallet, lists, maxDepth) = f[Cardinality(Wallets)]
<1> DEFINE step == [w \in Walks |-> WalkTurn(w, lists, maxDepth)]
           start == WalkStart(wallet)
           Is(f) == f = [n \in Nat |-> IF n = 0 THEN start ELSE WalkTurn(f[n - 1], lists, maxDepth)]
           f == CHOOSE g : Is(g)
<1>1. start \in Walks
  <2>1. [w \in {wallet} |-> 0] \in [{wallet} -> Nat]
    OBVIOUS
  <2>2. [w \in {wallet} |-> 0] \in Depths
    <3> DEFINE one == [w \in {wallet} |-> 0]
    <3>1. {wallet} \in (SUBSET Wallets) \ {{}}
      OBVIOUS
    <3>2. one \in [{wallet} -> Nat]
      BY <2>1
    <3> HIDE DEF one
    <3>3. one \in Depths
      BY <3>1, <3>2 DEF Depths
    <3> QED BY <3>3 DEF one
  <2>3. <<[at |-> wallet, depth |-> 0]>> \in Seq(Places) /\ <<>> \in Seq(Places)
    BY DEF Places
  <2> QED BY <2>2, <2>3 DEF WalkStart, Walks
<1>2. step \in [Walks -> Walks] /\ \A w \in Walks : step[w] = WalkTurn(w, lists, maxDepth)
  BY TurnTyped
<1> HIDE DEF start, step
<1>3. Iterable(Walks, start, step)
  BY <1>1, <1>2, IterationExists
<1>4. PICK g \in [Nat -> Walks] : g[0] = start /\ \A n \in Nat : g[n + 1] = step[g[n]]
  BY <1>3 DEF Iterable, Iterates
<1>5. Is(g)
  <2>1. ASSUME NEW n \in Nat PROVE g[n] = IF n = 0 THEN start ELSE WalkTurn(g[n - 1], lists, maxDepth)
    <3>1. CASE n = 0
      BY <1>4, <3>1
    <3>2. CASE n # 0
      <4>1. n - 1 \in Nat /\ (n - 1) + 1 = n
        BY <3>2
      <4>2. g[n] = step[g[n - 1]] /\ g[n - 1] \in Walks
        BY <1>4, <4>1
      <4> QED BY <1>2, <3>2, <4>2
    <3> QED BY <3>1, <3>2
  <2>2. g = [n \in Nat |-> g[n]]
    BY <1>4
  <2> QED BY <2>1, <2>2, Zenon
<1>6. Is(f)
  BY <1>5, Zenon
<1> HIDE DEF f
<1>7. \A n \in Nat : f[n] = IF n = 0 THEN start ELSE WalkTurn(f[n - 1], lists, maxDepth)
  BY <1>6, Zenon
<1>8. \A n \in Nat : f[n + 1] = WalkTurn(f[n], lists, maxDepth)
  <2> SUFFICES ASSUME NEW n \in Nat PROVE f[n + 1] = WalkTurn(f[n], lists, maxDepth)
    OBVIOUS
  <2>1. n + 1 \in Nat /\ n + 1 # 0 /\ (n + 1) - 1 = n
    OBVIOUS
  <2> QED BY <1>7, <2>1
<1>9. \A n \in Nat : f[n] = g[n]
  <2> DEFINE Differs == {n \in Nat : f[n] # g[n]}
  <2>1. SUFFICES ASSUME Differs # {} PROVE FALSE
    OBVIOUS
  <2>2. PICK m \in Differs : \A n \in Differs : m <= n
    <3>1. Differs \in SUBSET Nat
      OBVIOUS
    <3> HIDE DEF Differs
    <3> QED BY <2>1, <3>1, LeastNumber
  <2>3. m # 0
    BY <1>4, <1>7, <2>2
  <2>4. m - 1 \in Nat /\ m - 1 \notin Differs /\ (m - 1) + 1 = m
    BY <2>2, <2>3
  <2>5. f[m - 1] = g[m - 1] /\ g[m - 1] \in Walks
    BY <1>4, <2>4
  <2>6. f[m] = WalkTurn(f[m - 1], lists, maxDepth) /\ g[m] = step[g[m - 1]]
    BY <1>4, <1>8, <2>4
  <2> QED BY <1>2, <2>2, <2>5, <2>6
<1>10. f = [n \in Nat |-> f[n]]
  <2>1. DOMAIN f = Nat /\ f = [n \in DOMAIN f |-> f[n]]
    BY <1>6, Zenon
  <2> QED BY <2>1, Zenon
<1>11. f \in [Nat -> Walks]
  BY <1>4, <1>9, <1>10
<1>12. f = WalkOf(wallet, lists, maxDepth)
  BY DEF f, start, WalkOf
<1>13. Walk(wallet, lists, maxDepth) = f[Cardinality(Wallets)]
  <2>1. DOMAIN lists = Wallets
    BY DEF AllLists
  <2> QED BY <2>1 DEF Walk, f, start, WalkStart, WalkTurn
<1>14. f[0] = WalkStart(wallet)
  BY <1>7 DEF start
<1> HIDE DEF Is
<1> QED BY <1>8, <1>11, <1>12, <1>13, <1>14

-----------------------------------------------------------------------------
\* The deepest wallet of a walk has a depth.
LEMMA DeepestIs ==
  ASSUME NEW wallet \in Wallets, NEW lists, AllLists(lists)
  PROVE  DeepestDepth(wallet, lists) \in Nat
<1> DEFINE n == Cardinality(Wallets)
           d == Walk(wallet, lists, n).depth
           S == {d[w] : w \in DOMAIN d}
<1>1. IsFiniteSet(Wallets) /\ n \in Nat /\ DOMAIN lists = Wallets
  BY AnalysesConstants, FS_CardinalityType DEF AllLists
<1>2. Walk(wallet, lists, n) \in Walks
  <2> DEFINE f == WalkOf(wallet, lists, n)
  <2>1. f \in [Nat -> Walks] /\ Walk(wallet, lists, n) = f[n]
    BY WalkGoes
  <2> HIDE DEF f, n
  <2> QED BY <1>1, <2>1
<1>3. d \in Depths
  <2> DEFINE walk == Walk(wallet, lists, n)
  <2>1. walk \in Walks
    BY <1>2
  <2> HIDE DEF walk
  <2>2. walk.depth \in Depths
    BY <2>1 DEF Walks
  <2> QED BY <2>2 DEF walk
<1>4. DeepestDepth(wallet, lists) = MaxOf(S)
  BY <1>1 DEF DeepestDepth
<1> HIDE DEF d, n
<1>5. PICK D \in (SUBSET Wallets) \ {{}} : d \in [D -> Nat]
  BY <1>3 DEF Depths
<1>6. IsFiniteSet(D) /\ DOMAIN d = D /\ D # {}
  BY <1>1, <1>5, FS_Subset
<1>7. S \subseteq Nat /\ S # {}
  BY <1>5, <1>6
<1>8. IsFiniteSet(S)
  BY <1>6, ImageFinite
<1> HIDE DEF S
<1>9. PICK x \in S : \A y \in S : y <= x
  BY <1>7, <1>8, GreatestNumber
<1>10. MaxOf(S) \in S
  BY <1>9, Zenon DEF MaxOf
<1> QED BY <1>4, <1>7, <1>10

\* The amounts of a list add up to an amount.
LEMMA SumOfTyped ==
  ASSUME NEW list \in Seq(Listed)
  PROVE  SumOf(list) \in Nat
<1> DEFINE f == [i \in DOMAIN list |-> list[i].amount]
           S == DOMAIN list
<1>1. IsFiniteSet(S)
  <2>1. S = 1..Len(list) /\ Len(list) \in Nat
    OBVIOUS
  <2>2. \A k \in Nat : IsFiniteSet(1..k)
    BY FS_Interval
  <2> QED BY <2>1, <2>2
<1>2. \A i \in S : f[i] \in Nat
  <2>1. \A i \in DOMAIN list : list[i] \in Listed
    OBVIOUS
  <2> QED BY <2>1 DEF Listed
<1>3. DOMAIN f = S
  OBVIOUS
<1>4. SumOf(list) = SumFunction(f)
  BY DEF SumOf
<1> HIDE DEF f, S
<1>5. SumFunction(f) = SumOver(f, S)
  BY <1>3, Zenon DEF SumFunction, SumOver
<1>6. SumOver(f, S) \in Nat
  BY <1>1, <1>2, SumNat
<1> QED BY <1>4, <1>5, <1>6

-----------------------------------------------------------------------------
\* The parts of the score of a list are numbers.
LEMMA DelegationParts ==
  ASSUME NEW quality \in Nat, NEW count \in Nat, NEW amount \in Nat, NEW depth \in Nat
  PROVE  computeDelegationTrustScore(
           [depth |-> computeDepthScore(depth), quality |-> computeSponsorQualityScore(quality),
            count |-> computeSponsorCountScore(count, quality),
            amount |-> computeAmountScore(amount)]) \in Int
<1> DEFINE d == computeDepthScore(depth)
           q == computeSponsorQualityScore(quality)
           c == computeSponsorCountScore(count, quality)
           a == computeAmountScore(amount)
           b == [depth |-> d, quality |-> q, count |-> c, amount |-> a]
<1>0. \A x \in Int, m \in Nat \ {0} : Rounded(x, m) \in Int
  BY RoundedGrows
<1>1. d \in Int
  BY SMT DEF computeDepthScore, Most
<1>2. q \in Int
  <2>1. Least(1000, quality) \in Int /\ 10 \in Nat \ {0}
    BY SMT DEF Least
  <2>2. Rounded(Least(1000, quality), 10) \in Int
    BY <1>0, <2>1
  <2> QED BY <2>2, SMT DEF computeSponsorQualityScore
<1>3. c \in Int
  <2>1. Most(100, quality) \in Int
    BY SMT DEF Most
  <2>2. count * 200 \in Int
    BY SMT
  <2> DEFINE x == count * 200
             y == Most(100, quality)
             n == Rounded(x * y, 1000)
  <2>3. x * y \in Int
    <3> HIDE DEF x, y
    <3>1. x \in Int /\ y \in Int
      BY <2>1, <2>2 DEF x, y
    <3> QED BY <3>1, SMT
  <2>4. 1000 \in Nat \ {0}
    BY SMT
  <2>5. n \in Int
    <3> HIDE DEF x, y
    <3> QED BY <1>0, <2>3, <2>4
  <2>6. c = Least(1000, n)
    BY DEF computeSponsorCountScore
  <2> HIDE DEF n
  <2> QED BY <2>5, <2>6, SMT DEF Least
<1>4. a \in Int
  <2> DEFINE n == Log10(amount + 1)
             m == Rounded(n * 25, 1000)
  <2>1. n \in Nat
    <3>1. amount + 1 \in Nat /\ amount + 1 >= 1
      OBVIOUS
    <3> QED BY <3>1, LogBounds DEF Bounded
  <2>2. n * 25 \in Int /\ 1000 \in Nat \ {0}
    <3> HIDE DEF n
    <3> QED BY <2>1, SMT
  <2>3. m \in Int
    <3> HIDE DEF n
    <3> QED BY <1>0, <2>2
  <2>4. a = IF amount >= 10000 THEN 1000 ELSE 10 * m
    BY DEF computeAmountScore
  <2> HIDE DEF m
  <2> QED BY <2>3, <2>4, SMT
<1>5. b.depth = d /\ b.quality = q /\ b.count = c /\ b.amount = a
  OBVIOUS
<1> HIDE DEF d, q, c, a, b
<1>6. 35 * b.depth + 30 * b.quality + 15 * b.count + 20 * b.amount \in Int /\ 100 \in Nat \ {0}
  BY <1>1, <1>2, <1>3, <1>4, <1>5, SMT
<1>7. computeDelegationTrustScore(b) \in Int
  BY <1>0, <1>6 DEF computeDelegationTrustScore
<1> QED BY <1>7 DEF b, d, q, c, a

\* The best of some scores caps a score to a number.
LEMMA CapTyped ==
  ASSUME NEW score \in Int, NEW known \in SUBSET Nat, IsFiniteSet(known), NEW depth \in Nat
  PROVE  sponsorCap(score, known, depth) \in Int
<1>1. ASSUME known # {} PROVE MaxOf(known) \in Int
  <2>0. known \in SUBSET Int
    OBVIOUS
  <2>1. \E x \in known : \A y \in known : y <= x
    BY <1>1, <2>0, GreatestNumber
  <2>2. MaxOf(known) \in known
    BY <2>1, Zenon DEF MaxOf
  <2>3. \A x \in known : x \in Int
    OBVIOUS
  <2> QED BY <2>2, <2>3, Zenon
<1> DEFINE m == MaxOf(known)
<1>2. known # {} => m \in Int
  BY <1>1
<1>3. sponsorCap(score, known, depth) = IF known = {} THEN score ELSE Least(score, Most(0, m - 200 * depth))
  BY DEF sponsorCap
<1> HIDE DEF m
<1> QED BY <1>2, <1>3, SMT DEF Least, Most

\* Weak delegation is delegation refused, strong delegation is of low risk.
LEMMA DelegationWords ==
  ASSUME NEW own, NEW depth, NEW quality, NEW unknown, NEW score \in Int
  PROVE  LET words == DelegationExplanation(own, depth, quality, unknown, score)
         IN  /\ "weak" \in words <=> ~(score >= 400)
             /\ "strong" \in words <=> classifyRisk(score) = "low"
<1> DEFINE words == DelegationExplanation(own, depth, quality, unknown, score)
           other == {"no chain", "chain", "delegations", "good sponsors", "fair sponsors",
                     "poor sponsors", "sponsors not read"}
           a == IF depth = 0 THEN "no chain" ELSE "chain"
           b == Graded(quality, 701, 401, <<"good sponsors", "fair sponsors", "poor sponsors">>)
           lines == {<<"delegations", own # <<>> >>, <<b, quality > 400 \/ own # <<>> >>,
                     <<"sponsors not read", unknown > 0>>}
           grade == Graded(score, 700, 400, <<"strong", "moderate", "weak">>)
<1>1. words = {a, grade} \cup Said(lines)
  BY Zenon DEF DelegationExplanation
<1>2. a \in other
  OBVIOUS
<1>3. b \in other
  BY SMT DEF Graded
<1>4. Said(lines) \subseteq other
  <2>1. \A x, y : <<x, y>>[1] = x
    OBVIOUS
  <2>2. "delegations" \in other /\ "sponsors not read" \in other
    OBVIOUS
  <2> HIDE DEF b, other
  <2>3. \A l \in lines : l[1] \in other
    BY <1>3, <2>1, <2>2
  <2> HIDE DEF lines
  <2> QED BY <2>3, Zenon DEF Said
<1>5. /\ grade = "weak" <=> ~(score >= 400)
      /\ grade = "strong" <=> score >= 700
  BY SMT DEF Graded
<1>6. "weak" \notin other /\ "strong" \notin other
  BY SMT
<1>7. score >= 700 <=> classifyRisk(score) = "low"
  BY SMT DEF classifyRisk
<1> HIDE DEF words, other, a, b, lines, grade
<1>8. "weak" \in words <=> grade = "weak"
  BY <1>1, <1>2, <1>4, <1>6, Zenon
<1>9. "strong" \in words <=> grade = "strong"
  BY <1>1, <1>2, <1>4, <1>6, Zenon
<1> QED BY <1>5, <1>7, <1>8, <1>9, Zenon DEF words

\* The words of a score of delegations agree with the score.
WordsOf(r) ==
  /\ "weak" \in r.explanation <=> ~r.approved
  /\ "strong" \in r.explanation <=> r.riskLevel = "low"

\* The words of a delegation score agree with its numbers.
LEMMA DelegationScored ==
  ASSUME NEW own \in Seq(Listed), NEW scores, \A w \in Wallets : scores[w] \in Nat, NEW depth \in Nat
  PROVE  WordsOf(DelegationResult(own, scores, depth))
<1> DEFINE m == Least(5, Len(own))
           first == {own[i].to : i \in 1 .. m}
           known == {scores[w] : w \in first} \ {None}
           answered == {i \in 1 .. m : scores[own[i].to] # None}
           f == [i \in answered |-> scores[own[i].to]]
           total == SumFunction(f)
           quality == IF answered = {} THEN 0 ELSE total \div Cardinality(answered)
           amount == SumOf(own)
           raw == computeDelegationTrustScore(
               [depth |-> computeDepthScore(depth), quality |-> computeSponsorQualityScore(quality),
                count |-> computeSponsorCountScore(Len(own), quality),
                amount |-> computeAmountScore(amount)])
           score == sponsorCap(raw, known, depth)
           words == DelegationExplanation(own, depth, quality, m - Cardinality(answered), score)
           r == DelegationResult(own, scores, depth)
<1>1. r.approved = (score >= 400) /\ r.riskLevel = classifyRisk(score) /\ r.explanation = words
  BY Zenon DEF DelegationResult
<1>2. Len(own) \in Nat /\ DOMAIN own = 1..Len(own) /\ \A i \in 1..Len(own) : own[i].to \in Wallets
  <2>1. \A i \in 1..Len(own) : own[i] \in Listed
    OBVIOUS
  <2> QED BY <2>1 DEF Listed
<1>3. m \in Nat /\ m <= Len(own)
  BY <1>2, SMT DEF Least
<1>4. amount \in Nat
  BY SumOfTyped
<1> HIDE DEF m, amount, r
<1>5. IsFiniteSet(1..m) /\ 1..m \subseteq 1..Len(own)
  BY <1>2, <1>3, FS_Interval
<1>6. IsFiniteSet(answered) /\ \A i \in answered : f[i] \in Nat
  <2>1. answered \in SUBSET (1..m)
    OBVIOUS
  <2>2. IsFiniteSet(answered)
    BY <1>5, <2>1, FS_Subset
  <2>3. \A i \in answered : scores[own[i].to] \in Nat
    BY <1>2, <1>5
  <2> QED BY <2>2, <2>3
<1>7. total \in Nat
  <2>1. DOMAIN f = answered
    OBVIOUS
  <2> HIDE DEF f
  <2>2. total = SumOver(f, answered)
    BY <2>1, Zenon DEF SumFunction, SumOver
  <2> QED BY <1>6, <2>2, SumNat
<1> HIDE DEF total
<1>8. quality \in Nat
  <2>1. CASE answered = {}
    BY <2>1
  <2>2. CASE answered # {}
    <3>1. Cardinality(answered) \in Nat \ {0}
      BY <1>6, <2>2, FS_CardinalityType, FS_EmptySet
    <3> HIDE DEF answered
    <3> QED BY <1>7, <2>2, <3>1, QuotientNat
  <2> QED BY <2>1, <2>2
<1>9. known \in SUBSET Nat /\ IsFiniteSet(known)
  <2>1. first \in SUBSET Wallets
    BY <1>2, <1>5
  <2>2. IsFiniteSet(first)
    BY <2>1, AnalysesConstants, FS_Subset
  <2> HIDE DEF first
  <2>3. IsFiniteSet({scores[w] : w \in first})
    BY <2>2, ImageFinite
  <2>4. {scores[w] : w \in first} \in SUBSET Nat
    BY <2>1
  <2> QED BY <2>3, <2>4, FS_Subset
<1> HIDE DEF known, quality
<1>10. raw \in Int
  BY <1>2, <1>4, <1>8, DelegationParts
<1> HIDE DEF raw
<1>11. score \in Int
  BY <1>9, <1>10, CapTyped
<1> HIDE DEF score
<1>12. /\ "weak" \in words <=> ~(score >= 400)
       /\ "strong" \in words <=> classifyRisk(score) = "low"
  BY <1>11, DelegationWords
<1> HIDE DEF words
<1>13. WordsOf(r)
  BY <1>1, <1>12, Zenon DEF WordsOf
<1> QED BY <1>13 DEF r

-----------------------------------------------------------------------------
(***************************************************************************)
(* The words of the answers.                                               *)
(***************************************************************************)
\* The words about delegations agree with what they are about.
LEMMA DelegationAnswered ==
  ASSUME AInv, NEW app, NEW legacy, NEW newestFirst, AskDelegations(app, legacy, newestFirst)
  PROVE  WordsOf(answer'.result)
<1> DEFINE own == fetchDelegations(Subject, ReadOf(Subject, app, legacy, newestFirst))
           lists == [w \in Wallets |-> fetchDelegations(w, GoodRead(w))]
           scores == [w \in Wallets |-> TrustOf(w).trustScore]
           result == scoreDelegation(Subject, own, lists, scores)
           depth == IF own = <<>> THEN 0 ELSE DeepestDepth(Subject, lists)
<1>1. answer'.result = result
  BY DEF AskDelegations
<1>2. ChainInOrder(chain, now)
  BY DEF AInv
<1>3. own \in Seq(Listed)
  BY <1>2, AnalysesConstants, ListTyped
<1>4. AllLists(lists)
  <2>1. \A w \in Wallets : fetchDelegations(w, GoodRead(w)) \in Seq(Listed)
    BY <1>2, ListTyped DEF GoodRead
  <2> QED BY <2>1 DEF AllLists
<1>5. \A w \in Wallets : scores[w] \in Nat
  <2>1. ASSUME NEW w \in Wallets PROVE TrustOf(w).trustScore \in Nat
    <3>1. TrustTyped(scoreWallet(IF TRUE THEN AccountInfo(w) ELSE None,
                                 fetchTransactionHistory(RoundsNewestFirst(w), MaxPages, FALSE)))
      BY TrustScoreConstants, TrustIsTyped
    <3>2. TrustTyped(TrustOf(w))
      BY <3>1 DEF TrustOf
    <3> HIDE DEF AInv
    <3> QED BY <3>2 DEF TrustTyped
  <2> QED BY <2>1
<1>6. result = DelegationResult(own, scores, depth)
  BY DEF scoreDelegation
<1> HIDE DEF own, lists, scores, result
<1>7. depth \in Nat
  BY <1>4, AnalysesConstants, DeepestIs
<1> HIDE DEF depth
<1> QED BY <1>1, <1>3, <1>5, <1>6, <1>7, DelegationScored

\* The words about trust do.
LEMMA TrustWorded ==
  ASSUME AInv, NEW accountRead \in BOOLEAN, NEW answered \in 0..MaxPages, NEW threw \in BOOLEAN,
         AskTrust(accountRead, answered, threw)
  PROVE  WordsOf(answer'.result)
<1> DEFINE rounds == RoundsNewestFirst(Subject)
           h == fetchTransactionHistory(rounds, answered, threw)
           info == IF accountRead THEN AccountInfo(Subject) ELSE None
<1>1. answer'.result = scoreWallet(info, h)
  BY DEF AskTrust
<1>2. TrustStays(info, rounds, h, scoreWallet(info, h), now)
  BY TrustAnswered
<1> HIDE DEF rounds, h, info
<1> QED BY <1>1, <1>2 DEF TrustStays, WordsOf

\* The risk of a credit that is covered, and of one that is not.
LEMMA CreditRisks ==
  ASSUME NEW limit \in Nat, NEW asked \in Nat, asked > 0
  PROVE  /\ limit >= asked => classifyCreditRisk(limit, asked) # "critical"
         /\ ~(limit >= asked) => classifyCreditRisk(limit, asked) \in {"high", "critical"}
<1>1. ASSUME limit >= asked PROVE 5 * limit >= 4 * asked
  BY <1>1, SMT
<1>2. ASSUME ~(limit >= asked) PROVE ~(limit >= 2 * asked) /\ ~(5 * limit >= 6 * asked)
  BY <1>2, SMT
<1> DEFINE twice == limit >= 2 * asked
           more == 5 * limit >= 6 * asked
           most == 5 * limit >= 4 * asked
<1>3. classifyCreditRisk(limit, asked) =
        IF twice THEN "low" ELSE IF more THEN "medium" ELSE IF most THEN "high" ELSE "critical"
  <2>1. asked > 0
    OBVIOUS
  <2> QED BY <2>1, SMT DEF classifyCreditRisk
<1>4. "low" # "critical" /\ "medium" # "critical" /\ "high" # "critical"
  OBVIOUS
<1>5. (limit >= asked => most) /\ (~(limit >= asked) => ~twice /\ ~more)
  BY <1>1, <1>2
<1> HIDE DEF twice, more, most
<1> QED BY <1>3, <1>4, <1>5

\* What is said of a credit that was asked for.
CreditWords(a) ==
  a.requested > 0 =>
    /\ "within capacity" \in a.result.explanation <=> a.result.approved
    /\ a.result.approved => a.result.risk # "critical"
    /\ ~a.result.approved => a.result.risk \in {"high", "critical"}

\* An answer about credit words its score, or that there is none.
LEMMA CreditWorded ==
  ASSUME AInv, NEW amount \in Requested \cup {None}, NEW accountRead \in BOOLEAN,
         AskCredit(amount, accountRead)
  PROVE  CreditWords(answer')
<1> DEFINE trust == scoreWallet(IF accountRead THEN AccountInfo(Subject) ELSE None,
                      fetchTransactionHistory(RoundsNewestFirst(Subject), MaxPages, FALSE))
           asked == validateAmount(amount)
           r == estimateCredit(trust, asked)
<1>1. answer'.result = r /\ answer'.requested = asked /\ asked # None
  BY DEF AskCredit
<1>2. TrustTyped(trust)
  BY TrustScoreConstants, AnalysesConstants, TrustIsTyped
<1>3. asked \in Nat
  BY <1>1, AnalysesConstants DEF validateAmount
<1> HIDE DEF trust, asked
<1> DEFINE limit == r.estimatedLimit
<1>4. /\ limit \in Nat
      /\ r.approved = (asked > 0 => limit >= asked)
      /\ r.risk = classifyCreditRisk(limit, asked)
      /\ asked > 0 => ("within capacity" \in r.explanation <=> r.approved)
  BY <1>2, <1>3, EstimateIs
<1> HIDE DEF r, limit
<1>5. asked > 0 => /\ limit >= asked => classifyCreditRisk(limit, asked) # "critical"
                   /\ ~(limit >= asked) => classifyCreditRisk(limit, asked) \in {"high", "critical"}
  BY <1>3, <1>4, CreditRisks
<1>6. CreditWords(answer')
  BY <1>1, <1>4, <1>5, Zenon DEF CreditWords
<1> QED BY <1>6

-----------------------------------------------------------------------------
Levels == {"low", "medium", "high", "critical"}

\* The three levels a passport reads are levels.
PartsGraded(p) ==
  /\ p.trust.riskLevel \in Levels
  /\ p.reputation.riskLevel \in Levels
  /\ p.credit # None => p.credit.risk \in Levels

\* Every classification is one of the four.
LEMMA LevelsAre ==
  /\ \A score : classifyRisk(score) \in Levels
  /\ \A score \in Int : classifyReputationRisk(score) \in Levels
  /\ \A limit, asked : classifyCreditRisk(limit, asked) \in Levels
<1>1. \A score : classifyRisk(score) \in Levels
  BY DEF classifyRisk, Levels
<1>2. \A score \in Int : classifyReputationRisk(score) \in Levels
  BY Grades4 DEF classifyReputationRisk, Levels
<1>3. \A limit, asked : classifyCreditRisk(limit, asked) \in Levels
  BY DEF classifyCreditRisk, Levels
<1> QED BY <1>1, <1>2, <1>3

\* The parts of a decision have levels.
LEMMA PartsAreGraded ==
  ASSUME AInv, NEW failed, NEW denyList
  PROVE  PartsGraded(PartsWithout(failed, denyList))
<1> DEFINE p == PartsWithout(failed, denyList)
<1>1. p.trust.riskLevel \in Levels
  <2> DEFINE info == IF "account" \in failed THEN None ELSE AccountInfo(Subject)
             h == fetchTransactionHistory(RoundsNewestFirst(Subject), MaxPages, "history" \in failed)
  <2>1. p.trust = scoreWallet(info, h)
    BY PartsAre, Zenon
  <2>2. \E score : scoreWallet(info, h).riskLevel = classifyRisk(score)
    BY Zenon DEF scoreWallet, ScoreAccount, TrustResult
  <2> HIDE DEF p, info, h
  <2> QED BY <2>1, <2>2, LevelsAre, Zenon
<1>2. p.reputation.riskLevel \in Levels
  <2> DEFINE c == readCounters(counters, failed \cap EventTypes)
             score == computeReputationScore(c, NoOpts)
  <2>1. p.reputation = computeReputation(c)
    BY PartsReputation
  <2>2. score \in Nat
    BY CountersRead, ReputationRanges
  <2>3. computeReputation(c).riskLevel = classifyReputationRisk(score)
    BY Zenon DEF computeReputation, ReputationResult
  <2> HIDE DEF p, c, score
  <2> QED BY <2>1, <2>2, <2>3, LevelsAre
<1>3. p.credit # None => p.credit.risk \in Levels
  <2>1. p.credit = None \/ p.credit = estimateCredit(p.trust, 0)
    BY PartsAre, Zenon
  <2>2. TrustTyped(p.trust)
    BY PartsAreTyped DEF PartsTyped
  <2> HIDE DEF p
  <2>3. estimateCredit(p.trust, 0).risk \in Levels
    <3>1. \E limit : estimateCredit(p.trust, 0).risk = classifyCreditRisk(limit, 0)
      BY <2>2, EstimateIs
    <3> QED BY <3>1, LevelsAre, Zenon
  <2> QED BY <2>1, <2>3
<1> HIDE DEF p
<1>4. PartsGraded(p)
  BY <1>1, <1>2, <1>3 DEF PartsGraded
<1> QED BY <1>4 DEF p

\* The overall risk is a number.
LEMMA RiskTyped ==
  ASSUME NEW a \in Levels, NEW sybil \in Int, NEW b \in Levels, NEW c \in Levels
  PROVE  computeOverallRisk(a, sybil, b, c) \in Int
<1> DEFINE x == RiskOf[a]
           y == RiskOf[b]
           z == RiskOf[c]
           sum == 30 * x + 250 * sybil + 25 * y + 20 * z
           n == Rounded(sum, 100)
<1>1. \A l \in Levels : RiskOf[l] \in Int
  BY SMT DEF RiskOf, Levels
<1>2. x \in Int /\ y \in Int /\ z \in Int
  BY <1>1
<1>3. computeOverallRisk(a, sybil, b, c) = Least(1000, n)
  BY DEF computeOverallRisk
<1> HIDE DEF x, y, z
<1>4. sum \in Int /\ 100 \in Nat \ {0}
  BY <1>2, SMT
<1> HIDE DEF sum
<1>5. n \in Int
  BY <1>4, RoundedGrows
<1> HIDE DEF n
<1> QED BY <1>3, <1>5, SMT DEF Least

\* What the words of a decision say.
CounterpartyWords(r) ==
  /\ r.explanation.verdict = "approved" <=> r.allow
  /\ ~r.allow /\ r.riskLevel \in {"low", "medium"} => r.explanation.screening # "passed"

PassportWords(r) ==
  /\ r.summary.sybil = "clean" => r.capabilities.sybilClear
  /\ r.summary.risk = "low" <=> r.overallRiskLevel = "low"

\* A counterparty refused at low or medium risk was not cleared by the screening.
LEMMA CounterpartyWorded ==
  ASSUME NEW p, PartsTyped(p), p.sanctions \in {"allowed", "denied", "unknown"}
  PROVE  CounterpartyWords(checkCounterparty(p.trust, p.delegation, p.sanctions))
<1> DEFINE t == ScoreOf(p.trust)
           d == ScoreOf(p.delegation)
           score == computeCombinedScore(t, d)
           s == p.sanctions
           allow == decideAllow(score, computeConfidence(score)) /\ s = "allowed"
           words == generateCounterpartyExplanation(t, d, score, allow, s)
           r == checkCounterparty(p.trust, p.delegation, p.sanctions)
<1>1. r.allow = allow /\ r.riskLevel = classifyCounterpartyRisk(score) /\ r.explanation = words
  BY Zenon DEF checkCounterparty
<1>2. /\ words.verdict = IF allow THEN "approved" ELSE "score below threshold"
      /\ words.screening = IF s = "allowed" THEN "passed" ELSE s
  BY Zenon DEF generateCounterpartyExplanation
<1>3. score \in Nat
  BY CombinedGrows, SMT DEF PartsTyped
<1> HIDE DEF score, words, r
<1>4. classifyCounterpartyRisk(score) \in {"low", "medium"} => score >= 400
  <2>1. classifyCounterpartyRisk(score) = IF score >= 700 THEN "low" ELSE IF score >= 450 THEN "medium"
           ELSE IF score >= 200 THEN "high" ELSE "critical"
    BY <1>3, Grades4, SMT DEF classifyCounterpartyRisk
  <2>2. (score >= 700 => score >= 400) /\ (score >= 450 => score >= 400)
    BY <1>3, SMT
  <2>3. "high" \notin {"low", "medium"} /\ "critical" \notin {"low", "medium"}
    OBVIOUS
  <2> QED BY <2>1, <2>2, <2>3, Zenon
<1>5. score >= 400 => decideAllow(score, computeConfidence(score))
  BY <1>3, ConfidentFrom40, Zenon DEF decideAllow
<1>6. (words.screening = "passed") => s = "allowed"
  <2>1. "denied" # "passed" /\ "unknown" # "passed"
    OBVIOUS
  <2> QED BY <1>2, <2>1, Zenon
<1>7. words.verdict = "approved" <=> allow
  <2>1. "approved" # "score below threshold"
    OBVIOUS
  <2> QED BY <1>2, <2>1, Zenon
<1>8. ~allow /\ score >= 400 => s # "allowed"
  BY <1>5, Zenon
<1> HIDE DEF allow, s
<1>9. CounterpartyWords(r)
  BY <1>1, <1>4, <1>6, <1>7, <1>8, Zenon DEF CounterpartyWords
<1> QED BY <1>9 DEF r

-----------------------------------------------------------------------------
\* A passport called clean is eligible, and one called low at risk is.
LEMMA PassportWorded ==
  ASSUME NEW p, PartsTyped(p), PartsGraded(p), NEW today
  PROVE  PassportWords(generatePassport(p, today))
<1> DEFINE sybil == SybilRiskOf(p)
           a == IF p.trust = None THEN "critical" ELSE p.trust.riskLevel
           b == IF p.reputation = None THEN "critical" ELSE p.reputation.riskLevel
           c == IF p.credit = None THEN "critical" ELSE p.credit.risk
           risk == computeOverallRisk(a, sybil, b, c)
           r == generatePassport(p, today)
<1>1. /\ r.overallRiskLevel = classifyOverallRisk(risk)
      /\ r.summary.sybil = Graded(sybil, 50, 25, <<"flagged", "some concerns", "clean">>)
      /\ r.summary.risk = Graded(risk, 501, 251, <<"high", "moderate", "low">>)
      /\ r.capabilities.sybilClear = (sybil < 45)
  BY Zenon DEF generatePassport, generatePassportSummary, SybilRiskOf
<1>2. sybil \in Int
  BY DEF PartsTyped
<1> HIDE DEF r, sybil
<1>3. a \in Levels /\ b \in Levels /\ c \in Levels
  BY DEF PartsGraded, Levels
<1> HIDE DEF a, b, c
<1>4. risk \in Int
  BY <1>2, <1>3, RiskTyped
<1> HIDE DEF risk
<1>5. Graded(sybil, 50, 25, <<"flagged", "some concerns", "clean">>) = "clean" => sybil < 45
  BY <1>2, SMT DEF Graded
<1>6. Graded(risk, 501, 251, <<"high", "moderate", "low">>) = "low" <=> classifyOverallRisk(risk) = "low"
  BY <1>4, SMT DEF Graded, classifyOverallRisk
<1>7. PassportWords(r)
  BY <1>1, <1>5, <1>6, Zenon DEF PassportWords
<1> QED BY <1>7 DEF r

\* The words of a decision.
LEMMA DecisionWorded ==
  ASSUME AInv, NEW failed, NEW denyList, Decide(failed, denyList)
  PROVE  CounterpartyWords(answer'.result.counterparty) /\ PassportWords(answer'.result.passport)
<1> DEFINE p == PartsWithout(failed, denyList)
<1>1. answer'.result = DecidedBy(p)
  BY DecisionIs
<1>2. PartsTyped(p) /\ PartsGraded(p)
  BY PartsAreTyped, PartsAreGraded
<1>3. p.sanctions \in {"allowed", "denied", "unknown"}
  <2>1. p.sanctions = checkSanctions(Subject, denyList, "sanctions" \in failed)
    BY PartsAre, Zenon
  <2> HIDE DEF p
  <2> QED BY <2>1 DEF checkSanctions
<1> HIDE DEF p
<1>4. /\ DecidedBy(p).counterparty = checkCounterparty(p.trust, p.delegation, p.sanctions)
      /\ DecidedBy(p).passport = generatePassport(p, now)
  BY DEF DecidedBy
<1> QED BY <1>1, <1>2, <1>3, <1>4, CounterpartyWorded, PassportWorded

\* What ExplanationsAgree says, one kind of answer at a time.
Worded(a, named) ==
  /\ a.ask \in {"trust", "delegation"} => WordsOf(a.result)
  /\ a.ask = "credit" => CreditWords(a)
  /\ a.ask = "sybil" /\ a.result # Unread => (named # <<>> => "created together" \in a.result.explanation)
  /\ a.ask = "decision" => CounterpartyWords(a.result.counterparty) /\ PassportWords(a.result.passport)

\* ExplanationsAgree, with the answer and the wallets' ages as parameters.
LEMMA WordedIs ==
  /\ ExplanationsAgree <=> Worded(answer, Naming(Subject))
  /\ ExplanationsAgree' <=> Worded(answer', Naming(Subject)')
<1>0. /\ "trust" # "credit" /\ "trust" # "sybil" /\ "trust" # "decision"
      /\ "delegation" # "credit" /\ "delegation" # "sybil" /\ "delegation" # "decision"
      /\ "credit" # "sybil" /\ "credit" # "decision" /\ "sybil" # "decision"
  OBVIOUS
<1>1. ExplanationsAgree <=> Worded(answer, Naming(Subject))
  BY <1>0 DEF ExplanationsAgree, Worded, WordsOf, CreditWords, CounterpartyWords, PassportWords
<1>2. ExplanationsAgree' <=> Worded(answer', Naming(Subject)')
  BY <1>0 DEF ExplanationsAgree, Worded, WordsOf, CreditWords, CounterpartyWords, PassportWords
<1> QED BY <1>1, <1>2

-----------------------------------------------------------------------------
\* Every request leaves an answer in agreeing words.
LEMMA RequestsWorded ==
  ASSUME AInv
  PROVE  /\ \A accountRead, threw \in BOOLEAN, answered \in 0..MaxPages :
              AskTrust(accountRead, answered, threw) => ExplanationsAgree'
         /\ \A amount \in Requested \cup {None}, accountRead \in BOOLEAN :
              AskCredit(amount, accountRead) => ExplanationsAgree'
         /\ \A app, legacy, newestFirst : AskDelegations(app, legacy, newestFirst) => ExplanationsAgree'
         /\ \A lost : AskTrustGraph(lost) => ExplanationsAgree'
         /\ \A unread \in UpTo(1, Wallets) : AskSybil(unread) => ExplanationsAgree'
         /\ \A failed, denyList : Decide(failed, denyList) => ExplanationsAgree'
<1> DEFINE named == Naming(Subject)'
<1>0. /\ "trust" # "credit" /\ "trust" # "sybil" /\ "trust" # "decision"
      /\ "delegation" # "credit" /\ "delegation" # "sybil" /\ "delegation" # "decision"
      /\ "credit" # "sybil" /\ "credit" # "decision" /\ "sybil" # "decision"
      /\ \A k \in {"trust", "delegation", "credit", "sybil", "decision"} : "trustGraph" # k
  OBVIOUS
<1>1. \A accountRead, threw \in BOOLEAN, answered \in 0..MaxPages :
        AskTrust(accountRead, answered, threw) => Worded(answer', named)
  BY <1>0, TrustWorded, AskedAs, Zenon DEF Worded
<1>2. \A amount \in Requested \cup {None}, accountRead \in BOOLEAN :
        AskCredit(amount, accountRead) => Worded(answer', named)
  BY <1>0, CreditWorded, AskedAs, Zenon DEF Worded
<1>3. \A app, legacy, newestFirst : AskDelegations(app, legacy, newestFirst) => Worded(answer', named)
  BY <1>0, DelegationAnswered, AskedAs, Zenon DEF Worded
<1>4. \A lost : AskTrustGraph(lost) => Worded(answer', named)
  BY <1>0, AskedAs, Zenon DEF Worded
<1>5. \A unread \in UpTo(1, Wallets) : AskSybil(unread) => Worded(answer', named)
  <2> SUFFICES ASSUME NEW unread \in UpTo(1, Wallets), AskSybil(unread) PROVE Worded(answer', named)
    OBVIOUS
  <2>1. (answer'.result # Unread => StarSeen(answer'.result)) /\ UNCHANGED chain
    BY SybilAnswered
  <2>2. named = Naming(Subject)
    BY <2>1, NamingStays
  <2>3. answer'.ask = "sybil"
    BY AskedAs
  <2> HIDE DEF named
  <2> QED BY <1>0, <2>1, <2>2, <2>3, Zenon DEF Worded, StarSeen
<1>6. \A failed, denyList : Decide(failed, denyList) => Worded(answer', named)
  BY <1>0, DecisionWorded, AskedAs, Zenon DEF Worded
<1> QED BY <1>1, <1>2, <1>3, <1>4, <1>5, <1>6, WordedIs, Zenon

(***************************************************************************)
(* For any chain, accounts, amounts, lists and failed reads, the words of  *)
(* every answer agree with the decision beside them, although the code     *)
(* computes both apart: weak and strong trust and delegations, a credit    *)
(* within capacity, the verdict and the screening of a counterparty, and   *)
(* the summary of a passport.                                              *)
(***************************************************************************)
THEOREM ExplanationsAlwaysAgree == Spec => []ExplanationsAgree
<1>1. Init => ExplanationsAgree
  <2> SUFFICES ASSUME Init PROVE ExplanationsAgree
    OBVIOUS
  <2>1. answer.ask = "nothing"
    BY AskedAs DEF Init
  <2>2. Worded(answer, Naming(Subject))
    BY <2>1 DEF Worded
  <2> QED BY <2>2, WordedIs
<1>2. AInv /\ ExplanationsAgree /\ [Next]_vars => ExplanationsAgree'
  <2> SUFFICES ASSUME AInv, ExplanationsAgree, [Next]_vars PROVE ExplanationsAgree'
    OBVIOUS
  <2>1. CASE UNCHANGED vars
    <3>1. Naming(Subject)' = Naming(Subject) /\ answer' = answer
      BY <2>1, NamingStays DEF vars
    <3> QED BY <3>1, WordedIs
  <2>2. CASE answer' = NoAnswer
    <3>1. answer'.ask = "nothing"
      BY <2>2, AskedAs
    <3>2. Worded(answer', Naming(Subject)')
      BY <3>1 DEF Worded
    <3> QED BY <3>2, WordedIs
  <2> QED BY <2>1, <2>2, StepsAnswer, RequestsWorded, Zenon
<1> QED BY <1>1, <1>2, InOrderAlways, PTL DEF Spec

-----------------------------------------------------------------------------
(***************************************************************************)
(* The sum of the amounts of a sequence, of what is kept of it and of two  *)
(* sequences in a row, all by the sums of its prefixes.                    *)
(***************************************************************************)
\* The sums of the first i entries, one after the other.
LEMMA PrefixSums ==
  ASSUME NEW n \in Nat, NEW f, \A i \in 1..n : f[i] \in Int
  PROVE  /\ SumOver(f, 1..0) = 0
         /\ \A i \in 0..n : SumOver(f, 1..i) \in Int
         /\ \A i \in 1..n : SumOver(f, 1..i) = SumOver(f, 1..(i - 1)) + f[i]
<1>1. ASSUME NEW i \in 0..n
      PROVE  /\ SumOver(f, 1..i) \in Int
             /\ SumOver(f, {}) = 0
             /\ \A x \in 1..i : SumOver(f, 1..i) = f[x] + SumOver(f, (1..i) \ {x})
  <2>1. IsFiniteSet(1..i)
    BY FS_Interval
  <2>2. \A x \in 1..i : f[x] \in Int
    OBVIOUS
  <2> QED BY <2>1, <2>2, SumSplits
<1>2. 1..0 = {} /\ 0 \in 0..n
  OBVIOUS
<1>3. ASSUME NEW i \in 1..n PROVE SumOver(f, 1..i) = SumOver(f, 1..(i - 1)) + f[i]
  <2>1. i \in 0..n /\ i - 1 \in 0..n /\ i \in 1..i
    OBVIOUS
  <2>2. (1..i) \ {i} = 1..(i - 1)
    OBVIOUS
  <2>3. SumOver(f, 1..i) = f[i] + SumOver(f, 1..(i - 1))
    BY <1>1, <2>1, <2>2
  <2>4. SumOver(f, 1..(i - 1)) \in Int
    BY <1>1, <2>1
  <2> QED BY <2>3, <2>4
<1> QED BY <1>1, <1>2, <1>3

\* What starts at 0 and grows by the entries of f is their sum.
LEMMA PrefixSumIs ==
  ASSUME NEW n \in Nat, NEW f, \A i \in 1..n : f[i] \in Int,
         NEW p, p[0] = 0, \A i \in 1..n : p[i] = p[i - 1] + f[i]
  PROVE  p[n] = SumOver(f, 1..n)
<1> DEFINE Bad == {i \in 0..n : p[i] # SumOver(f, 1..i)}
<1>1. SUFFICES ASSUME Bad # {} PROVE FALSE
  <2>1. n \in 0..n
    OBVIOUS
  <2> QED BY <1>1, <2>1
<1>2. 0 \notin Bad /\ Bad \in SUBSET (0..n)
  BY PrefixSums
<1>3. PICK m \in 1..n : m \in Bad /\ m - 1 \in 0..n /\ m - 1 \notin Bad
  <2> HIDE DEF Bad
  <2> QED BY <1>1, <1>2, FirstFailure
<1>4. p[m - 1] = SumOver(f, 1..(m - 1)) /\ p[m] = p[m - 1] + f[m]
  BY <1>3
<1>5. SumOver(f, 1..m) = SumOver(f, 1..(m - 1)) + f[m]
  BY <1>3, PrefixSums
<1> QED BY <1>3, <1>4, <1>5

\* The amounts of the elements of S are numbers.
Weighed(S) == \A x \in S : x.amount \in Nat

\* A longer sequence weighs more by what was added.
LEMMA SumOfLonger ==
  ASSUME NEW S, Weighed(S), NEW s \in Seq(S), NEW e \in S
  PROVE  /\ SumOf(s) \in Nat
         /\ SumOf(Append(s, e)) = SumOf(s) + e.amount
<1> DEFINE t == Append(s, e)
           n == Len(s)
           f == [i \in DOMAIN s |-> s[i].amount]
           g == [i \in DOMAIN t |-> t[i].amount]
<1>1. n \in Nat /\ DOMAIN s = 1..n /\ DOMAIN t = 1..(n + 1) /\ t[n + 1] = e /\ \A i \in 1..n : t[i] = s[i]
  OBVIOUS
<1>2. SumOf(s) = SumFunction(f) /\ SumOf(t) = SumFunction(g)
  BY DEF SumOf
<1>3. \A i \in 1..n : s[i] \in S
  BY <1>1
<1> HIDE DEF t, n
<1>4. DOMAIN f = 1..n /\ DOMAIN g = 1..(n + 1) /\ (\A i \in 1..n : f[i] = s[i].amount)
      /\ g[n + 1] = e.amount /\ (\A i \in 1..n : g[i] = s[i].amount)
  <2>1. \A i \in 1..n : i \in 1..(n + 1)
    BY <1>1
  <2>2. n + 1 \in 1..(n + 1)
    BY <1>1
  <2> QED BY <1>1, <2>1, <2>2
<1> HIDE DEF f, g
<1>5. SumOf(s) = SumOver(f, 1..n) /\ SumOf(t) = SumOver(g, 1..(n + 1))
  BY <1>2, <1>4, Zenon DEF SumFunction, SumOver
<1>6. \A i \in 1..n : s[i].amount \in Nat
  BY <1>3 DEF Weighed
<1>7. e.amount \in Nat
  BY DEF Weighed
<1>8. SumOver(f, 1..n) = SumOver(g, 1..n)
  <2>1. IsFiniteSet(1..n)
    BY <1>1, FS_Interval
  <2>2. \A i \in 1..n : f[i] \in Int /\ g[i] = f[i]
    BY <1>4, <1>6
  <2> QED BY <2>1, <2>2, SumAgrees
<1>9. SumOver(f, 1..n) \in Nat
  <2>1. IsFiniteSet(1..n)
    BY <1>1, FS_Interval
  <2>2. \A i \in 1..n : f[i] \in Nat
    BY <1>4, <1>6
  <2> QED BY <2>1, <2>2, SumNat
<1>10. SumOver(g, 1..(n + 1)) = SumOver(g, 1..n) + g[n + 1]
  <2>1. n + 1 \in Nat /\ n + 1 \in 1..(n + 1) /\ (n + 1) - 1 = n
    BY <1>1
  <2>2. \A i \in 1..(n + 1) : g[i] \in Int
    <3>1. \A i \in 1..(n + 1) : i \in 1..n \/ i = n + 1
      BY <1>1
    <3> QED BY <1>4, <1>6, <1>7, <3>1
  <2>3. \A i \in 1..(n + 1) : SumOver(g, 1..i) = SumOver(g, 1..(i - 1)) + g[i]
    BY <2>1, <2>2, PrefixSums
  <2> QED BY <2>1, <2>3
<1> QED BY <1>4, <1>5, <1>8, <1>9, <1>10 DEF t

\* Nothing weighs nothing.
LEMMA SumOfEmpty == SumOf(<<>>) = 0
<1> DEFINE f == [i \in DOMAIN <<>> |-> <<>>[i].amount]
<1>1. SumOf(<<>>) = SumFunction(f) /\ DOMAIN f = {}
  BY DEF SumOf
<1> HIDE DEF f
<1>2. SumFunction(f) = SumOver(f, {})
  BY <1>1, Zenon DEF SumFunction, SumOver
<1>3. IsFiniteSet({}) /\ \A x \in {} : f[x] \in Int
  BY FS_EmptySet
<1>4. SumOver(f, {}) = 0
  BY <1>3, SumSplits
<1> QED BY <1>1, <1>2, <1>4

\* The amounts of what is kept, 0 for what is dropped.
KeptAmounts(s, dropped) == [i \in 1..Len(s) |-> IF s[i] \in dropped THEN 0 ELSE s[i].amount]

\* What is kept weighs as much as its elements.
LEMMA SumOfDrop ==
  ASSUME NEW S, Weighed(S), NEW s \in Seq(S), NEW dropped
  PROVE  /\ \A i \in 1..Len(s) : KeptAmounts(s, dropped)[i] \in Nat
         /\ SumOf(Drop(s, dropped)) = SumOver(KeptAmounts(s, dropped), 1..Len(s))
         /\ SumOf(Drop(s, dropped)) \in Nat
<1> DEFINE n == Len(s)
           f == KeptAmounts(s, dropped)
           k == Kept(s, dropped)
           p == [i \in 0..n |-> SumOf(k[i])]
<1>1. n \in Nat /\ DOMAIN s = 1..n /\ \A i \in 1..n : s[i] \in S
  OBVIOUS
<1>2. k \in [0..n -> Seq(S)] /\ Steps(k, s, dropped)
  BY KeptSteps
<1>3. Drop(s, dropped) = k[n]
  BY DropIsKept
<1>4. \A i \in 1..n : f[i] = IF s[i] \in dropped THEN 0 ELSE s[i].amount
  BY DEF KeptAmounts
<1> HIDE DEF k, f
<1>5. p[0] = 0
  <2>1. k[0] = <<>>
    BY <1>2 DEF Steps
  <2>2. 0 \in 0..n
    BY <1>1
  <2> QED BY <2>1, <2>2, SumOfEmpty
<1>6. \A i \in 1..n : f[i] \in Nat
  BY <1>1, <1>4 DEF Weighed
<1>7. ASSUME NEW i \in 1..n PROVE p[i] = p[i - 1] + f[i]
  <2>1. i \in 0..n /\ i - 1 \in 0..n
    BY <1>1
  <2>2. k[i - 1] \in Seq(S) /\ s[i] \in S
    BY <1>1, <1>2, <2>1
  <2>3. p[i] = SumOf(k[i]) /\ p[i - 1] = SumOf(k[i - 1])
    BY <2>1
  <2>4. SumOf(k[i - 1]) \in Nat /\ SumOf(Append(k[i - 1], s[i])) = SumOf(k[i - 1]) + s[i].amount
    BY <2>2, SumOfLonger
  <2>5. /\ s[i] \in dropped => k[i] = k[i - 1]
        /\ s[i] \notin dropped => k[i] = Append(k[i - 1], s[i])
    BY <1>2 DEF Steps
  <2>6. CASE s[i] \in dropped
    BY <1>4, <2>3, <2>4, <2>5, <2>6
  <2>7. CASE s[i] \notin dropped
    BY <1>4, <2>3, <2>4, <2>5, <2>7
  <2> QED BY <2>6, <2>7
<1>8. p[n] = SumOf(k[n])
  BY <1>1
<1> HIDE DEF p
<1>9. p[n] = SumOver(f, 1..n)
  <2>1. \A i \in 1..n : f[i] \in Int
    BY <1>6
  <2> HIDE DEF n
  <2> QED BY <1>1, <1>5, <1>7, <2>1, PrefixSumIs
<1>10. SumOver(f, 1..n) \in Nat
  <2>1. IsFiniteSet(1..n)
    BY <1>1, FS_Interval
  <2> QED BY <1>6, <2>1, SumNat
<1> QED BY <1>3, <1>6, <1>8, <1>9, <1>10 DEF f

-----------------------------------------------------------------------------
\* Two sequences in a row: what is kept of them weighs as much together.
LEMMA SumOfConcat ==
  ASSUME NEW S, Weighed(S), NEW s \in Seq(S), NEW t \in Seq(S), NEW dropped
  PROVE  SumOf(Drop(s \o t, dropped)) = SumOf(Drop(s, dropped)) + SumOf(Drop(t, dropped))
<1> DEFINE m == Len(s)
           k == Len(t)
           st == s \o t
           f == KeptAmounts(s, dropped)
           g == KeptAmounts(t, dropped)
           h == KeptAmounts(st, dropped)
           p == [i \in 0..k |-> SumOver(h, 1..(m + i)) - SumOver(h, 1..m)]
<1>1. /\ m \in Nat /\ k \in Nat /\ st \in Seq(S) /\ Len(st) = m + k
      /\ \A i \in 1..m : st[i] = s[i]
      /\ \A i \in 1..k : st[m + i] = t[i]
  OBVIOUS
<1>2. /\ \A i \in 1..m : f[i] \in Nat
      /\ \A i \in 1..k : g[i] \in Nat
      /\ \A i \in 1..(m + k) : h[i] \in Nat
      /\ SumOf(Drop(s, dropped)) = SumOver(f, 1..m)
      /\ SumOf(Drop(t, dropped)) = SumOver(g, 1..k)
      /\ SumOf(Drop(st, dropped)) = SumOver(h, 1..(m + k))
  <2> HIDE DEF st, f, g, h
  <2>1. \A u \in Seq(S) : /\ \A i \in 1..Len(u) : KeptAmounts(u, dropped)[i] \in Nat
                          /\ SumOf(Drop(u, dropped)) = SumOver(KeptAmounts(u, dropped), 1..Len(u))
    BY SumOfDrop
  <2> QED BY <1>1, <2>1 DEF f, g, h
<1>3. /\ \A i \in 1..m : h[i] = f[i]
      /\ \A i \in 1..k : h[m + i] = g[i]
  <2> HIDE DEF st, m, k
  <2>1. \A i \in 1..m : i \in 1..(m + k)
    BY <1>1
  <2>2. \A i \in 1..k : m + i \in 1..(m + k)
    BY <1>1
  <2> QED BY <1>1, <2>1, <2>2 DEF KeptAmounts, m, k
<1> HIDE DEF st, f, g, h, m, k
<1>4. SumOver(h, 1..m) = SumOver(f, 1..m)
  <2>1. IsFiniteSet(1..m)
    BY <1>1, FS_Interval
  <2>2. \A i \in 1..m : f[i] \in Int
    BY <1>2
  <2> QED BY <1>3, <2>1, <2>2, SumAgrees
<1>5. /\ \A i \in 0..(m + k) : SumOver(h, 1..i) \in Int
      /\ \A i \in 1..(m + k) : SumOver(h, 1..i) = SumOver(h, 1..(i - 1)) + h[i]
  <2>1. m + k \in Nat /\ \A i \in 1..(m + k) : h[i] \in Int
    BY <1>1, <1>2
  <2> QED BY <2>1, PrefixSums
<1>6. p[0] = 0
  <2>1. 0 \in 0..k /\ m + 0 = m /\ m \in 0..(m + k)
    BY <1>1
  <2>2. SumOver(h, 1..m) \in Int
    BY <1>5, <2>1
  <2> QED BY <2>1, <2>2
<1>7. ASSUME NEW i \in 1..k PROVE p[i] = p[i - 1] + g[i]
  <2>1. i \in 0..k /\ i - 1 \in 0..k /\ m + i \in 1..(m + k) /\ m + i \in 0..(m + k) /\ (m + i) - 1 = m + (i - 1)
        /\ m + (i - 1) \in 0..(m + k) /\ m \in 0..(m + k)
    BY <1>1
  <2>2. SumOver(h, 1..(m + i)) = SumOver(h, 1..(m + (i - 1))) + h[m + i]
    BY <1>5, <2>1
  <2>3. SumOver(h, 1..(m + i)) \in Int /\ SumOver(h, 1..(m + (i - 1))) \in Int /\ SumOver(h, 1..m) \in Int
    BY <1>5, <2>1
  <2>4. h[m + i] = g[i] /\ g[i] \in Int
    BY <1>2, <1>3
  <2>5. p[i] = SumOver(h, 1..(m + i)) - SumOver(h, 1..m) /\ p[i - 1] = SumOver(h, 1..(m + (i - 1))) - SumOver(h, 1..m)
    BY <2>1
  <2> HIDE DEF p
  <2> QED BY <2>2, <2>3, <2>4, <2>5
<1>8. p[k] = SumOver(h, 1..(m + k)) - SumOver(h, 1..m)
  BY <1>1
<1> HIDE DEF p
<1>9. p[k] = SumOver(g, 1..k)
  <2>1. \A i \in 1..k : g[i] \in Int
    BY <1>2
  <2> QED BY <1>1, <1>6, <1>7, <2>1, PrefixSumIs
<1>10. SumOver(h, 1..(m + k)) \in Int /\ SumOver(h, 1..m) \in Int
  <2>1. m \in 0..(m + k) /\ m + k \in 0..(m + k)
    BY <1>1
  <2> QED BY <1>5, <2>1
<1>11. SumOver(h, 1..(m + k)) = SumOver(f, 1..m) + SumOver(g, 1..k)
  BY <1>4, <1>8, <1>9, <1>10
<1> QED BY <1>2, <1>11 DEF st

\* Who drops more keeps less.
LEMMA SumOfMoreDropped ==
  ASSUME NEW S, Weighed(S), NEW s \in Seq(S), NEW less, NEW more,
         \A i \in 1..Len(s) : s[i] \in less => s[i] \in more
  PROVE  SumOf(Drop(s, more)) <= SumOf(Drop(s, less))
<1> DEFINE n == Len(s)
           f == KeptAmounts(s, more)
           g == KeptAmounts(s, less)
<1>1. /\ SumOf(Drop(s, more)) = SumOver(f, 1..n) /\ \A i \in 1..n : f[i] \in Nat
  BY SumOfDrop
<1>2. /\ SumOf(Drop(s, less)) = SumOver(g, 1..n) /\ \A i \in 1..n : g[i] \in Nat
  BY SumOfDrop
<1>3. \A i \in 1..n : f[i] <= g[i]
  <2> SUFFICES ASSUME NEW i \in 1..n PROVE f[i] <= g[i]
    OBVIOUS
  <2>1. g[i] \in Nat /\ f[i] \in Nat
    BY <1>1, <1>2
  <2>2. /\ f[i] = IF s[i] \in more THEN 0 ELSE s[i].amount
        /\ g[i] = IF s[i] \in less THEN 0 ELSE s[i].amount
    BY DEF KeptAmounts
  <2>3. s[i] \in less => s[i] \in more
    OBVIOUS
  <2> HIDE DEF f, g
  <2> QED BY <2>1, <2>2, <2>3
<1>4. IsFiniteSet(1..n)
  <2>1. n \in Nat
    OBVIOUS
  <2> HIDE DEF n
  <2> QED BY <2>1, FS_Interval
<1> HIDE DEF f, g, n
<1>5. \A i \in 1..n : f[i] \in Int /\ g[i] \in Int /\ f[i] <= g[i]
  BY <1>1, <1>2, <1>3
<1>6. SumOver(f, 1..n) <= SumOver(g, 1..n)
  BY <1>4, <1>5, SumGrows
<1> QED BY <1>1, <1>2, <1>6

\* What two filters keep apart weighs as much as the whole.
LEMMA SumOfParts ==
  ASSUME NEW S, Weighed(S), NEW s \in Seq(S), NEW these, NEW those,
         \A i \in 1..Len(s) : s[i] \in these <=> s[i] \notin those
  PROVE  SumOf(Drop(s, these)) + SumOf(Drop(s, those)) = SumOf(Drop(s, {}))
<1> DEFINE n == Len(s)
           f == KeptAmounts(s, these)
           g == KeptAmounts(s, those)
           h == KeptAmounts(s, {})
           p == [i \in 0..n |-> SumOver(f, 1..i) + SumOver(g, 1..i)]
<1>1. /\ SumOf(Drop(s, these)) = SumOver(f, 1..n) /\ \A i \in 1..n : f[i] \in Nat
  BY SumOfDrop
<1>2. /\ SumOf(Drop(s, those)) = SumOver(g, 1..n) /\ \A i \in 1..n : g[i] \in Nat
  BY SumOfDrop
<1>3. /\ SumOf(Drop(s, {})) = SumOver(h, 1..n) /\ \A i \in 1..n : h[i] \in Nat
  BY SumOfDrop
<1>4. \A i \in 1..n : f[i] + g[i] = h[i]
  <2> SUFFICES ASSUME NEW i \in 1..n PROVE f[i] + g[i] = h[i]
    OBVIOUS
  <2>1. /\ f[i] = IF s[i] \in these THEN 0 ELSE s[i].amount
        /\ g[i] = IF s[i] \in those THEN 0 ELSE s[i].amount
        /\ h[i] = s[i].amount
    BY DEF KeptAmounts
  <2>2. h[i] \in Nat /\ (s[i] \in these <=> s[i] \notin those)
    BY <1>3
  <2> HIDE DEF f, g, h
  <2> QED BY <2>1, <2>2
<1>5. n \in Nat
  OBVIOUS
<1> HIDE DEF f, g, h, n
<1>6. /\ SumOver(f, 1..0) = 0 /\ \A i \in 0..n : SumOver(f, 1..i) \in Int
      /\ \A i \in 1..n : SumOver(f, 1..i) = SumOver(f, 1..(i - 1)) + f[i]
  <2>1. \A i \in 1..n : f[i] \in Int
    BY <1>1
  <2> QED BY <1>5, <2>1, PrefixSums
<1>7. /\ SumOver(g, 1..0) = 0 /\ \A i \in 0..n : SumOver(g, 1..i) \in Int
      /\ \A i \in 1..n : SumOver(g, 1..i) = SumOver(g, 1..(i - 1)) + g[i]
  <2>1. \A i \in 1..n : g[i] \in Int
    BY <1>2
  <2> QED BY <1>5, <2>1, PrefixSums
<1>8. p[0] = 0
  <2>1. 0 \in 0..n
    BY <1>5
  <2> QED BY <1>6, <1>7, <2>1
<1>9. ASSUME NEW i \in 1..n PROVE p[i] = p[i - 1] + h[i]
  <2>1. i \in 0..n /\ i - 1 \in 0..n
    BY <1>5
  <2>2. p[i] = SumOver(f, 1..i) + SumOver(g, 1..i) /\ p[i - 1] = SumOver(f, 1..(i - 1)) + SumOver(g, 1..(i - 1))
    BY <2>1
  <2>3. SumOver(f, 1..(i - 1)) \in Int /\ SumOver(g, 1..(i - 1)) \in Int /\ f[i] \in Nat /\ g[i] \in Nat /\ f[i] + g[i] = h[i]
    BY <1>1, <1>2, <1>4, <1>6, <1>7, <2>1
  <2>4. SumOver(f, 1..i) = SumOver(f, 1..(i - 1)) + f[i] /\ SumOver(g, 1..i) = SumOver(g, 1..(i - 1)) + g[i]
    BY <1>6, <1>7
  <2> HIDE DEF p
  <2> QED BY <2>2, <2>3, <2>4
<1>10. p[n] = SumOver(f, 1..n) + SumOver(g, 1..n)
  BY <1>5
<1> HIDE DEF p
<1>11. p[n] = SumOver(h, 1..n)
  <2>1. \A i \in 1..n : h[i] \in Int
    BY <1>3
  <2> QED BY <1>5, <1>8, <1>9, <2>1, PrefixSumIs
<1> QED BY <1>1, <1>2, <1>3, <1>10, <1>11

-----------------------------------------------------------------------------
\* Nothing dropped: the whole.
LEMMA SumOfWhole ==
  ASSUME NEW S, Weighed(S), NEW s \in Seq(S)
  PROVE  SumOf(Drop(s, {})) = SumOf(s)
<1> DEFINE n == Len(s)
           f == [i \in DOMAIN s |-> s[i].amount]
           g == KeptAmounts(s, {})
<1>1. n \in Nat /\ DOMAIN s = 1..n
  OBVIOUS
<1>2. SumOf(s) = SumFunction(f) /\ DOMAIN f = 1..n
  BY <1>1 DEF SumOf
<1>3. SumOf(Drop(s, {})) = SumOver(g, 1..n) /\ \A i \in 1..n : g[i] \in Nat
  BY SumOfDrop
<1>4. \A i \in 1..n : f[i] = g[i]
  BY <1>1 DEF KeptAmounts
<1> HIDE DEF f, g, n
<1>5. SumFunction(f) = SumOver(f, 1..n)
  BY <1>2, Zenon DEF SumFunction, SumOver
<1>6. IsFiniteSet(1..n)
  BY <1>1, FS_Interval
<1>7. \A i \in 1..n : g[i] \in Int /\ f[i] = g[i]
  BY <1>3, <1>4
<1>8. SumOver(g, 1..n) = SumOver(f, 1..n)
  BY <1>6, <1>7, SumAgrees
<1> QED BY <1>2, <1>3, <1>5, <1>8

\* The same dropped: the same sum.
LEMMA SumOfSameDropped ==
  ASSUME NEW S, Weighed(S), NEW s \in Seq(S), NEW a, NEW b,
         \A i \in 1..Len(s) : s[i] \in a <=> s[i] \in b
  PROVE  SumOf(Drop(s, a)) = SumOf(Drop(s, b))
<1>1. SumOf(Drop(s, a)) \in Nat /\ SumOf(Drop(s, b)) \in Nat
  BY SumOfDrop
<1>2. (\A i \in 1..Len(s) : s[i] \in a => s[i] \in b) /\ (\A i \in 1..Len(s) : s[i] \in b => s[i] \in a)
  OBVIOUS
<1>3. SumOf(Drop(s, b)) <= SumOf(Drop(s, a)) /\ SumOf(Drop(s, a)) <= SumOf(Drop(s, b))
  BY <1>2, SumOfMoreDropped
<1> QED BY <1>1, <1>3

\* The edges of a trust graph.
Edges == [from : Wallets, to : Wallets, amount : Nat, depth : Nat]

\* Edges and delegations have amounts.
LEMMA EdgesAreWeighed == Weighed(Edges) /\ Weighed(Listed)
BY DEF Weighed, Edges, Listed

\* The exposure of a wallet in a graph is the sum of its edges.
LEMMA ExposureIs ==
  ASSUME NEW edges \in Seq(Edges), NEW wallet
  PROVE  computeExposure(edges, wallet).totalExposure = SumOf(edges)
<1> DEFINE these == {edges[i] : i \in {j \in DOMAIN edges : ~(edges[j].from = wallet)}}
           those == {edges[i] : i \in {j \in DOMAIN edges : ~(edges[j].from # wallet)}}
<1>1. computeExposure(edges, wallet).totalExposure = SumOf(Drop(edges, these)) + SumOf(Drop(edges, those))
  BY DEF computeExposure, Only
<1>2. \A i \in 1..Len(edges) : edges[i] \in these <=> edges[i] \notin those
  <2>1. DOMAIN edges = 1..Len(edges)
    OBVIOUS
  <2> QED BY <2>1
<1> HIDE DEF these, those
<1>3. SumOf(Drop(edges, these)) + SumOf(Drop(edges, those)) = SumOf(Drop(edges, {}))
  BY <1>2, EdgesAreWeighed, SumOfParts
<1>4. SumOf(Drop(edges, {})) = SumOf(edges)
  BY EdgesAreWeighed, SumOfWhole
<1> QED BY <1>1, <1>3, <1>4

\* The edges of one wallet at a depth.
EdgesAt(lists, at, depth) ==
  [i \in DOMAIN lists[at] |-> [from |-> at, to |-> lists[at][i].to, amount |-> lists[at][i].amount, depth |-> depth]]

\* One drops a of e, the other b of l, at the same places.
DroppedAlike(e, a, l, b) == \A i \in 1..Len(l) : e[i] \in a <=> l[i] \in b

\* They are edges, and what is kept of them weighs as much as the delegations kept.
LEMMA EdgesWeigh ==
  ASSUME NEW lists, AllLists(lists), NEW at \in Wallets, NEW depth \in Nat
  PROVE  /\ EdgesAt(lists, at, depth) \in Seq(Edges)
         /\ \A a, b :
              DroppedAlike(EdgesAt(lists, at, depth), a, lists[at], b) => SumOf(Drop(EdgesAt(lists, at, depth), a)) = SumOf(Drop(lists[at], b))
<1> DEFINE l == lists[at]
           e == EdgesAt(lists, at, depth)
           n == Len(l)
<1>1. l \in Seq(Listed) /\ n \in Nat /\ DOMAIN l = 1..n /\ \A i \in 1..n : l[i] \in Listed
  <2>1. l \in Seq(Listed)
    BY DEF AllLists
  <2> HIDE DEF l
  <2> QED BY <2>1
<1>2. e = [i \in 1..n |-> [from |-> at, to |-> l[i].to, amount |-> l[i].amount, depth |-> depth]]
  BY <1>1 DEF EdgesAt
<1> HIDE DEF e, l, n
<1>3. \A i \in 1..n : e[i] \in Edges /\ e[i].amount = l[i].amount
  BY <1>1, <1>2 DEF Edges, Listed
<1>4. e \in Seq(Edges) /\ Len(e) = n
  <2>1. e \in [1..n -> Edges]
    BY <1>2, <1>3
  <2> QED BY <1>1, <2>1
<1>5. ASSUME NEW a, NEW b, DroppedAlike(e, a, l, b)
      PROVE  SumOf(Drop(e, a)) = SumOf(Drop(l, b))
  <2> DEFINE f == KeptAmounts(e, a)
             g == KeptAmounts(l, b)
  <2>1. SumOf(Drop(e, a)) = SumOver(f, 1..n) /\ \A i \in 1..n : f[i] \in Nat
    BY <1>4, EdgesAreWeighed, SumOfDrop
  <2>2. SumOf(Drop(l, b)) = SumOver(g, 1..n) /\ \A i \in 1..n : g[i] \in Nat
    BY <1>1, EdgesAreWeighed, SumOfDrop DEF n
  <2>3. \A i \in 1..n : g[i] = f[i]
    BY <1>3, <1>4, <1>5 DEF DroppedAlike, KeptAmounts, n
  <2> HIDE DEF f, g
  <2>4. \A i \in 1..n : f[i] \in Int /\ g[i] = f[i]
    BY <2>1, <2>3
  <2>5. IsFiniteSet(1..n)
    BY <1>1, FS_Interval
  <2>6. SumOver(f, 1..n) = SumOver(g, 1..n)
    BY <2>4, <2>5, SumAgrees
  <2> QED BY <2>1, <2>2, <2>6
<1> QED BY <1>4, <1>5, Zenon DEF e, l

-----------------------------------------------------------------------------
\* The edges of one wallet more.
JoinEdges(all, here, lists) == all \o EdgesAt(lists, here.at, here.depth + 1)

\* They are edges with the edges of one wallet more.
LEMMA EdgesJoined ==
  ASSUME NEW lists, AllLists(lists)
  PROVE  \A v \in Seq(Edges), p \in Places : JoinEdges(v, p, lists) \in Seq(Edges)
<1> SUFFICES ASSUME NEW v \in Seq(Edges), NEW p \in Places PROVE JoinEdges(v, p, lists) \in Seq(Edges)
  OBVIOUS
<1>1. p.at \in Wallets /\ p.depth + 1 \in Nat
  BY DEF Places
<1>2. EdgesAt(lists, p.at, p.depth + 1) \in Seq(Edges)
  BY <1>1, EdgesWeigh
<1> QED BY <1>2 DEF JoinEdges

\* The recursion of FoldLeft over the sets of indices of s.
JoinedOver(T, s, lists) ==
  T = [d \in SUBSET DOMAIN s |-> IF d = {} THEN <<>> ELSE JoinEdges(T[d \ {Max(d)}], s[Max(d)], lists)]

\* f adds the edges of one wallet after the other.
JoinedBy(f, s, lists, r) ==
  /\ f \in [0..Len(s) -> Seq(Edges)] /\ f[0] = <<>> /\ f[Len(s)] = r
  /\ \A i \in 1..Len(s) : f[i] = JoinEdges(f[i - 1], s[i], lists)

\* WalkedEdges adds the edges of one wallet after the other.
LEMMA EdgesFold ==
  ASSUME NEW lists, AllLists(lists), NEW s \in Seq(Places)
  PROVE  \E f : JoinedBy(f, s, lists, WalkedEdges(s, lists))
<1> DEFINE n == Len(s)
           S == 1..n
           V == Seq(Edges)
           pick == [d \in SUBSET S |-> Max(d)]
           step == [i \in S |-> [v \in V |-> JoinEdges(v, s[i], lists)]]
           T == CHOOSE F : JoinedOver(F, s, lists)
<1>1. n \in Nat /\ DOMAIN s = S /\ IsFiniteSet(S) /\ \A i \in S : s[i] \in Places
  BY FS_Interval
<1>2. \A d \in SUBSET S : d # {} => pick[d] = Max(d) /\ pick[d] \in d
  BY <1>1, MaxIsIn
<1>3. \A v \in V, c \in Places : JoinEdges(v, c, lists) \in V
  BY EdgesJoined
<1>4. step \in [S -> [V -> V]] /\ \A i \in S, v \in V : step[i][v] = JoinEdges(v, s[i], lists)
  BY <1>1, <1>3
<1>0. <<>> \in V
  OBVIOUS
<1> HIDE DEF pick, step, V
<1>5. PICK F \in [SUBSET S -> V] : FoldsBy(F, pick, <<>>, step, SUBSET S)
  <2>1. \A d \in SUBSET S : d # {} => pick[d] \in d
    BY <1>2
  <2>2. Foldable(S, pick, V, <<>>, step)
    BY <1>0, <1>1, <1>4, <2>1, FoldExists
  <2> QED BY <2>2 DEF Foldable
<1>6. \A d \in SUBSET S : F[d] = IF d = {} THEN <<>> ELSE JoinEdges(F[d \ {Max(d)}], s[Max(d)], lists)
  <2> SUFFICES ASSUME NEW d \in SUBSET S
               PROVE  F[d] = IF d = {} THEN <<>> ELSE JoinEdges(F[d \ {Max(d)}], s[Max(d)], lists)
    OBVIOUS
  <2>1. F[d] = IF d = {} THEN <<>> ELSE step[pick[d]][F[d \ {pick[d]}]]
    BY <1>5 DEF FoldsBy
  <2>2. ASSUME d # {} PROVE step[pick[d]][F[d \ {pick[d]}]] = JoinEdges(F[d \ {Max(d)}], s[Max(d)], lists)
    <3>1. Max(d) = pick[d] /\ pick[d] \in S /\ d \ {pick[d]} \in SUBSET S
      BY <1>2, <2>2
    <3>2. F[d \ {pick[d]}] \in V
      BY <1>5, <3>1
    <3> QED BY <1>4, <3>1, <3>2
  <2> QED BY <2>1, <2>2
<1>7. F = [d \in SUBSET S |-> F[d]]
  BY <1>5
<1>8. JoinedOver(F, s, lists)
  BY <1>1, <1>6, <1>7, Zenon DEF JoinedOver
<1>9. JoinedOver(T, s, lists)
  BY <1>8, Zenon
<1>10. WalkedEdges(s, lists) = T[S]
  BY <1>1 DEF WalkedEdges, FoldLeft, MapThenFoldSet, JoinedOver, JoinEdges, EdgesAt
<1> HIDE DEF T
<1>11. \A d \in SUBSET S : T[d] = IF d = {} THEN <<>> ELSE JoinEdges(T[d \ {Max(d)}], s[Max(d)], lists)
  <2> DEFINE body(d) == IF d = {} THEN <<>> ELSE JoinEdges(T[d \ {Max(d)}], s[Max(d)], lists)
  <2>1. T = [d \in SUBSET S |-> body(d)]
    BY <1>1, <1>9 DEF JoinedOver
  <2> HIDE DEF body
  <2>2. \A d \in SUBSET S : T[d] = body(d)
    BY <2>1, Zenon
  <2> QED BY <2>2 DEF body
<1> DEFINE f == [i \in 0..n |-> T[1..i]]
<1>12. f[0] = <<>> /\ f[n] = T[S]
  <2>1. 1..0 = {} /\ 0 \in 0..n /\ n \in 0..n
    BY <1>1
  <2>2. T[{}] = <<>>
    BY <1>11
  <2> QED BY <2>1, <2>2
<1>13. \A i \in 1..n : f[i] = JoinEdges(f[i - 1], s[i], lists)
  <2> SUFFICES ASSUME NEW i \in 1..n PROVE f[i] = JoinEdges(f[i - 1], s[i], lists)
    OBVIOUS
  <2>1. i \in Nat /\ i > 0 /\ i \in 0..n /\ i - 1 \in 0..n /\ 1..i \in SUBSET S /\ 1..i # {}
    <3>1. n \in Nat /\ i \in 1..n
      BY <1>1
    <3> HIDE DEF n
    <3>2. i \in Nat /\ i > 0 /\ i \in 0..n /\ i - 1 \in 0..n
      BY <3>1
    <3>3. 1..i \subseteq 1..n /\ i \in 1..i
      BY <3>1
    <3> QED BY <3>2, <3>3
  <2>2. T[1..i] = JoinEdges(T[1..(i - 1)], s[i], lists)
    BY <1>11, <2>1, MaxOfPrefix
  <2> QED BY <2>1, <2>2
<1> HIDE DEF f
<1>14. \A i \in 0..n : f[i] \in V
  <2> DEFINE Bad == {i \in 0..n : f[i] \notin V}
  <2>1. SUFFICES ASSUME Bad # {} PROVE FALSE
    OBVIOUS
  <2>2. 0 \notin Bad /\ Bad \in SUBSET (0..n)
    BY <1>0, <1>12
  <2>3. PICK m \in 1..n : m \in Bad /\ m - 1 \in 0..n /\ m - 1 \notin Bad
    <3> HIDE DEF Bad
    <3> QED BY <1>1, <2>1, <2>2, FirstFailure
  <2>4. f[m - 1] \in V /\ s[m] \in Places /\ f[m] = JoinEdges(f[m - 1], s[m], lists)
    BY <1>1, <1>13, <2>3
  <2> QED BY <1>3, <2>3, <2>4
<1>15. f \in [0..n -> V]
  BY <1>14 DEF f
<1>16. JoinedBy(f, s, lists, WalkedEdges(s, lists))
  BY <1>10, <1>12, <1>13, <1>15 DEF JoinedBy, V
<1> QED BY <1>16

\* Each place is of another wallet.
Apart(s) == \A i, j \in 1..Len(s) : i # j => s[i].at # s[j].at

WalletsIn(s, i) == {s[j].at : j \in 1..i}

\* The sum over the wallets of the first i places, one place after the other.
LEMMA SumOfPlaces ==
  ASSUME NEW s \in Seq(Places), Apart(s), NEW F, \A w \in Wallets : F[w] \in Int
  PROVE  /\ SumOver(F, WalletsIn(s, 0)) = 0
         /\ \A i \in 1..Len(s) : SumOver(F, WalletsIn(s, i)) = SumOver(F, WalletsIn(s, i - 1)) + F[s[i].at]
<1> DEFINE n == Len(s)
<1>1. n \in Nat /\ \A i \in 1..n : s[i] \in Places /\ s[i].at \in Wallets
  <2>1. \A i \in 1..n : s[i] \in Places
    OBVIOUS
  <2> QED BY <2>1 DEF Places
<1>2. \A i, j \in 1..n : i # j => s[i].at # s[j].at
  BY DEF Apart
<1> HIDE DEF n
<1>3. ASSUME NEW i \in 0..n
      PROVE  /\ SumOver(F, WalletsIn(s, i)) \in Int
             /\ SumOver(F, {}) = 0
             /\ \A x \in WalletsIn(s, i) : SumOver(F, WalletsIn(s, i)) = F[x] + SumOver(F, WalletsIn(s, i) \ {x})
  <2>1. WalletsIn(s, i) \subseteq Wallets
    BY <1>1 DEF WalletsIn
  <2>2. IsFiniteSet(WalletsIn(s, i))
    BY <2>1, AnalysesConstants, FS_Subset
  <2>3. \A x \in WalletsIn(s, i) : F[x] \in Int
    BY <2>1
  <2> QED BY <2>2, <2>3, SumSplits
<1>4. WalletsIn(s, 0) = {} /\ 0 \in 0..n
  BY <1>1 DEF WalletsIn
<1>5. ASSUME NEW i \in 1..n
      PROVE  SumOver(F, WalletsIn(s, i)) = SumOver(F, WalletsIn(s, i - 1)) + F[s[i].at]
  <2>1. i \in 0..n /\ i - 1 \in 0..n /\ i \in 1..i
    BY <1>1
  <2>2. s[i].at \in WalletsIn(s, i)
    BY <2>1 DEF WalletsIn
  <2>3. WalletsIn(s, i) \ {s[i].at} = WalletsIn(s, i - 1)
    <3>1. \A j \in 1..i : j \in 1..(i - 1) \/ j = i
      BY <1>1
    <3>2. \A j \in 1..(i - 1) : j \in 1..i /\ j \in 1..n /\ j # i
      BY <1>1
    <3> QED BY <1>2, <3>1, <3>2 DEF WalletsIn
  <2>4. SumOver(F, WalletsIn(s, i)) = F[s[i].at] + SumOver(F, WalletsIn(s, i - 1))
    BY <1>3, <2>1, <2>2, <2>3
  <2>5. SumOver(F, WalletsIn(s, i - 1)) \in Int /\ F[s[i].at] \in Int
    BY <1>1, <1>3, <2>1
  <2> QED BY <2>4, <2>5
<1> QED BY <1>3, <1>4, <1>5 DEF n

\* What is kept of the edges of a walk, wallet by wallet.
LEMMA WalkWeighs ==
  ASSUME NEW lists, AllLists(lists), NEW s \in Seq(Places), Apart(s), NEW dropped,
         NEW F, \A w \in Wallets : F[w] \in Int,
         \A w \in Wallets, depth \in Nat : SumOf(Drop(EdgesAt(lists, w, depth), dropped)) = F[w]
  PROVE  /\ WalkedEdges(s, lists) \in Seq(Edges)
         /\ SumOf(Drop(WalkedEdges(s, lists), dropped)) = SumOver(F, WalletsIn(s, Len(s)))
<1> DEFINE n == Len(s)
<1>1. n \in Nat /\ \A i \in 1..n : s[i] \in Places /\ s[i].at \in Wallets /\ s[i].depth + 1 \in Nat
  <2>1. \A i \in 1..n : s[i] \in Places
    OBVIOUS
  <2> QED BY <2>1 DEF Places
<1>2. PICK f : JoinedBy(f, s, lists, WalkedEdges(s, lists))
  BY EdgesFold
<1>3. /\ f \in [0..n -> Seq(Edges)] /\ f[0] = <<>> /\ f[n] = WalkedEdges(s, lists)
      /\ \A i \in 1..n : f[i] = f[i - 1] \o EdgesAt(lists, s[i].at, s[i].depth + 1)
  BY <1>2 DEF JoinedBy, JoinEdges
<1> DEFINE g == [i \in 1..n |-> F[s[i].at]]
           p == [i \in 0..n |-> SumOf(Drop(f[i], dropped))]
           r == [i \in 0..n |-> SumOver(F, WalletsIn(s, i))]
<1>4. /\ SumOver(F, WalletsIn(s, 0)) = 0
      /\ \A i \in 1..n : SumOver(F, WalletsIn(s, i)) = SumOver(F, WalletsIn(s, i - 1)) + F[s[i].at]
  BY SumOfPlaces
<1> HIDE DEF n
<1>5. \A i \in 1..n : g[i] \in Int
  BY <1>1
<1>6. p[0] = 0
  <2>1. 0 \in 0..n
    BY <1>1
  <2>2. p[0] = SumOf(Drop(<<>>, dropped))
    BY <1>3, <2>1
  <2>3. <<>> \in Seq(Edges) /\ Len(<<>>) = 0
    OBVIOUS
  <2>4. Drop(<<>>, dropped) = <<>>
    <3>1. Drop(<<>>, dropped) \in Seq(Edges) /\ Len(Drop(<<>>, dropped)) <= 0
      BY <2>3, DropKeeps
    <3> QED BY <3>1
  <2> QED BY <2>2, <2>4, SumOfEmpty
<1>7. ASSUME NEW i \in 1..n PROVE p[i] = p[i - 1] + g[i]
  <2> DEFINE e == EdgesAt(lists, s[i].at, s[i].depth + 1)
  <2>1. i \in 0..n /\ i - 1 \in 0..n
    BY <1>1
  <2>2. e \in Seq(Edges)
    BY <1>1, EdgesWeigh
  <2>3. SumOf(Drop(e, dropped)) = F[s[i].at]
    BY <1>1
  <2>4. f[i] = f[i - 1] \o e /\ f[i - 1] \in Seq(Edges)
    BY <1>3, <2>1
  <2> HIDE DEF e
  <2>5. SumOf(Drop(f[i - 1] \o e, dropped)) = SumOf(Drop(f[i - 1], dropped)) + SumOf(Drop(e, dropped))
    BY <2>2, <2>4, EdgesAreWeighed, SumOfConcat
  <2>6. p[i] = SumOf(Drop(f[i], dropped)) /\ p[i - 1] = SumOf(Drop(f[i - 1], dropped)) /\ g[i] = F[s[i].at]
    BY <2>1
  <2> HIDE DEF p, g
  <2> QED BY <2>3, <2>4, <2>5, <2>6
<1>8. r[0] = 0 /\ \A i \in 1..n : r[i] = r[i - 1] + g[i]
  <2>1. 0 \in 0..n /\ \A i \in 1..n : i \in 0..n /\ i - 1 \in 0..n
    BY <1>1
  <2> QED BY <1>4, <2>1
<1>9. p[n] = SumOf(Drop(WalkedEdges(s, lists), dropped)) /\ r[n] = SumOver(F, WalletsIn(s, n)) /\ n \in 0..n
  BY <1>1, <1>3
<1> HIDE DEF p, r, g
<1>10. p[n] = SumOver(g, 1..n) /\ r[n] = SumOver(g, 1..n)
  BY <1>1, <1>5, <1>6, <1>7, <1>8, PrefixSumIs
<1>11. f[n] \in Seq(Edges)
  BY <1>3, <1>9
<1> QED BY <1>3, <1>9, <1>10, <1>11 DEF n

-----------------------------------------------------------------------------
\* The wallets the first i delegations of a list go to.
TargetsUpTo(list, i) == {list[j].to : j \in 1..i}
Targets(list) == TargetsUpTo(list, Len(list))

\* No wallet twice.
NoneTwice(s) == \A i, j \in 1..Len(s) : i # j => s[i] # s[j]

\* One target more.
LEMMA FreshGoesOn ==
  ASSUME NEW acc \in Seq(Wallets), NEW d \in Listed, NEW seen, NEW targets, NoneTwice(acc), ToSet(acc) = targets \ seen
  PROVE  /\ NoneTwice(AlsoFresh(acc, d, seen))
         /\ Len(AlsoFresh(acc, d, seen)) <= Len(acc) + 1
         /\ ToSet(AlsoFresh(acc, d, seen)) = (targets \cup {d.to}) \ seen
<1> DEFINE next == AlsoFresh(acc, d, seen)
<1>1. CASE d.to \in seen \cup ToSet(acc)
  <2>1. next = acc
    BY <1>1 DEF AlsoFresh
  <2>2. (targets \cup {d.to}) \ seen = targets \ seen
    BY <1>1
  <2>3. Len(acc) \in Nat
    OBVIOUS
  <2> HIDE DEF next
  <2> QED BY <2>1, <2>2, <2>3 DEF next
<1>2. CASE d.to \notin seen \cup ToSet(acc)
  <2>1. next = Append(acc, d.to)
    BY <1>2 DEF AlsoFresh
  <2>2. d.to \in Wallets
    BY DEF Listed
  <2>3. /\ Len(acc) \in Nat /\ Len(next) = Len(acc) + 1 /\ next[Len(acc) + 1] = d.to
        /\ DOMAIN next = 1..(Len(acc) + 1) /\ DOMAIN acc = 1..Len(acc)
        /\ \A i \in 1..Len(acc) : next[i] = acc[i]
    BY <2>1, <2>2
  <2> HIDE DEF next
  <2>4. \A x : x \in ToSet(next) <=> x \in ToSet(acc) \/ x = d.to
    BY <2>3 DEF ToSet
  <2>5. ToSet(next) = (targets \cup {d.to}) \ seen
    BY <1>2, <2>4
  <2>6. \A i \in 1..Len(acc) : next[i] # d.to
    BY <1>2, <2>3 DEF ToSet
  <2>7. \A i \in 1..Len(next) : i \in 1..Len(acc) \/ i = Len(next)
    BY <2>3
  <2>8. NoneTwice(next)
    <3> SUFFICES ASSUME NEW i \in 1..Len(next), NEW j \in 1..Len(next), i # j PROVE next[i] # next[j]
      BY DEF NoneTwice
    <3>1. CASE i \in 1..Len(acc) /\ j \in 1..Len(acc)
      BY <2>3, <3>1 DEF NoneTwice
    <3>2. CASE i \in 1..Len(acc) /\ j = Len(next)
      BY <2>3, <2>6, <3>2
    <3>3. CASE j \in 1..Len(acc) /\ i = Len(next)
      BY <2>3, <2>6, <3>3
    <3> QED BY <2>7, <3>1, <3>2, <3>3
  <2> QED BY <2>3, <2>5, <2>8 DEF next
<1> QED BY <1>1, <1>2

\* The targets of a list that were not seen, each once.
LEMMA FreshIs ==
  ASSUME NEW s \in Seq(Listed), NEW seen
  PROVE  /\ NoneTwice(Fresh(s, seen)) /\ Len(Fresh(s, seen)) <= Len(s)
         /\ ToSet(Fresh(s, seen)) = Targets(s) \ seen
<1>a. \A acc \in Seq(Wallets), d \in Listed : \A t :
        NoneTwice(acc) /\ ToSet(acc) = t \ seen => NoneTwice(AlsoFresh(acc, d, seen))
  BY FreshGoesOn
<1>b. \A acc \in Seq(Wallets), d \in Listed : \A t :
        NoneTwice(acc) /\ ToSet(acc) = t \ seen => Len(AlsoFresh(acc, d, seen)) <= Len(acc) + 1
  BY FreshGoesOn
<1>c. \A acc \in Seq(Wallets), d \in Listed : \A t :
        NoneTwice(acc) /\ ToSet(acc) = t \ seen =>
          ToSet(AlsoFresh(acc, d, seen)) = (t \cup {d.to}) \ seen
  BY FreshGoesOn
<1> DEFINE n == Len(s)
<1>1. n \in Nat /\ \A i \in 1..n : s[i] \in Listed
  OBVIOUS
<1>2. PICK f : FreshBy(f, s, seen, Fresh(s, seen))
  BY FreshFolds
<1>3. /\ f \in [0..n -> Seq(Wallets)] /\ f[0] = <<>> /\ f[n] = Fresh(s, seen)
      /\ \A i \in 1..n : f[i] = AlsoFresh(f[i - 1], s[i], seen)
  BY <1>2 DEF FreshBy
<1> HIDE DEF n
<1> DEFINE Good(i) == NoneTwice(f[i]) /\ Len(f[i]) <= i /\ ToSet(f[i]) = TargetsUpTo(s, i) \ seen
           Bad == {i \in 0..n : ~Good(i)}
<1>4. Good(0)
  <2>1. Len(<<>>) = 0 /\ ToSet(<<>>) = {} /\ 1..0 = {}
    BY DEF ToSet
  <2> QED BY <1>3, <2>1 DEF NoneTwice, TargetsUpTo
<1>5. ASSUME NEW i \in 1..n, i - 1 \in 0..n, Good(i - 1) PROVE Good(i)
  <2> DEFINE acc == f[i - 1]
             next == AlsoFresh(acc, s[i], seen)
  <2>1. acc \in Seq(Wallets) /\ s[i] \in Listed /\ f[i] = next
    BY <1>1, <1>3, <1>5
  <2>2. NoneTwice(acc) /\ Len(acc) <= i - 1 /\ ToSet(acc) = TargetsUpTo(s, i - 1) \ seen
    BY <1>5
  <2> HIDE DEF acc
  <2>3. /\ NoneTwice(next) /\ Len(next) <= Len(acc) + 1
        /\ ToSet(next) = (TargetsUpTo(s, i - 1) \cup {s[i].to}) \ seen
    <3> DEFINE d == s[i]
    <3>2. acc \in Seq(Wallets) /\ d \in Listed
      BY <2>1
    <3> HIDE DEF d
    <3>3. /\ NoneTwice(AlsoFresh(acc, d, seen))
          /\ Len(AlsoFresh(acc, d, seen)) <= Len(acc) + 1
          /\ ToSet(AlsoFresh(acc, d, seen)) = (TargetsUpTo(s, i - 1) \cup {d.to}) \ seen
      BY <1>a, <1>b, <1>c, <2>2, <3>2, Zenon
    <3> QED BY <3>3 DEF next, d
  <2>4. TargetsUpTo(s, i - 1) \cup {s[i].to} = TargetsUpTo(s, i)
    <3>1. \A j \in 1..i : j \in 1..(i - 1) \/ j = i
      BY <1>1
    <3>2. i \in 1..i /\ \A j \in 1..(i - 1) : j \in 1..i
      BY <1>1
    <3> QED BY <3>1, <3>2 DEF TargetsUpTo
  <2>5. next \in Seq(Wallets)
    BY <2>1 DEF AlsoFresh, Listed
  <2>6. Len(next) \in Nat /\ Len(acc) \in Nat /\ i \in Nat
    BY <1>1, <2>1, <2>5
  <2> HIDE DEF next
  <2>7. Len(next) <= i
    BY <2>2, <2>3, <2>6
  <2> QED BY <2>1, <2>3, <2>4, <2>7
<1> HIDE DEF Good
<1>6. Bad = {}
  <2> SUFFICES ASSUME Bad # {} PROVE FALSE
    OBVIOUS
  <2>1. 0 \notin Bad /\ Bad \in SUBSET (0..n)
    BY <1>4
  <2>2. PICK m \in 1..n : m \in Bad /\ m - 1 \in 0..n /\ m - 1 \notin Bad
    <3> HIDE DEF Bad
    <3> QED BY <1>1, <2>1, FirstFailure
  <2> QED BY <1>5, <2>2
<1>7. n \in 0..n
  BY <1>1
<1>8. Good(n)
  BY <1>6, <1>7
<1> QED BY <1>3, <1>8 DEF Good, Targets, n

\* A list no longer than Branching: the walk takes all of them.
LEMMA TargetsAre ==
  ASSUME NEW list \in Seq(Listed), Len(list) <= Branching, NEW seen
  PROVE  /\ newTargets(list, seen) \in Seq(Wallets)
         /\ NoneTwice(newTargets(list, seen))
         /\ ToSet(newTargets(list, seen)) = Targets(list) \ seen
<1> DEFINE fresh == Fresh(list, seen)
           m == Least(Branching, Len(fresh))
<1>1. newTargets(list, seen) = SubSeq(fresh, 1, m)
  BY DEF newTargets, Fresh
<1>2. fresh \in Seq(Wallets) /\ NoneTwice(fresh) /\ Len(fresh) <= Len(list) /\ ToSet(fresh) = Targets(list) \ seen
  BY FreshTyped, FreshIs
<1>3. Len(list) \in Nat
  OBVIOUS
<1> HIDE DEF fresh
<1>4. Len(fresh) \in Nat /\ Branching \in Nat
  BY <1>2, BranchingPositive
<1>5. m = Len(fresh)
  BY <1>2, <1>3, <1>4 DEF Least
<1> HIDE DEF m
<1>6. SubSeq(fresh, 1, Len(fresh)) = fresh
  BY <1>2
<1> QED BY <1>1, <1>2, <1>5, <1>6

-----------------------------------------------------------------------------
(***************************************************************************)
(* The breadth-first walk, when no list is longer than what it follows.    *)
(***************************************************************************)
Short(lists) == \A w \in Wallets : Len(lists[w]) <= Branching

Seen(walk) == DOMAIN walk.depth
Waiting(walk) == WalletsIn(walk.queue, Len(walk.queue))
Done(walk) == Seen(walk) \ Waiting(walk)

\* The turn from walk to then: it takes the place `here` and queues the wallets `next`.
Takes(walk, then, here, next) ==
  /\ Len(walk.queue) > 0 /\ here = walk.queue[1]
  /\ next \in Seq(Wallets) /\ NoneTwice(next) /\ \A i \in 1..Len(next) : next[i] \notin Seen(walk)
  /\ Len(then.queue) = (Len(walk.queue) - 1) + Len(next)
  /\ \A i \in 1..(Len(walk.queue) - 1) : then.queue[i] = walk.queue[i + 1]
  /\ \A i \in 1..Len(next) :
       /\ then.queue[(Len(walk.queue) - 1) + i].at = next[i]
       /\ then.queue[(Len(walk.queue) - 1) + i].depth = here.depth + 1
  /\ Seen(then) = Seen(walk) \cup ToSet(next)
  /\ \A w \in Seen(walk) : then.depth[w] = walk.depth[w]
  /\ \A i \in 1..Len(next) : then.depth[next[i]] = here.depth + 1

\* Above the maximal depth it queues every target not seen and expands the place.
Expands(walk, then, here, next, lists, maxDepth) ==
  IF here.depth >= maxDepth
    THEN next = <<>> /\ then.expanded = walk.expanded
    ELSE /\ ToSet(next) = Targets(lists[here.at]) \ Seen(walk)
         /\ then.expanded = Append(walk.expanded, here)

\* One sequence after the other.
LEMMA ConcatIs ==
  ASSUME NEW S, NEW s \in Seq(S), NEW t \in Seq(S)
  PROVE  /\ Len(s \o t) = Len(s) + Len(t)
         /\ \A i \in 1..Len(s) : (s \o t)[i] = s[i]
         /\ \A i \in 1..Len(t) : (s \o t)[Len(s) + i] = t[i]
OBVIOUS

\* A turn does both.
LEMMA TurnTakes ==
  ASSUME NEW walk \in Walks, NEW lists, AllLists(lists), Short(lists), NEW maxDepth, walk.queue # <<>>
  PROVE  \E here \in Places : \E next :
           /\ Takes(walk, WalkTurn(walk, lists, maxDepth), here, next)
           /\ Expands(walk, WalkTurn(walk, lists, maxDepth), here, next, lists, maxDepth)
<1> DEFINE q == walk.queue
           m == Len(q)
           here == Head(q)
           next == IF here.depth >= maxDepth THEN <<>> ELSE newTargets(lists[here.at], DOMAIN walk.depth)
           new == [i \in DOMAIN next |-> [at |-> next[i], depth |-> here.depth + 1]]
           d == [w \in DOMAIN walk.depth \cup ToSet(next) |->
                    IF w \in DOMAIN walk.depth THEN walk.depth[w] ELSE here.depth + 1]
           e == IF here.depth >= maxDepth THEN walk.expanded ELSE Append(walk.expanded, here)
           then == WalkTurn(walk, lists, maxDepth)
<1>1. q \in Seq(Places) /\ m \in Nat /\ m > 0
  <2>1. q \in Seq(Places)
    BY DEF Walks
  <2> HIDE DEF q
  <2> QED BY <2>1 DEF q
<1>2. here = q[1] /\ here \in Places /\ here.at \in Wallets /\ here.depth \in Nat
  <2>1. here = q[1] /\ q[1] \in Places
    BY <1>1
  <2> HIDE DEF here
  <2> QED BY <2>1 DEF Places
<1>3. then = [queue |-> Tail(q) \o new, depth |-> d, expanded |-> e]
  BY DEF WalkTurn, WalkStep
<1> HIDE DEF q, m, here
<1>4. lists[here.at] \in Seq(Listed) /\ Len(lists[here.at]) <= Branching
  BY <1>2 DEF AllLists, Short
<1>5. /\ next \in Seq(Wallets) /\ NoneTwice(next)
      /\ IF here.depth >= maxDepth THEN next = <<>>
         ELSE ToSet(next) = Targets(lists[here.at]) \ Seen(walk)
  <2>1. CASE here.depth >= maxDepth
    <3>1. next = <<>>
      BY <2>1
    <3> QED BY <2>1, <3>1 DEF NoneTwice
  <2>2. CASE ~(here.depth >= maxDepth)
    <3>1. next = newTargets(lists[here.at], DOMAIN walk.depth)
      BY <2>2
    <3> HIDE DEF next
    <3> QED BY <1>4, <2>2, <3>1, TargetsAre DEF Seen
  <2> QED BY <2>1, <2>2
<1>6. ToSet(next) \cap Seen(walk) = {}
  <2>1. here.depth >= maxDepth => ToSet(next) = {}
    BY <1>5 DEF ToSet
  <2> HIDE DEF next
  <2> QED BY <1>5, <2>1
<1> HIDE DEF next
<1>7. DOMAIN next = 1..Len(next) /\ Len(next) \in Nat /\ \A i \in 1..Len(next) : next[i] \in ToSet(next)
  BY <1>5 DEF ToSet
<1>8. \A i \in 1..Len(next) : next[i] \notin Seen(walk)
  BY <1>6, <1>7
<1>9. \A i \in 1..Len(next) : new[i].at = next[i] /\ new[i].depth = here.depth + 1
  BY <1>7
<1>10. new \in Seq(Places) /\ Len(new) = Len(next)
  <2>1. \A i \in 1..Len(next) : [at |-> next[i], depth |-> here.depth + 1] \in Places
    BY <1>2, <1>5, <1>7 DEF Places
  <2>2. new \in [1..Len(next) -> Places]
    BY <1>7, <2>1
  <2> QED BY <1>7, <2>2
<1> HIDE DEF new
<1>11. /\ Tail(q) \in Seq(Places) /\ Len(Tail(q)) = m - 1
       /\ \A i \in 1..(m - 1) : Tail(q)[i] = q[i + 1]
  BY <1>1 DEF m
<1>12. /\ Len(Tail(q) \o new) = (m - 1) + Len(next)
       /\ \A i \in 1..(m - 1) : (Tail(q) \o new)[i] = q[i + 1]
       /\ \A i \in 1..Len(next) : (Tail(q) \o new)[(m - 1) + i] = new[i]
  <2> DEFINE r == Tail(q)
  <2>1. r \in Seq(Places) /\ Len(r) = m - 1 /\ \A i \in 1..(m - 1) : r[i] = q[i + 1]
    BY <1>11
  <2> HIDE DEF r
  <2>2. /\ Len(r \o new) = (m - 1) + Len(next)
        /\ \A i \in 1..(m - 1) : (r \o new)[i] = r[i]
        /\ \A i \in 1..Len(next) : (r \o new)[(m - 1) + i] = new[i]
    <3>1. /\ Len(r \o new) = Len(r) + Len(new)
          /\ \A i \in 1..Len(r) : (r \o new)[i] = r[i]
          /\ \A i \in 1..Len(new) : (r \o new)[Len(r) + i] = new[i]
      <4>1. r \in Seq(Places) /\ new \in Seq(Places)
        BY <1>10, <2>1
      <4>2. Len(r \o new) = Len(r) + Len(new)
        BY <4>1, ConcatIs
      <4>3. \A i \in 1..Len(r) : (r \o new)[i] = r[i]
        BY <4>1, ConcatIs
      <4>4. \A i \in 1..Len(new) : (r \o new)[Len(r) + i] = new[i]
        BY <4>1, ConcatIs
      <4> QED BY <4>2, <4>3, <4>4
    <3>2. Len(r) = m - 1 /\ Len(new) = Len(next)
      BY <1>10, <2>1
    <3> QED BY <3>1, <3>2
  <2> QED BY <2>1, <2>2 DEF r
<1>13. then.queue = Tail(q) \o new /\ then.depth = d /\ then.expanded = e
  BY <1>3
<1>14. /\ DOMAIN d = Seen(walk) \cup ToSet(next)
       /\ \A w \in Seen(walk) : d[w] = walk.depth[w]
       /\ \A i \in 1..Len(next) : d[next[i]] = here.depth + 1
  BY <1>7, <1>8 DEF Seen
<1> HIDE DEF d, then
<1>15. Takes(walk, then, here, next)
  <2>1. /\ Len(then.queue) = (m - 1) + Len(next)
        /\ \A i \in 1..(m - 1) : then.queue[i] = q[i + 1]
        /\ \A i \in 1..Len(next) : /\ then.queue[(m - 1) + i].at = next[i]
                                   /\ then.queue[(m - 1) + i].depth = here.depth + 1
    BY <1>9, <1>12, <1>13
  <2>2. /\ Seen(then) = Seen(walk) \cup ToSet(next)
        /\ \A w \in Seen(walk) : then.depth[w] = walk.depth[w]
        /\ \A i \in 1..Len(next) : then.depth[next[i]] = here.depth + 1
    BY <1>13, <1>14 DEF Seen
  <2> QED BY <1>1, <1>2, <1>5, <1>8, <2>1, <2>2, Zenon DEF Takes, q, m
<1>16. Expands(walk, then, here, next, lists, maxDepth)
  BY <1>5, <1>13, Zenon DEF Expands
<1> QED BY <1>2, <1>15, <1>16 DEF then

-----------------------------------------------------------------------------
\* The queue: every place in it was seen at its depth, no wallet waits twice, the
\* places are in the order of their depths and nothing seen is deeper than a hop
\* below the first of them.
QueueInv(walk) ==
  /\ \A i \in 1..Len(walk.queue) :
       walk.queue[i].at \in Seen(walk) /\ walk.depth[walk.queue[i].at] = walk.queue[i].depth
  /\ Apart(walk.queue)
  /\ \A i, j \in 1..Len(walk.queue) : i <= j => walk.queue[i].depth <= walk.queue[j].depth
  /\ Len(walk.queue) > 0 => \A w \in Seen(walk) : walk.depth[w] <= walk.queue[1].depth + 1

\* Where the places of the new queue come from.
LEMMA PlacesOfQueue ==
  ASSUME NEW walk \in Walks, NEW then \in Walks, NEW here \in Places, NEW next, Takes(walk, then, here, next)
  PROVE  \A j \in 1..Len(then.queue) :
           \/ \E i \in 1..(Len(walk.queue) - 1) :
                /\ j = i /\ i + 1 \in 1..Len(walk.queue) /\ then.queue[j] = walk.queue[i + 1]
           \/ \E i \in 1..Len(next) :
                /\ j = (Len(walk.queue) - 1) + i
                /\ then.queue[j].at = next[i] /\ then.queue[j].depth = here.depth + 1
<1> DEFINE m == Len(walk.queue)
           k == Len(next)
<1>1. m \in Nat /\ m > 0 /\ k \in Nat
  <2>1. walk.queue \in Seq(Places) /\ next \in Seq(Wallets) /\ Len(walk.queue) > 0
    BY DEF Walks, Takes
  <2> QED BY <2>1
<1>2. /\ Len(then.queue) = (m - 1) + k
      /\ \A i \in 1..(m - 1) : then.queue[i] = walk.queue[i + 1]
      /\ \A i \in 1..k : /\ then.queue[(m - 1) + i].at = next[i]
                         /\ then.queue[(m - 1) + i].depth = here.depth + 1
  BY DEF Takes
<1> HIDE DEF m, k
<1>3. ASSUME NEW j \in 1..((m - 1) + k)
      PROVE  \/ j \in 1..(m - 1) /\ j + 1 \in 1..m
             \/ j - (m - 1) \in 1..k /\ j = (m - 1) + (j - (m - 1))
  BY <1>1
<1>4. ASSUME NEW j \in 1..((m - 1) + k)
      PROVE  \/ \E i \in 1..(m - 1) : j = i /\ i + 1 \in 1..m /\ then.queue[j] = walk.queue[i + 1]
             \/ \E i \in 1..k : /\ j = (m - 1) + i
                                /\ then.queue[j].at = next[i] /\ then.queue[j].depth = here.depth + 1
  <2>1. CASE j \in 1..(m - 1) /\ j + 1 \in 1..m
    BY <1>2, <2>1
  <2>2. CASE j - (m - 1) \in 1..k /\ j = (m - 1) + (j - (m - 1))
    <3> DEFINE i == j - (m - 1)
    <3>1. i \in 1..k /\ j = (m - 1) + i
      BY <2>2
    <3> HIDE DEF i
    <3>2. then.queue[j].at = next[i] /\ then.queue[j].depth = here.depth + 1
      BY <1>2, <3>1
    <3> QED BY <3>1, <3>2
  <2> QED BY <1>3, <2>1, <2>2
<1> QED BY <1>2, <1>4 DEF m, k

-----------------------------------------------------------------------------
\* What a walk is made of, place by place.
LEMMA WalkParts ==
  ASSUME NEW walk \in Walks
  PROVE  /\ Len(walk.queue) \in Nat /\ walk.queue \in Seq(Places)
         /\ walk.expanded \in Seq(Places) /\ Len(walk.expanded) \in Nat
         /\ \A i \in 1..Len(walk.queue) : /\ walk.queue[i] \in Places /\ walk.queue[i].at \in Wallets
                                          /\ walk.queue[i].depth \in Nat
         /\ \A i \in 1..Len(walk.expanded) : /\ walk.expanded[i] \in Places /\ walk.expanded[i].at \in Wallets
                                             /\ walk.expanded[i].depth \in Nat
         /\ Seen(walk) \subseteq Wallets /\ \A w \in Seen(walk) : walk.depth[w] \in Nat
<1>1. walk.queue \in Seq(Places) /\ walk.expanded \in Seq(Places) /\ walk.depth \in Depths
  BY DEF Walks
<1>2. \A s \in Seq(Places) : /\ Len(s) \in Nat
                             /\ \A i \in 1..Len(s) : s[i] \in Places /\ s[i].at \in Wallets /\ s[i].depth \in Nat
  <2> SUFFICES ASSUME NEW s \in Seq(Places)
               PROVE  /\ Len(s) \in Nat
                      /\ \A i \in 1..Len(s) : s[i] \in Places /\ s[i].at \in Wallets /\ s[i].depth \in Nat
    OBVIOUS
  <2>1. Len(s) \in Nat /\ \A i \in 1..Len(s) : s[i] \in Places
    OBVIOUS
  <2> QED BY <2>1 DEF Places
<1>3. PICK D \in (SUBSET Wallets) \ {{}} : walk.depth \in [D -> Nat]
  BY <1>1 DEF Depths
<1>4. Seen(walk) \subseteq Wallets /\ \A w \in Seen(walk) : walk.depth[w] \in Nat
  BY <1>3 DEF Seen
<1> QED BY <1>1, <1>2, <1>4

\* A turn keeps the queue in order.
LEMMA QueueGoesOn ==
  ASSUME NEW walk \in Walks, NEW then \in Walks, NEW here \in Places, NEW next,
         Takes(walk, then, here, next), QueueInv(walk)
  PROVE  QueueInv(then)
<1> DEFINE q == walk.queue
           r == then.queue
           m == Len(q)
           k == Len(next)
           d == walk.depth
           e == then.depth
<1>1. /\ m \in Nat /\ m > 0 /\ k \in Nat /\ Len(r) \in Nat
      /\ \A i \in 1..m : q[i].at \in Wallets /\ q[i].depth \in Nat
      /\ \A i \in 1..Len(r) : r[i].at \in Wallets /\ r[i].depth \in Nat
      /\ \A w \in Seen(walk) : d[w] \in Nat
      /\ \A w \in Seen(then) : e[w] \in Nat
  <2>1. next \in Seq(Wallets) /\ m > 0
    BY DEF Takes
  <2>2. k \in Nat
    BY <2>1
  <2> QED BY <2>1, <2>2, WalkParts
<1>2. /\ here = q[1] /\ NoneTwice(next) /\ (\A i \in 1..k : next[i] \notin Seen(walk))
      /\ Seen(then) = Seen(walk) \cup ToSet(next)
      /\ (\A w \in Seen(walk) : e[w] = d[w])
      /\ (\A i \in 1..k : e[next[i]] = here.depth + 1)
      /\ Len(r) = (m - 1) + k
  BY DEF Takes
<1>3. \A j \in 1..Len(r) :
        \/ \E i \in 1..(m - 1) : j = i /\ i + 1 \in 1..m /\ r[j] = q[i + 1]
        \/ \E i \in 1..k : j = (m - 1) + i /\ r[j].at = next[i] /\ r[j].depth = here.depth + 1
  BY PlacesOfQueue
<1>4. /\ \A i \in 1..m : q[i].at \in Seen(walk) /\ d[q[i].at] = q[i].depth
      /\ \A i, j \in 1..m : i # j => q[i].at # q[j].at
      /\ \A i, j \in 1..m : i <= j => q[i].depth <= q[j].depth
      /\ \A w \in Seen(walk) : d[w] <= here.depth + 1
  BY <1>1, <1>2 DEF QueueInv, Apart
<1>5. (\A i \in 1..k : next[i] \in ToSet(next)) /\ \A w \in ToSet(next) : \E i \in 1..k : w = next[i]
  <2>1. next \in Seq(Wallets)
    BY DEF Takes
  <2>2. DOMAIN next = 1..k
    BY <2>1
  <2> QED BY <2>2 DEF ToSet
<1>6. \A i, j \in 1..k : i # j => next[i] # next[j]
  BY <1>2 DEF NoneTwice
<1>7. here.depth \in Nat
  BY DEF Places
<1> HIDE DEF q, r, m, k, d, e
<1>8. ASSUME NEW j \in 1..Len(r) PROVE r[j].at \in Seen(then) /\ e[r[j].at] = r[j].depth
  <2>1. CASE \E i \in 1..(m - 1) : j = i /\ i + 1 \in 1..m /\ r[j] = q[i + 1]
    BY <1>2, <1>4, <2>1
  <2>2. CASE \E i \in 1..k : j = (m - 1) + i /\ r[j].at = next[i] /\ r[j].depth = here.depth + 1
    BY <1>2, <1>5, <2>2
  <2> QED BY <1>3, <2>1, <2>2
<1>9. ASSUME NEW i \in 1..Len(r), NEW j \in 1..Len(r), i # j PROVE r[i].at # r[j].at
  <2> DEFINE Old(x) == \E y \in 1..(m - 1) : x = y /\ y + 1 \in 1..m /\ r[x] = q[y + 1]
             New(x) == \E y \in 1..k : x = (m - 1) + y /\ r[x].at = next[y] /\ r[x].depth = here.depth + 1
  <2>1. CASE Old(i) /\ Old(j)
    <3>1. i + 1 \in 1..m /\ j + 1 \in 1..m /\ r[i] = q[i + 1] /\ r[j] = q[j + 1] /\ i + 1 # j + 1
      BY <1>9, <2>1
    <3> QED BY <1>4, <3>1
  <2>2. CASE Old(i) /\ New(j)
    <3>1. r[i].at \in Seen(walk) /\ r[j].at \notin Seen(walk)
      BY <1>2, <1>4, <2>2
    <3> QED BY <3>1
  <2>3. CASE New(i) /\ Old(j)
    <3>1. r[j].at \in Seen(walk) /\ r[i].at \notin Seen(walk)
      BY <1>2, <1>4, <2>3
    <3> QED BY <3>1
  <2>4. CASE New(i) /\ New(j)
    <3>1. PICK x \in 1..k : i = (m - 1) + x /\ r[i].at = next[x]
      BY <2>4
    <3>2. PICK y \in 1..k : j = (m - 1) + y /\ r[j].at = next[y]
      BY <2>4
    <3>3. x # y
      BY <1>9, <3>1, <3>2
    <3> QED BY <1>6, <3>1, <3>2, <3>3
  <2> QED BY <1>3, <2>1, <2>2, <2>3, <2>4
<1>10. ASSUME NEW j \in 1..Len(r) PROVE here.depth <= r[j].depth /\ r[j].depth <= here.depth + 1
  <2>1. CASE \E i \in 1..(m - 1) : j = i /\ i + 1 \in 1..m /\ r[j] = q[i + 1]
    <3>1. PICK i \in 1..m : r[j] = q[i]
      BY <2>1
    <3>2. 1 \in 1..m /\ 1 <= i
      BY <1>1
    <3>3. q[1].depth <= q[i].depth
      BY <1>4, <3>2
    <3>4. q[i].at \in Seen(walk) /\ d[q[i].at] = q[i].depth
      BY <1>4
    <3>5. q[i].depth <= here.depth + 1
      BY <1>4, <3>4
    <3> QED BY <1>2, <3>1, <3>3, <3>5
  <2>2. CASE \E i \in 1..k : j = (m - 1) + i /\ r[j].at = next[i] /\ r[j].depth = here.depth + 1
    BY <1>7, <2>2
  <2> QED BY <1>3, <2>1, <2>2
<1>11. ASSUME NEW i \in 1..Len(r), NEW j \in 1..Len(r), i <= j PROVE r[i].depth <= r[j].depth
  <2> DEFINE Old(x) == \E y \in 1..(m - 1) : x = y /\ y + 1 \in 1..m /\ r[x] = q[y + 1]
             New(x) == \E y \in 1..k : x = (m - 1) + y /\ r[x].at = next[y] /\ r[x].depth = here.depth + 1
  <2>1. CASE Old(i) /\ Old(j)
    <3>1. i + 1 \in 1..m /\ j + 1 \in 1..m /\ r[i] = q[i + 1] /\ r[j] = q[j + 1] /\ i + 1 <= j + 1
      BY <1>11, <2>1
    <3> QED BY <1>4, <3>1
  <2>2. CASE New(j)
    <3>1. r[j].depth = here.depth + 1
      BY <2>2
    <3> QED BY <1>10, <3>1
  <2>3. CASE New(i) /\ Old(j)
    <3>1. PICK x \in 1..k : i = (m - 1) + x
      BY <2>3
    <3>2. j \in 1..(m - 1)
      BY <2>3
    <3> QED BY <1>1, <1>11, <3>1, <3>2
  <2> QED BY <1>3, <2>1, <2>2, <2>3
<1>12. ASSUME Len(r) > 0, NEW w \in Seen(then) PROVE e[w] <= r[1].depth + 1
  <2>1. 1 \in 1..Len(r)
    BY <1>1, <1>12
  <2>2. here.depth <= r[1].depth /\ r[1].depth \in Nat
    BY <1>1, <1>10, <2>1
  <2>3. CASE w \in Seen(walk)
    <3>1. e[w] = d[w] /\ d[w] <= here.depth + 1 /\ d[w] \in Nat
      BY <1>1, <1>2, <1>4, <2>3
    <3> QED BY <1>7, <2>2, <3>1
  <2>4. CASE w \in ToSet(next)
    <3>1. e[w] = here.depth + 1
      BY <1>2, <1>5, <2>4
    <3> QED BY <1>7, <2>2, <3>1
  <2> QED BY <1>2, <2>3, <2>4
<1>13. Apart(r)
  BY <1>9 DEF Apart
<1> QED BY <1>8, <1>11, <1>12, <1>13 DEF QueueInv, r, e

\* A turn is done with one wallet more.
LEMMA DoneGoesOn ==
  ASSUME NEW walk \in Walks, NEW then \in Walks, NEW here \in Places, NEW next,
         Takes(walk, then, here, next), QueueInv(walk)
  PROVE  /\ here.at \in Seen(walk) /\ walk.depth[here.at] = here.depth
         /\ here.at \notin Done(walk) /\ Done(then) = Done(walk) \cup {here.at}
<1> DEFINE q == walk.queue
           r == then.queue
           m == Len(q)
           k == Len(next)
<1>1. /\ m \in Nat /\ m > 0 /\ k \in Nat /\ DOMAIN next = 1..k
  <2>1. next \in Seq(Wallets) /\ m > 0
    BY DEF Takes
  <2>2. k \in Nat /\ DOMAIN next = 1..k
    BY <2>1
  <2>3. m \in Nat
    BY WalkParts
  <2> QED BY <2>1, <2>2, <2>3
<1>2. /\ here = q[1] /\ (\A i \in 1..k : next[i] \notin Seen(walk))
      /\ Seen(then) = Seen(walk) \cup ToSet(next) /\ Len(r) = (m - 1) + k
      /\ \A i \in 1..(m - 1) : r[i] = q[i + 1]
      /\ \A i \in 1..k : r[(m - 1) + i].at = next[i]
  BY DEF Takes
<1>3. /\ \A i \in 1..m : q[i].at \in Seen(walk) /\ walk.depth[q[i].at] = q[i].depth
      /\ \A i, j \in 1..m : i # j => q[i].at # q[j].at
  BY DEF QueueInv, Apart
<1>4. /\ Waiting(walk) = {q[i].at : i \in 1..m}
      /\ Waiting(then) = {r[i].at : i \in 1..Len(r)}
  BY DEF Waiting, WalletsIn
<1> HIDE DEF q, r, m, k
<1>5. 1 \in 1..m
  BY <1>1
<1>6. \A w : w \in Waiting(then) <=> (w \in Waiting(walk) /\ w # here.at) \/ w \in ToSet(next)
  <2> TAKE w
  <2>1. ASSUME w \in Waiting(then) PROVE (w \in Waiting(walk) /\ w # here.at) \/ w \in ToSet(next)
    <3>1. PICK j \in 1..((m - 1) + k) : w = r[j].at
      BY <1>2, <1>4, <2>1
    <3>2. CASE j \in 1..(m - 1)
      <4>1. j + 1 \in 1..m /\ j + 1 # 1 /\ r[j] = q[j + 1]
        BY <1>1, <1>2, <3>2
      <4> QED BY <1>2, <1>3, <1>4, <1>5, <3>1, <4>1
    <3>3. CASE j \notin 1..(m - 1)
      <4>1. j - (m - 1) \in 1..k /\ j = (m - 1) + (j - (m - 1))
        BY <1>1, <3>3
      <4>2. PICK i \in 1..k : j = (m - 1) + i
        BY <4>1
      <4>3. w = next[i]
        BY <1>2, <3>1, <4>2
      <4> QED BY <1>1, <4>3 DEF ToSet
    <3> QED BY <3>2, <3>3
  <2>2. ASSUME w \in Waiting(walk), w # here.at PROVE w \in Waiting(then)
    <3>1. PICK j \in 1..m : w = q[j].at
      BY <1>4, <2>2
    <3>2. j # 1
      BY <1>2, <2>2, <3>1
    <3>3. j - 1 \in 1..(m - 1) /\ (j - 1) + 1 = j /\ j - 1 \in 1..((m - 1) + k)
      BY <1>1, <3>2
    <3>4. r[j - 1] = q[j]
      BY <1>2, <3>3
    <3> QED BY <1>2, <1>4, <3>1, <3>3, <3>4
  <2>3. ASSUME w \in ToSet(next) PROVE w \in Waiting(then)
    <3>1. PICK i \in 1..k : w = next[i]
      BY <1>1, <2>3 DEF ToSet
    <3>2. (m - 1) + i \in 1..((m - 1) + k)
      BY <1>1
    <3>3. r[(m - 1) + i].at = w
      BY <1>2, <3>1
    <3> QED BY <1>2, <1>4, <3>2, <3>3
  <2> QED BY <2>1, <2>2, <2>3
<1>7. here.at \in Seen(walk) /\ walk.depth[here.at] = here.depth /\ here.at \in Waiting(walk)
  BY <1>2, <1>3, <1>4, <1>5
<1>8. ToSet(next) \cap Seen(walk) = {}
  BY <1>1, <1>2 DEF ToSet
<1>9. Done(then) = Done(walk) \cup {here.at}
  BY <1>2, <1>6, <1>7, <1>8 DEF Done
<1> QED BY <1>7, <1>9 DEF Done

-----------------------------------------------------------------------------
\* The wallets within so many hops of a wallet.
Hop(lists) == [S \in SUBSET Wallets |-> S \cup UNION {Targets(lists[v]) : v \in S}]
Within(lists, wallet) == CHOOSE f : f \in [Nat -> SUBSET Wallets] /\ Iterates(f, {wallet}, Hop(lists))

\* The targets of a list are wallets.
LEMMA TargetsAreWallets ==
  ASSUME NEW lists, AllLists(lists), NEW w \in Wallets
  PROVE  Targets(lists[w]) \subseteq Wallets
<1> DEFINE l == lists[w]
<1>1. l \in Seq(Listed)
  BY DEF AllLists
<1> HIDE DEF l
<1>2. \A i \in 1..Len(l) : l[i] \in Listed
  BY <1>1
<1>3. \A i \in 1..Len(l) : l[i].to \in Wallets
  BY <1>2 DEF Listed
<1> QED BY <1>3 DEF Targets, TargetsUpTo, l

\* f has the wallets within a hop less and their targets.
Hops(f, lists, wallet) ==
  /\ f \in [Nat -> SUBSET Wallets] /\ f[0] = {wallet}
  /\ \A n \in Nat : f[n + 1] = f[n] \cup UNION {Targets(lists[v]) : v \in f[n]}

\* Within is what Hops says.
LEMMA WithinGoes ==
  ASSUME NEW lists, AllLists(lists), NEW wallet \in Wallets
  PROVE  Hops(Within(lists, wallet), lists, wallet)
<1> DEFINE V == SUBSET Wallets
           step == Hop(lists)
           Is(f) == f \in [Nat -> V] /\ Iterates(f, {wallet}, step)
           f == CHOOSE g : Is(g)
<1>1. \A S \in V : S \cup UNION {Targets(lists[v]) : v \in S} \in V
  BY TargetsAreWallets
<1>2. step \in [V -> V] /\ \A S \in V : step[S] = S \cup UNION {Targets(lists[v]) : v \in S}
  BY <1>1 DEF Hop
<1>3. {wallet} \in V
  OBVIOUS
<1> HIDE DEF V, step
<1>4. Iterable(V, {wallet}, step)
  BY <1>2, <1>3, IterationExists
<1>5. \E g : Is(g)
  BY <1>4 DEF Iterable
<1>6. Is(f)
  BY <1>5, Zenon
<1>7. f = Within(lists, wallet)
  BY DEF Within, V, step
<1> HIDE DEF f
<1>8. \A n \in Nat : f[n] \in V /\ f[n + 1] = step[f[n]]
  BY <1>6 DEF Iterates
<1>9. f \in [Nat -> V] /\ f[0] = {wallet}
  BY <1>6 DEF Iterates
<1>10. \A n \in Nat : f[n + 1] = f[n] \cup UNION {Targets(lists[v]) : v \in f[n]}
  BY <1>2, <1>8
<1> QED BY <1>7, <1>9, <1>10 DEF V, Hops

\* More hops reach more.
LEMMA WithinGrows ==
  ASSUME NEW lists, AllLists(lists), NEW wallet \in Wallets, NEW i \in Nat, NEW j \in Nat, i <= j
  PROVE  Within(lists, wallet)[i] \subseteq Within(lists, wallet)[j]
<1> DEFINE f == Within(lists, wallet)
           Bad == {n \in 0..(j - i) : ~(f[i] \subseteq f[i + n])}
<1>0. /\ f[0] = {wallet}
      /\ \A n \in Nat : f[n + 1] = f[n] \cup UNION {Targets(lists[v]) : v \in f[n]}
  BY WithinGoes DEF Hops
<1> HIDE DEF f
<1>1. j - i \in Nat /\ i + 0 = i /\ i + (j - i) = j
  OBVIOUS
<1>2. Bad = {}
  <2> SUFFICES ASSUME Bad # {} PROVE FALSE
    OBVIOUS
  <2>1. 0 \notin Bad /\ Bad \in SUBSET (0..(j - i))
    BY <1>1
  <2>2. PICK m \in 1..(j - i) : m \in Bad /\ m - 1 \in 0..(j - i) /\ m - 1 \notin Bad
    <3> HIDE DEF Bad
    <3> QED BY <1>1, <2>1, FirstFailure
  <2>3. i + (m - 1) \in Nat /\ (i + (m - 1)) + 1 = i + m
    BY <2>2
  <2>4. f[i] \subseteq f[i + (m - 1)]
    BY <2>2
  <2>5. f[i + (m - 1)] \subseteq f[i + m]
    BY <1>0, <2>3
  <2> QED BY <2>2, <2>4, <2>5
<1>3. j - i \in 0..(j - i)
  BY <1>1
<1>4. f[i] \subseteq f[i + (j - i)]
  BY <1>2, <1>3
<1> QED BY <1>1, <1>4 DEF f

\* Shorter lists reach less.
LEMMA WithinShorter ==
  ASSUME NEW lists, AllLists(lists), NEW fewer, AllLists(fewer),
         \A w \in Wallets : Targets(fewer[w]) \subseteq Targets(lists[w]),
         NEW wallet \in Wallets, NEW k \in Nat
  PROVE  Within(fewer, wallet)[k] \subseteq Within(lists, wallet)[k]
<1> DEFINE f == Within(lists, wallet)
           g == Within(fewer, wallet)
           Bad == {n \in 0..k : ~(g[n] \subseteq f[n])}
<1>a. Hops(f, lists, wallet)
  BY WithinGoes
<1>b. Hops(g, fewer, wallet)
  BY WithinGoes
<1> HIDE DEF f, g
<1>1. /\ f \in [Nat -> SUBSET Wallets] /\ f[0] = {wallet}
      /\ \A n \in Nat : f[n + 1] = f[n] \cup UNION {Targets(lists[v]) : v \in f[n]}
  BY <1>a DEF Hops
<1>2. /\ g \in [Nat -> SUBSET Wallets] /\ g[0] = {wallet}
      /\ \A n \in Nat : g[n + 1] = g[n] \cup UNION {Targets(fewer[v]) : v \in g[n]}
  BY <1>b DEF Hops
<1>3. Bad = {}
  <2> SUFFICES ASSUME Bad # {} PROVE FALSE
    OBVIOUS
  <2>1. 0 \notin Bad /\ Bad \in SUBSET (0..k)
    BY <1>1, <1>2
  <2>2. PICK m \in 1..k : m \in Bad /\ m - 1 \in 0..k /\ m - 1 \notin Bad
    <3> HIDE DEF Bad
    <3> QED BY <2>1, FirstFailure
  <2>3. m - 1 \in Nat /\ (m - 1) + 1 = m
    BY <2>2
  <2>4. g[m - 1] \subseteq f[m - 1] /\ g[m - 1] \subseteq Wallets
    BY <1>2, <2>2, <2>3
  <2>5. /\ f[m] = f[m - 1] \cup UNION {Targets(lists[v]) : v \in f[m - 1]}
        /\ g[m] = g[m - 1] \cup UNION {Targets(fewer[v]) : v \in g[m - 1]}
    BY <1>1, <1>2, <2>3
  <2>6. g[m] \subseteq f[m]
    BY <2>4, <2>5
  <2> QED BY <2>2, <2>6
<1>4. k \in 0..k
  OBVIOUS
<1>5. g[k] \subseteq f[k]
  BY <1>3, <1>4
<1> QED BY <1>5 DEF f, g

-----------------------------------------------------------------------------
\* What the walk expanded: done, above the maximal depth and no wallet twice.
ExpandedInv(walk, maxDepth) ==
  /\ Apart(walk.expanded)
  /\ \A i \in 1..Len(walk.expanded) :
       walk.expanded[i].at \in Done(walk) /\ walk.depth[walk.expanded[i].at] < maxDepth

\* What the walk is done with: expanded if above the maximal depth, its targets a
\* hop deeper at most.
DoneInv(walk, lists, maxDepth) ==
  \A w \in Done(walk) : walk.depth[w] < maxDepth =>
    /\ \E i \in 1..Len(walk.expanded) : walk.expanded[i].at = w
    /\ \A t \in Targets(lists[w]) : t \in Seen(walk) /\ walk.depth[t] <= walk.depth[w] + 1

\* What the walk saw is within as many hops as it is deep.
SeenInv(walk, lists, wallet) ==
  /\ wallet \in Seen(walk) /\ walk.depth[wallet] = 0
  /\ \A w \in Seen(walk) : w \in Within(lists, wallet)[walk.depth[w]]

\* A turn keeps the first.
LEMMA ExpandedGoesOn ==
  ASSUME NEW walk \in Walks, NEW then \in Walks, NEW here \in Places, NEW next, NEW lists, NEW maxDepth \in Nat,
         Takes(walk, then, here, next), Expands(walk, then, here, next, lists, maxDepth),
         QueueInv(walk), ExpandedInv(walk, maxDepth)
  PROVE  ExpandedInv(then, maxDepth)
<1> DEFINE s == walk.expanded
           t == then.expanded
           n == Len(s)
<1>1. s \in Seq(Places) /\ n \in Nat /\ \A i \in 1..n : s[i] \in Places
  BY WalkParts
<1>2. /\ here.at \in Seen(walk) /\ walk.depth[here.at] = here.depth
      /\ here.at \notin Done(walk) /\ Done(then) = Done(walk) \cup {here.at}
  BY DoneGoesOn
<1>3. /\ \A i, j \in 1..n : i # j => s[i].at # s[j].at
      /\ \A i \in 1..n : s[i].at \in Done(walk) /\ walk.depth[s[i].at] < maxDepth
  BY DEF ExpandedInv, Apart
<1>4. \A w \in Seen(walk) : then.depth[w] = walk.depth[w]
  BY DEF Takes
<1>5. Done(walk) \subseteq Seen(walk)
  BY DEF Done
<1>6. here.depth \in Nat
  BY DEF Places
<1> HIDE DEF s, t
<1>7. CASE here.depth >= maxDepth
  <2>1. t = s
    BY <1>7, Zenon DEF Expands, s, t
  <2>2. /\ \A i, j \in 1..Len(t) : i # j => t[i].at # t[j].at
        /\ \A i \in 1..Len(t) : t[i].at \in Done(then) /\ then.depth[t[i].at] < maxDepth
    BY <1>2, <1>3, <1>4, <1>5, <2>1
  <2> QED BY <2>2, Zenon DEF ExpandedInv, Apart, t
<1>8. CASE ~(here.depth >= maxDepth)
  <2>1. t = Append(s, here)
    BY <1>8, Zenon DEF Expands, s, t
  <2>2. Len(t) = n + 1 /\ t[n + 1] = here /\ \A i \in 1..n : t[i] = s[i]
    BY <1>1, <2>1
  <2>3. \A i \in 1..(n + 1) : i \in 1..n \/ i = n + 1
    BY <1>1
  <2> HIDE DEF n
  <2>4. \A i \in 1..Len(t) : t[i].at \in Done(then) /\ then.depth[t[i].at] < maxDepth
    <3> SUFFICES ASSUME NEW i \in 1..Len(t) PROVE t[i].at \in Done(then) /\ then.depth[t[i].at] < maxDepth
      OBVIOUS
    <3>1. CASE i \in 1..n
      BY <1>2, <1>3, <1>4, <1>5, <2>2, <3>1
    <3>2. CASE i = n + 1
      BY <1>2, <1>4, <1>6, <1>8, <2>2, <3>2
    <3> QED BY <2>2, <2>3, <3>1, <3>2
  <2>5. \A i \in 1..n : t[i].at # here.at
    BY <1>2, <1>3, <2>2
  <2>6. \A i, j \in 1..Len(t) : i # j => t[i].at # t[j].at
    <3> SUFFICES ASSUME NEW i \in 1..Len(t), NEW j \in 1..Len(t), i # j PROVE t[i].at # t[j].at
      OBVIOUS
    <3>1. CASE i \in 1..n /\ j \in 1..n
      BY <1>3, <2>2, <3>1
    <3>2. CASE i \in 1..n /\ j = n + 1
      BY <2>2, <2>5, <3>2
    <3>3. CASE j \in 1..n /\ i = n + 1
      BY <2>2, <2>5, <3>3
    <3> QED BY <2>2, <2>3, <3>1, <3>2, <3>3
  <2> QED BY <2>4, <2>6, Zenon DEF ExpandedInv, Apart, t
<1> QED BY <1>7, <1>8

-----------------------------------------------------------------------------
\* A turn keeps the second.
LEMMA TargetsGoOn ==
  ASSUME NEW walk \in Walks, NEW then \in Walks, NEW here \in Places, NEW next, NEW lists, AllLists(lists),
         NEW maxDepth \in Nat,
         Takes(walk, then, here, next), Expands(walk, then, here, next, lists, maxDepth),
         QueueInv(walk), DoneInv(walk, lists, maxDepth)
  PROVE  DoneInv(then, lists, maxDepth)
<1> DEFINE s == walk.expanded
           t == then.expanded
           n == Len(s)
           d == walk.depth
           e == then.depth
<1>1. s \in Seq(Places) /\ n \in Nat
  BY WalkParts
<1>2. /\ here.at \in Seen(walk) /\ d[here.at] = here.depth /\ Done(then) = Done(walk) \cup {here.at}
  BY DoneGoesOn
<1>3. /\ Seen(then) = Seen(walk) \cup ToSet(next)
      /\ \A w \in Seen(walk) : e[w] = d[w]
      /\ \A i \in 1..Len(next) : e[next[i]] = here.depth + 1
  BY DEF Takes
<1>4. \A w \in ToSet(next) : \E i \in 1..Len(next) : w = next[i]
  <2>1. next \in Seq(Wallets)
    BY DEF Takes
  <2>2. DOMAIN next = 1..Len(next)
    BY <2>1
  <2> QED BY <2>2 DEF ToSet
<1>5. Done(walk) \subseteq Seen(walk)
  BY DEF Done
<1>6. here.depth \in Nat /\ here.at \in Wallets
  BY DEF Places
<1>7. \A w \in Seen(walk) : d[w] <= here.depth + 1
  <2>1. walk.queue[1] = here /\ Len(walk.queue) > 0
    BY DEF Takes
  <2> QED BY <2>1 DEF QueueInv
<1>8. \A w \in Done(walk) : d[w] < maxDepth =>
        /\ \E i \in 1..n : s[i].at = w
        /\ \A x \in Targets(lists[w]) : x \in Seen(walk) /\ d[x] <= d[w] + 1
  BY DEF DoneInv
<1> HIDE DEF s, t, d, e
<1>9. \A i \in 1..n : i \in 1..Len(t) /\ t[i] = s[i]
  <2>1. here.depth >= maxDepth => t = s
    BY Zenon DEF Expands, s, t
  <2>2. ~(here.depth >= maxDepth) => t = Append(s, here)
    BY Zenon DEF Expands, s, t
  <2>3. Len(Append(s, here)) = n + 1 /\ \A i \in 1..n : Append(s, here)[i] = s[i]
    BY <1>1
  <2>4. \A i \in 1..n : i \in 1..(n + 1)
    BY <1>1
  <2> QED BY <2>1, <2>2, <2>3, <2>4
<1> SUFFICES ASSUME NEW w \in Done(then), e[w] < maxDepth
             PROVE  /\ \E i \in 1..Len(t) : t[i].at = w
                    /\ \A x \in Targets(lists[w]) : x \in Seen(then) /\ e[x] <= e[w] + 1
  BY DEF DoneInv, t, e
<1>10. CASE w \in Done(walk)
  <2>1. e[w] = d[w] /\ d[w] < maxDepth
    BY <1>3, <1>5, <1>10
  <2>2. PICK i \in 1..n : s[i].at = w
    BY <1>8, <1>10, <2>1
  <2>3. i \in 1..Len(t) /\ t[i].at = w
    BY <1>9, <2>2
  <2>4. \A x \in Targets(lists[w]) : x \in Seen(walk) /\ d[x] <= d[w] + 1
    BY <1>8, <1>10, <2>1
  <2>5. \A x \in Targets(lists[w]) : x \in Seen(then) /\ e[x] <= e[w] + 1
    BY <1>3, <2>1, <2>4
  <2> QED BY <2>3, <2>5
<1>11. CASE w = here.at
  <2>1. e[w] = here.depth /\ here.depth < maxDepth /\ ~(here.depth >= maxDepth)
    <3>1. e[w] = here.depth
      BY <1>2, <1>3, <1>11
    <3> QED BY <1>6, <3>1
  <2>2. t = Append(s, here) /\ ToSet(next) = Targets(lists[here.at]) \ Seen(walk)
    BY <2>1, Zenon DEF Expands, s, t
  <2>3. Len(t) = n + 1 /\ t[n + 1] = here /\ n + 1 \in 1..(n + 1)
    BY <1>1, <2>2
  <2>4. \E i \in 1..Len(t) : t[i].at = w
    BY <1>11, <2>3
  <2>5. \A x \in Targets(lists[w]) : x \in Seen(then) /\ e[x] <= e[w] + 1
    <3> SUFFICES ASSUME NEW x \in Targets(lists[w]) PROVE x \in Seen(then) /\ e[x] <= e[w] + 1
      OBVIOUS
    <3>1. CASE x \in Seen(walk)
      BY <1>3, <1>7, <2>1, <3>1
    <3>2. CASE x \in ToSet(next)
      <4>1. e[x] = here.depth + 1
        BY <1>3, <1>4, <3>2
      <4> QED BY <1>3, <1>6, <2>1, <3>2, <4>1
    <3> QED BY <1>11, <2>2, <3>1, <3>2
  <2> QED BY <2>4, <2>5
<1> QED BY <1>2, <1>10, <1>11

\* A turn keeps the third.
LEMMA SeenGoesOn ==
  ASSUME NEW walk \in Walks, NEW then \in Walks, NEW here \in Places, NEW next, NEW lists, AllLists(lists),
         NEW maxDepth \in Nat, NEW wallet \in Wallets,
         Takes(walk, then, here, next), Expands(walk, then, here, next, lists, maxDepth),
         QueueInv(walk), SeenInv(walk, lists, wallet)
  PROVE  SeenInv(then, lists, wallet)
<1> DEFINE d == walk.depth
           e == then.depth
           f == Within(lists, wallet)
<1>1. here.at \in Seen(walk) /\ d[here.at] = here.depth
  BY DoneGoesOn
<1>2. /\ Seen(then) = Seen(walk) \cup ToSet(next)
      /\ \A w \in Seen(walk) : e[w] = d[w]
      /\ \A i \in 1..Len(next) : e[next[i]] = here.depth + 1
  BY DEF Takes
<1>3. DOMAIN next = 1..Len(next)
  <2>1. next \in Seq(Wallets)
    BY DEF Takes
  <2> QED BY <2>1
<1>4. here.depth \in Nat
  BY DEF Places
<1>5. Hops(f, lists, wallet)
  BY WithinGoes
<1> HIDE DEF f
<1>6. f[here.depth + 1] = f[here.depth] \cup UNION {Targets(lists[v]) : v \in f[here.depth]}
  BY <1>4, <1>5 DEF Hops
<1>7. /\ wallet \in Seen(walk) /\ d[wallet] = 0
      /\ \A w \in Seen(walk) : w \in f[d[w]]
  BY Zenon DEF SeenInv, f
<1> HIDE DEF d, e
<1>8. ToSet(next) \subseteq Targets(lists[here.at])
  <2>1. here.depth >= maxDepth => ToSet(next) = {}
    <3>1. here.depth >= maxDepth => next = <<>>
      BY Zenon DEF Expands
    <3>2. ToSet(<<>>) = {}
      BY DEF ToSet
    <3> QED BY <3>1, <3>2
  <2>2. ~(here.depth >= maxDepth) => ToSet(next) = Targets(lists[here.at]) \ Seen(walk)
    BY Zenon DEF Expands
  <2> QED BY <2>1, <2>2
<1>9. ASSUME NEW w \in Seen(then) PROVE w \in f[e[w]]
  <2>1. CASE w \in Seen(walk)
    BY <1>2, <1>7, <2>1
  <2>2. CASE w \in ToSet(next)
    <3>1. e[w] = here.depth + 1
      BY <1>2, <1>3, <2>2 DEF ToSet
    <3>2. here.at \in f[here.depth] /\ w \in Targets(lists[here.at])
      BY <1>1, <1>7, <1>8, <2>2
    <3> QED BY <1>6, <3>1, <3>2
  <2> QED BY <1>2, <2>1, <2>2
<1>10. wallet \in Seen(then) /\ e[wallet] = 0
  BY <1>2, <1>7
<1> QED BY <1>9, <1>10, Zenon DEF SeenInv, e, f

-----------------------------------------------------------------------------
\* The invariant of a walk.
WalkInv(walk, lists, wallet, maxDepth) ==
  /\ QueueInv(walk) /\ ExpandedInv(walk, maxDepth)
  /\ DoneInv(walk, lists, maxDepth) /\ SeenInv(walk, lists, wallet)

\* It holds at the start, with nothing done.
LEMMA WalkInvStarts ==
  ASSUME NEW lists, AllLists(lists), NEW wallet \in Wallets, NEW maxDepth \in Nat
  PROVE  WalkInv(WalkStart(wallet), lists, wallet, maxDepth) /\ Done(WalkStart(wallet)) = {}
<1> DEFINE s == WalkStart(wallet)
           place == [at |-> wallet, depth |-> 0]
<1>1. /\ s.queue = <<place>> /\ s.depth = [w \in {wallet} |-> 0] /\ s.expanded = <<>>
  BY DEF WalkStart
<1>2. place.at = wallet /\ place.depth = 0
  OBVIOUS
<1> HIDE DEF s, place
<1>3. /\ Len(s.queue) = 1 /\ s.queue[1] = place /\ Len(s.expanded) = 0
      /\ Seen(s) = {wallet} /\ s.depth[wallet] = 0
  BY <1>1 DEF Seen
<1>4. \A i \in 1..Len(s.queue) : i = 1
  BY <1>3
<1>5. Done(s) = {}
  <2>1. 1 \in 1..Len(s.queue)
    BY <1>3
  <2>2. wallet \in Waiting(s)
    BY <1>2, <1>3, <2>1 DEF Waiting, WalletsIn
  <2> QED BY <1>3, <2>2 DEF Done
<1>6. QueueInv(s)
  <2>1. \A i \in 1..Len(s.queue) : s.queue[i].at = wallet /\ s.queue[i].depth = 0
    BY <1>2, <1>3, <1>4
  <2> QED BY <1>3, <1>4, <2>1 DEF QueueInv, Apart
<1>7. ExpandedInv(s, maxDepth)
  <2>1. 1..Len(s.expanded) = {}
    BY <1>3
  <2> QED BY <2>1 DEF ExpandedInv, Apart
<1>8. DoneInv(s, lists, maxDepth)
  BY <1>5 DEF DoneInv
<1>9. SeenInv(s, lists, wallet)
  <2>1. Hops(Within(lists, wallet), lists, wallet)
    BY WithinGoes
  <2>2. wallet \in Within(lists, wallet)[0]
    BY <2>1 DEF Hops
  <2> QED BY <1>3, <2>2 DEF SeenInv
<1> QED BY <1>5, <1>6, <1>7, <1>8, <1>9, Zenon DEF WalkInv, s

\* A turn keeps it, and is done with one wallet more.
LEMMA WalkInvGoesOn ==
  ASSUME NEW walk \in Walks, NEW lists, AllLists(lists), Short(lists), NEW wallet \in Wallets,
         NEW maxDepth \in Nat, WalkInv(walk, lists, wallet, maxDepth), walk.queue # <<>>
  PROVE  /\ WalkInv(WalkTurn(walk, lists, maxDepth), lists, wallet, maxDepth)
         /\ \E w \in Wallets : /\ w \notin Done(walk)
                               /\ Done(WalkTurn(walk, lists, maxDepth)) = Done(walk) \cup {w}
<1> DEFINE then == WalkTurn(walk, lists, maxDepth)
<1>1. then \in Walks
  BY TurnTyped
<1>2. PICK here \in Places :
        \E next : Takes(walk, then, here, next) /\ Expands(walk, then, here, next, lists, maxDepth)
  BY TurnTakes
<1>a. PICK next : Takes(walk, then, here, next) /\ Expands(walk, then, here, next, lists, maxDepth)
  BY <1>2
<1>3. QueueInv(walk) /\ ExpandedInv(walk, maxDepth) /\ DoneInv(walk, lists, maxDepth) /\ SeenInv(walk, lists, wallet)
  BY DEF WalkInv
<1> HIDE DEF then
<1>4. QueueInv(then)
  BY <1>1, <1>a, <1>3, QueueGoesOn
<1>5. ExpandedInv(then, maxDepth)
  BY <1>1, <1>a, <1>3, ExpandedGoesOn
<1>6. DoneInv(then, lists, maxDepth)
  BY <1>1, <1>a, <1>3, TargetsGoOn
<1>7. SeenInv(then, lists, wallet)
  BY <1>1, <1>a, <1>3, SeenGoesOn
<1>8. here.at \notin Done(walk) /\ Done(then) = Done(walk) \cup {here.at}
  BY <1>1, <1>a, <1>3, DoneGoesOn
<1>9. here.at \in Wallets
  BY DEF Places
<1> QED BY <1>4, <1>5, <1>6, <1>7, <1>8, <1>9 DEF WalkInv, then

-----------------------------------------------------------------------------
\* The walk is over after as many turns as there are wallets.
LEMMA WalkEnds ==
  ASSUME NEW lists, AllLists(lists), Short(lists), NEW wallet \in Wallets, NEW maxDepth \in Nat
  PROVE  /\ Walk(wallet, lists, maxDepth) \in Walks
         /\ WalkInv(Walk(wallet, lists, maxDepth), lists, wallet, maxDepth)
         /\ Walk(wallet, lists, maxDepth).queue = <<>>
<1> DEFINE f == WalkOf(wallet, lists, maxDepth)
           n == Cardinality(Wallets)
           Good(i) == /\ WalkInv(f[i], lists, wallet, maxDepth)
                      /\ f[i].queue = <<>> \/ Cardinality(Done(f[i])) = i
           Bad == {i \in 0..n : ~Good(i)}
<1>1. /\ f \in [Nat -> Walks] /\ f[0] = WalkStart(wallet)
      /\ \A i \in Nat : f[i + 1] = WalkTurn(f[i], lists, maxDepth)
      /\ Walk(wallet, lists, maxDepth) = f[n]
  BY WalkGoes
<1> HIDE DEF f
<1>2. n \in Nat /\ IsFiniteSet(Wallets)
  BY AnalysesConstants, FS_CardinalityType
<1> HIDE DEF n
<1>3. \A i \in Nat : f[i] \in Walks
  BY <1>1
<1>4. \A i \in Nat : Done(f[i]) \in SUBSET Wallets /\ Waiting(f[i]) \cap Done(f[i]) = {}
  <2> SUFFICES ASSUME NEW i \in Nat PROVE Done(f[i]) \in SUBSET Wallets /\ Waiting(f[i]) \cap Done(f[i]) = {}
    OBVIOUS
  <2>1. Seen(f[i]) \subseteq Wallets
    BY <1>3, WalkParts
  <2> QED BY <2>1 DEF Done
<1>5. Good(0)
  <2>1. WalkInv(f[0], lists, wallet, maxDepth) /\ Done(f[0]) = {}
    BY <1>1, WalkInvStarts
  <2>2. Cardinality(Done(f[0])) = 0
    BY <2>1, FS_EmptySet
  <2> QED BY <2>1, <2>2
<1>6. Bad = {}
  <2>1. SUFFICES ASSUME Bad # {} PROVE FALSE
    OBVIOUS
  <2>2. 0 \notin Bad /\ Bad \in SUBSET (0..n)
    <3> HIDE DEF Good
    <3> QED BY <1>5
  <2>3. PICK m \in 1..n : m \in Bad /\ m - 1 \in 0..n /\ m - 1 \notin Bad
    <3> HIDE DEF Bad
    <3> QED BY <1>2, <2>1, <2>2, FirstFailure
  <2>4. m - 1 \in Nat /\ (m - 1) + 1 = m /\ m \in Nat /\ m \in 0..n
    BY <1>2, <2>3
  <2>5. Good(m - 1)
    <3> HIDE DEF Good
    <3> QED BY <2>3
  <2> DEFINE walk == f[m - 1]
  <2>6. walk \in Walks /\ f[m] = WalkTurn(walk, lists, maxDepth)
    BY <1>1, <1>3, <2>4
  <2>7. WalkInv(walk, lists, wallet, maxDepth)
    BY <2>5
  <2>8. CASE walk.queue = <<>>
    <3>1. f[m] = walk
      BY <2>6, <2>8, Zenon DEF WalkTurn
    <3>2. Good(m)
      BY <2>7, <2>8, <3>1
    <3> HIDE DEF Good
    <3> QED BY <2>3, <3>2
  <2>9. CASE walk.queue # <<>>
    <3>1. Cardinality(Done(walk)) = m - 1
      BY <2>5, <2>9
    <3> HIDE DEF walk
    <3>2. WalkInv(f[m], lists, wallet, maxDepth)
      BY <2>6, <2>7, <2>9, WalkInvGoesOn
    <3>3. \E w \in Wallets : w \notin Done(walk) /\ Done(WalkTurn(walk, lists, maxDepth)) = Done(walk) \cup {w}
      BY <2>6, <2>7, <2>9, WalkInvGoesOn
    <3>4. PICK w \in Wallets : w \notin Done(walk) /\ Done(f[m]) = Done(walk) \cup {w}
      BY <2>6, <3>3
    <3>5. IsFiniteSet(Done(walk))
      BY <1>2, <1>4, <2>4, FS_Subset DEF walk
    <3>6. Cardinality(Done(f[m])) = Cardinality(Done(walk)) + 1
      BY <3>4, <3>5, FS_AddElement
    <3>7. Good(m)
      BY <2>4, <3>1, <3>2, <3>6
    <3> HIDE DEF Good
    <3> QED BY <2>3, <3>7
  <2> HIDE DEF Good, Bad, walk
  <2> QED BY <2>8, <2>9
<1>7. n \in 0..n
  BY <1>2
<1>8. Good(n)
  <2> HIDE DEF Good
  <2> QED BY <1>6, <1>7
<1>9. f[n].queue = <<>>
  <2> DEFINE q == f[n].queue
  <2> SUFFICES ASSUME q # <<>> PROVE FALSE
    OBVIOUS
  <2>1. Cardinality(Done(f[n])) = Cardinality(Wallets)
    BY <1>8 DEF n
  <2>2. Done(f[n]) = Wallets
    BY <1>2, <1>4, <2>1, FS_Subset
  <2>3. q \in Seq(Places) /\ \A i \in 1..Len(q) : q[i].at \in Wallets
    BY <1>2, <1>3, WalkParts
  <2> HIDE DEF q
  <2>4. 1 \in 1..Len(q)
    BY <2>3
  <2>5. q[1].at \in Waiting(f[n])
    BY <2>4 DEF Waiting, WalletsIn, q
  <2> QED BY <1>2, <1>4, <2>2, <2>3, <2>4, <2>5
<1>10. f[n] \in Walks /\ WalkInv(f[n], lists, wallet, maxDepth)
  BY <1>2, <1>3, <1>8
<1> QED BY <1>1, <1>9, <1>10

-----------------------------------------------------------------------------
\* It expands, once each, the wallets within a hop less than its maximal depth.
LEMMA WalkReaches ==
  ASSUME NEW lists, AllLists(lists), Short(lists), NEW wallet \in Wallets, NEW maxDepth \in Nat, maxDepth > 0
  PROVE  LET s == Walk(wallet, lists, maxDepth).expanded
         IN  /\ s \in Seq(Places) /\ Apart(s)
             /\ WalletsIn(s, Len(s)) = Within(lists, wallet)[maxDepth - 1]
<1> DEFINE walk == Walk(wallet, lists, maxDepth)
           s == walk.expanded
           d == walk.depth
           f == Within(lists, wallet)
           last == maxDepth - 1
<1>1. walk \in Walks /\ walk.queue = <<>>
  BY WalkEnds
<1>2. WalkInv(walk, lists, wallet, maxDepth)
  BY WalkEnds
<1> HIDE DEF walk
<1>3. last \in Nat /\ \A x \in Nat : x < maxDepth <=> x <= last
  OBVIOUS
<1>4. /\ s \in Seq(Places) /\ Seen(walk) \subseteq Wallets
      /\ \A w \in Seen(walk) : d[w] \in Nat
  BY <1>1, WalkParts
<1>5. Done(walk) = Seen(walk)
  <2>1. 1..Len(walk.queue) = {}
    BY <1>1
  <2> QED BY <2>1 DEF Done, Waiting, WalletsIn
<1>6. /\ Apart(s)
      /\ \A i \in 1..Len(s) : s[i].at \in Seen(walk) /\ d[s[i].at] < maxDepth
  BY <1>2, <1>5 DEF WalkInv, ExpandedInv
<1>7. \A w \in Seen(walk) : d[w] < maxDepth =>
        /\ \E i \in 1..Len(s) : s[i].at = w
        /\ \A t \in Targets(lists[w]) : t \in Seen(walk) /\ d[t] <= d[w] + 1
  BY <1>2, <1>5 DEF WalkInv, DoneInv
<1>8. /\ wallet \in Seen(walk) /\ d[wallet] = 0
      /\ \A w \in Seen(walk) : w \in f[d[w]]
  BY <1>2 DEF WalkInv, SeenInv
<1>9. Hops(f, lists, wallet)
  BY WithinGoes
<1>10. \A i, j \in Nat : i <= j => f[i] \subseteq f[j]
  BY WithinGrows
<1> HIDE DEF s, d, f, last
<1>11. f[0] = {wallet} /\ \A k \in Nat : f[k + 1] = f[k] \cup UNION {Targets(lists[v]) : v \in f[k]}
  BY <1>9 DEF Hops
<1> DEFINE Good(k) == \A w \in f[k] : w \in Seen(walk) /\ d[w] <= k
           Bad == {k \in 0..last : ~Good(k)}
<1>12. Bad = {}
  <2>1. SUFFICES ASSUME Bad # {} PROVE FALSE
    OBVIOUS
  <2>2. Good(0)
    BY <1>8, <1>11
  <2>3. 0 \notin Bad /\ Bad \in SUBSET (0..last)
    <3> HIDE DEF Good
    <3> QED BY <2>2
  <2>4. PICK m \in 1..last : m \in Bad /\ m - 1 \in 0..last /\ m - 1 \notin Bad
    <3> HIDE DEF Bad
    <3> QED BY <1>3, <2>1, <2>3, FirstFailure
  <2>5. m - 1 \in Nat /\ (m - 1) + 1 = m /\ m \in Nat /\ m \in 0..last
    BY <1>3, <2>4
  <2>6. Good(m - 1)
    <3> HIDE DEF Good
    <3> QED BY <2>4
  <2>7. f[m] = f[m - 1] \cup UNION {Targets(lists[v]) : v \in f[m - 1]}
    BY <1>11, <2>5
  <2>8. ASSUME NEW w \in f[m] PROVE w \in Seen(walk) /\ d[w] <= m
    <3>1. CASE w \in f[m - 1]
      <4>1. w \in Seen(walk) /\ d[w] <= m - 1
        BY <2>6, <3>1
      <4>2. d[w] \in Nat
        BY <1>4, <4>1
      <4> QED BY <2>5, <4>1, <4>2
    <3>2. CASE w \in UNION {Targets(lists[v]) : v \in f[m - 1]}
      <4>1. PICK v \in f[m - 1] : w \in Targets(lists[v])
        BY <3>2
      <4>2. v \in Seen(walk) /\ d[v] <= m - 1
        BY <2>6
      <4>3. d[v] \in Nat
        BY <1>4, <4>2
      <4>4. d[v] < maxDepth
        BY <1>3, <2>4, <4>2, <4>3
      <4>5. w \in Seen(walk) /\ d[w] <= d[v] + 1
        BY <1>7, <4>1, <4>2, <4>4
      <4>6. d[w] \in Nat
        BY <1>4, <4>5
      <4> QED BY <2>5, <4>2, <4>3, <4>5, <4>6
    <3> QED BY <2>7, <3>1, <3>2
  <2>9. Good(m)
    BY <2>8
  <2> HIDE DEF Good
  <2> QED BY <2>4, <2>9
<1>13. Good(last)
  <2>1. last \in 0..last
    BY <1>3
  <2> HIDE DEF Good
  <2> QED BY <1>12, <2>1
<1>14. \A w \in f[last] : w \in WalletsIn(s, Len(s))
  <2> SUFFICES ASSUME NEW w \in f[last] PROVE w \in WalletsIn(s, Len(s))
    OBVIOUS
  <2>1. w \in Seen(walk) /\ d[w] < maxDepth
    BY <1>3, <1>4, <1>13
  <2>2. \E i \in 1..Len(s) : s[i].at = w
    BY <1>7, <2>1
  <2> QED BY <2>2 DEF WalletsIn
<1>15. \A i \in 1..Len(s) : s[i].at \in f[last]
  <2> SUFFICES ASSUME NEW i \in 1..Len(s) PROVE s[i].at \in f[last]
    OBVIOUS
  <2>1. s[i].at \in Seen(walk) /\ d[s[i].at] < maxDepth
    BY <1>6
  <2>2. d[s[i].at] \in Nat /\ s[i].at \in f[d[s[i].at]]
    BY <1>4, <1>8, <2>1
  <2>3. d[s[i].at] <= last
    BY <1>3, <2>1, <2>2
  <2> QED BY <1>3, <1>10, <2>2, <2>3
<1>16. WalletsIn(s, Len(s)) = f[last]
  BY <1>14, <1>15 DEF WalletsIn
<1> QED BY <1>4, <1>6, <1>16 DEF walk, s, f, last

-----------------------------------------------------------------------------
\* What fetchDelegationEdges drops of a page and of the payments, and payments as delegations.
CallsByOthers(page, w) == {page[i] : i \in {j \in DOMAIN page : ~(page[j].kind # "pay" /\ page[j].sponsor = w)}}
PaidToSelf(sent, w) == {sent[i] : i \in {j \in DOMAIN sent : ~(sent[j].to # w)}}
NotPaidAway(page, w) == {page[i] : i \in {j \in DOMAIN page : ~(page[j].kind = "pay" /\ page[j].agent # w)}}
Bare(paid) == [i \in DOMAIN paid |-> [to |-> paid[i].agent, amount |-> paid[i].amount]]

\* What the graph may take for the delegations of a wallet.
LEMMA EdgeListIs ==
  ASSUME NEW w, NEW read
  PROVE  fetchDelegationEdges(w, read) \in
           {<<>>, FoldLeft(replayStep, <<>>, Drop(read.page, CallsByOthers(read.page, w))),
            Bare(Drop(read.page, NotPaidAway(read.page, w))),
            Drop(read.transfers, PaidToSelf(read.transfers, w))}
<1> DEFINE list == FoldLeft(replayStep, <<>>, Drop(read.page, CallsByOthers(read.page, w)))
           paid == Drop(read.page, NotPaidAway(read.page, w))
           kept == Drop(read.transfers, PaidToSelf(read.transfers, w))
           bare == Bare(paid)
<1>1. fetchDelegationEdges(w, read) =
        IF read.app = "threw" THEN <<>>
        ELSE IF read.app = "ok" /\ HasCalls(read.page) THEN list
        ELSE IF read.app = "ok" /\ paid # <<>> THEN bare
        ELSE IF read.legacy = "ok" THEN kept
        ELSE <<>>
  BY DEF fetchDelegationEdges, Only, SentElsewhere, CallsByOthers, PaidToSelf, NotPaidAway, Bare
<1> HIDE DEF list, bare, paid, kept
<1>2. fetchDelegationEdges(w, read) \in {<<>>, list, bare, kept}
  BY <1>1
<1> QED BY <1>2 DEF list, bare, paid, kept

\* The lists of the trust graph are typed.
LEMMA EdgeListTyped ==
  ASSUME ChainInOrder(chain, now), NEW w
  PROVE  fetchDelegationEdges(w, GoodRead(w)) \in Seq(Listed)
<1> DEFINE page == RegistryPage(w, FALSE)
           sent == TransfersOf(w)
           calls == Drop(page, CallsByOthers(page, w))
           paid == Drop(page, NotPaidAway(page, w))
           kept == Drop(sent, PaidToSelf(sent, w))
           list == FoldLeft(replayStep, <<>>, calls)
<1>1. GoodRead(w).page = page /\ GoodRead(w).transfers = sent
  BY DEF GoodRead, ReadOf
<1>2. page \in Seq(Calls) /\ sent \in Seq(Listed)
  BY PageIs, TransfersTyped
<1> HIDE DEF page, sent
<1>3. calls \in Seq(Calls) /\ kept \in Seq(Listed) /\ paid \in Seq(Calls)
  BY <1>2, DropKeeps
<1>4. list \in Seq(Listed)
  BY <1>3, ReplayLeaves
<1>5. <<>> \in Seq(Listed)
  OBVIOUS
<1>6. Bare(paid) \in Seq(Listed)
  <2> HIDE DEF paid
  <2>1. DOMAIN paid = 1..Len(paid) /\ Len(paid) \in Nat /\ \A i \in DOMAIN paid : paid[i] \in Calls
    BY <1>3
  <2>2. \A i \in DOMAIN paid : [to |-> paid[i].agent, amount |-> paid[i].amount] \in Listed
    BY <2>1 DEF Calls, Listed
  <2> QED BY <2>1, <2>2 DEF Bare
<1>7. fetchDelegationEdges(w, GoodRead(w)) \in {<<>>, list, Bare(paid), kept}
  BY <1>1, EdgeListIs
<1> HIDE DEF list, paid, kept
<1> QED BY <1>3, <1>4, <1>5, <1>6, <1>7

\* All of them.
LEMMA ListsTyped ==
  ASSUME ChainInOrder(chain, now)
  PROVE  AllLists(Lists)
BY EdgeListTyped DEF Lists, AllLists

-----------------------------------------------------------------------------
\* The delegations to a wallet, and the lists without it.
Towards(lost) == {d \in Listed : d.to = lost}
Pruned(lists, lost) == [w \in Wallets |-> IF w = lost THEN <<>> ELSE Drop(lists[w], Towards(lost))]

\* They are lists, no longer and with no new targets.
LEMMA PrunedIs ==
  ASSUME NEW lists, AllLists(lists), Short(lists), NEW lost
  PROVE  /\ AllLists(Pruned(lists, lost)) /\ Short(Pruned(lists, lost))
         /\ \A w \in Wallets : Targets(Pruned(lists, lost)[w]) \subseteq Targets(lists[w])
<1> DEFINE p == Pruned(lists, lost)
<1>1. \A w \in Wallets : p[w] = IF w = lost THEN <<>> ELSE Drop(lists[w], Towards(lost))
  BY DEF Pruned
<1>2. p = [w \in Wallets |-> p[w]]
  BY DEF Pruned
<1>3. \A w \in Wallets : lists[w] \in Seq(Listed) /\ Len(lists[w]) <= Branching
  BY DEF AllLists, Short
<1> HIDE DEF p
<1>4. ASSUME NEW w \in Wallets
      PROVE  /\ p[w] \in Seq(Listed) /\ Len(p[w]) <= Branching
             /\ Targets(p[w]) \subseteq Targets(lists[w])
  <2> DEFINE l == lists[w]
             t == Drop(l, Towards(lost))
  <2>1. CASE w = lost
    <3>1. p[w] = <<>>
      BY <1>1, <2>1
    <3>2. Len(<<>>) = 0 /\ <<>> \in Seq(Listed) /\ 1..0 = {}
      OBVIOUS
    <3>3. Targets(<<>>) = {}
      BY <3>2 DEF Targets, TargetsUpTo
    <3>4. Len(<<>>) <= Branching
      BY <3>2, BranchingPositive
    <3> QED BY <3>1, <3>2, <3>3, <3>4
  <2>2. CASE w # lost
    <3>1. p[w] = t /\ l \in Seq(Listed) /\ Len(l) <= Branching
      BY <1>1, <1>3, <2>2
    <3> HIDE DEF l
    <3>2. t \in Seq(Listed) /\ Len(t) <= Len(l) /\ ToSet(t) = ToSet(l) \ Towards(lost)
      BY <3>1, DropKeeps
    <3> HIDE DEF t
    <3>3. Len(t) <= Branching
      BY <3>1, <3>2, BranchingPositive
    <3>4. DOMAIN t = 1..Len(t) /\ DOMAIN l = 1..Len(l)
      BY <3>1, <3>2
    <3>5. \A i \in 1..Len(t) : \E j \in 1..Len(l) : t[i] = l[j]
      BY <3>2, <3>4 DEF ToSet
    <3>6. Targets(t) \subseteq Targets(l)
      BY <3>5 DEF Targets, TargetsUpTo
    <3> QED BY <3>1, <3>2, <3>3, <3>6 DEF l
  <2> QED BY <2>1, <2>2
<1>5. AllLists(p)
  BY <1>2, <1>4 DEF AllLists
<1>6. Short(p)
  BY <1>4 DEF Short
<1> QED BY <1>4, <1>5, <1>6 DEF p

\* More is summed over more.
LEMMA SumOverSubset ==
  ASSUME NEW T, IsFiniteSet(T), NEW S \in SUBSET T, NEW f, \A x \in T : f[x] \in Int /\ f[x] >= 0
  PROVE  SumOver(f, S) <= SumOver(f, T)
<1> DEFINE Bad == {s \in SUBSET T : ~(SumOver(f, S \cap s) <= SumOver(f, s))}
<1>1. ASSUME NEW s \in SUBSET T
      PROVE  /\ SumOver(f, s) \in Int /\ SumOver(f, {}) = 0 /\ SumOver(f, S \cap s) \in Int
             /\ \A x \in s : SumOver(f, s) = f[x] + SumOver(f, s \ {x})
             /\ \A x \in S \cap s : SumOver(f, S \cap s) = f[x] + SumOver(f, (S \cap s) \ {x})
  <2>1. IsFiniteSet(s) /\ IsFiniteSet(S \cap s)
    BY FS_Subset
  <2>2. \A x \in s : f[x] \in Int
    OBVIOUS
  <2>3. \A x \in S \cap s : f[x] \in Int
    OBVIOUS
  <2>4. /\ SumOver(f, s) \in Int
        /\ SumOver(f, {}) = 0
        /\ \A x \in s : SumOver(f, s) = f[x] + SumOver(f, s \ {x})
    BY <2>1, <2>2, SumSplits
  <2>5. /\ SumOver(f, S \cap s) \in Int
        /\ \A x \in S \cap s : SumOver(f, S \cap s) = f[x] + SumOver(f, (S \cap s) \ {x})
    BY <2>1, <2>3, SumSplits
  <2> QED BY <2>4, <2>5
<1>2. Bad = {}
  <2>1. SUFFICES ASSUME Bad # {} PROVE FALSE
    OBVIOUS
  <2>2. {} \notin Bad
    <3>1. S \cap {} = {} /\ {} \in SUBSET T
      OBVIOUS
    <3>2. SumOver(f, {}) = 0
      BY <1>1, <3>1
    <3> QED BY <3>1, <3>2
  <2>3. PICK s \in Bad : s # {} /\ \A x \in s : s \ {x} \in SUBSET T /\ s \ {x} \notin Bad
    <3>1. Bad \in SUBSET (SUBSET T)
      OBVIOUS
    <3> HIDE DEF Bad
    <3> QED BY <2>1, <2>2, <3>1, FirstSubset
  <2>4. PICK x \in s : s \ {x} \in SUBSET T /\ s \ {x} \notin Bad
    BY <2>3
  <2>5. SumOver(f, S \cap (s \ {x})) <= SumOver(f, s \ {x})
    BY <2>4
  <2>6. s \in SUBSET T /\ f[x] \in Int /\ f[x] >= 0 /\ x \in T
    BY <2>3, <2>4
  <2>7. SumOver(f, s) = f[x] + SumOver(f, s \ {x})
    BY <1>1, <2>4, <2>6
  <2>8. SumOver(f, s \ {x}) \in Int /\ SumOver(f, S \cap (s \ {x})) \in Int
    BY <1>1, <2>4
  <2>9. CASE x \in S
    <3>1. x \in S \cap s /\ S \cap (s \ {x}) = (S \cap s) \ {x}
      BY <2>4, <2>9
    <3>2. SumOver(f, S \cap s) = f[x] + SumOver(f, (S \cap s) \ {x})
      BY <1>1, <2>6, <3>1
    <3>3. SumOver(f, S \cap s) <= SumOver(f, s)
      BY <2>5, <2>6, <2>7, <2>8, <3>1, <3>2
    <3> QED BY <2>3, <3>3
  <2>10. CASE x \notin S
    <3>1. S \cap (s \ {x}) = S \cap s
      BY <2>10
    <3>2. SumOver(f, S \cap s) <= SumOver(f, s)
      BY <2>5, <2>6, <2>7, <2>8, <3>1
    <3> QED BY <2>3, <3>2
  <2> QED BY <2>9, <2>10
<1>3. S \cap T = S /\ T \in SUBSET T
  OBVIOUS
<1>4. SumOver(f, S \cap T) <= SumOver(f, T)
  BY <1>2, <1>3
<1> QED BY <1>3, <1>4

-----------------------------------------------------------------------------
\* The edges a lost sponsor is an end of, and what the wallets have left without them.
Ends(lost) == {e \in Edges : lost \in {e.from, e.to}}
LeftOf(lists, lost) == [w \in Wallets |-> IF w = lost THEN 0 ELSE SumOf(Drop(lists[w], Towards(lost)))]

\* What is left is a number.
LEMMA LeftIs ==
  ASSUME NEW lists, AllLists(lists), NEW lost, NEW w \in Wallets
  PROVE  LeftOf(lists, lost)[w] \in Nat
<1>1. lists[w] \in Seq(Listed)
  BY DEF AllLists
<1>2. SumOf(Drop(lists[w], Towards(lost))) \in Nat
  BY <1>1, EdgesAreWeighed, SumOfDrop
<1> QED BY <1>2 DEF LeftOf

\* Nothing is left when everything is dropped.
LEMMA NothingLeft ==
  ASSUME NEW S, NEW s \in Seq(S)
  PROVE  SumOf(Drop(s, S)) = 0
<1> DEFINE t == Drop(s, S)
<1>1. t \in Seq(S) /\ ToSet(t) = ToSet(s) \ S
  BY DropKeeps
<1>2. ToSet(s) \subseteq S
  BY DEF ToSet
<1> HIDE DEF t
<1>3. \A i \in DOMAIN t : t[i] \in ToSet(t)
  BY DEF ToSet
<1>4. DOMAIN t = {}
  BY <1>1, <1>2, <1>3
<1>5. t = <<>>
  BY <1>1, <1>4
<1> QED BY <1>5, SumOfEmpty DEF t

\* What is kept of the edges of one wallet.
LEMMA EdgesLeft ==
  ASSUME NEW lists, AllLists(lists), NEW lost, NEW w \in Wallets, NEW depth \in Nat
  PROVE  SumOf(Drop(EdgesAt(lists, w, depth), Ends(lost))) = LeftOf(lists, lost)[w]
<1> DEFINE l == lists[w]
           e == EdgesAt(lists, w, depth)
<1>1. l \in Seq(Listed)
  BY DEF AllLists
<1>2. \A i \in 1..Len(l) : l[i] \in Listed
  BY <1>1
<1>3. e \in Seq(Edges)
  BY EdgesWeigh
<1>4. \A a, b : DroppedAlike(e, a, l, b) => SumOf(Drop(e, a)) = SumOf(Drop(l, b))
  BY EdgesWeigh
<1>5. Len(e) = Len(l) /\ \A i \in 1..Len(l) : e[i].from = w /\ e[i].to = l[i].to
  BY <1>1 DEF EdgesAt
<1>6. \A i \in 1..Len(l) : e[i] \in Edges
  BY <1>3, <1>5
<1>7. LeftOf(lists, lost)[w] = IF w = lost THEN 0 ELSE SumOf(Drop(l, Towards(lost)))
  BY DEF LeftOf
<1> HIDE DEF l, e
<1>8. CASE w = lost
  <2>1. \A i \in 1..Len(l) : e[i] \in Ends(lost) <=> l[i] \in Listed
    BY <1>2, <1>5, <1>6, <1>8 DEF Ends
  <2>2. SumOf(Drop(e, Ends(lost))) = SumOf(Drop(l, Listed))
    BY <1>4, <2>1 DEF DroppedAlike
  <2>3. SumOf(Drop(l, Listed)) = 0
    BY <1>1, NothingLeft
  <2> QED BY <1>7, <1>8, <2>2, <2>3 DEF e
<1>9. CASE w # lost
  <2>1. \A i \in 1..Len(l) : e[i] \in Ends(lost) <=> l[i] \in Towards(lost)
    BY <1>2, <1>5, <1>6, <1>9 DEF Ends, Towards
  <2>2. SumOf(Drop(e, Ends(lost))) = SumOf(Drop(l, Towards(lost)))
    BY <1>4, <2>1 DEF DroppedAlike
  <2> QED BY <1>7, <1>9, <2>2 DEF e
<1> QED BY <1>8, <1>9

\* All of the edges of one wallet in the graph without the sponsor: as much.
LEMMA PrunedWeighs ==
  ASSUME NEW lists, AllLists(lists), Short(lists), NEW lost, NEW w \in Wallets, NEW depth \in Nat
  PROVE  SumOf(Drop(EdgesAt(Pruned(lists, lost), w, depth), {})) = LeftOf(lists, lost)[w]
<1> DEFINE p == Pruned(lists, lost)
<1>1. AllLists(p)
  BY PrunedIs
<1>2. p[w] = IF w = lost THEN <<>> ELSE Drop(lists[w], Towards(lost))
  BY DEF Pruned
<1> HIDE DEF p
<1>3. p[w] \in Seq(Listed)
  BY <1>1 DEF AllLists
<1>4. DroppedAlike(EdgesAt(p, w, depth), {}, p[w], {})
  BY DEF DroppedAlike
<1>5. SumOf(Drop(EdgesAt(p, w, depth), {})) = SumOf(Drop(p[w], {}))
  <2>1. \A a, b : DroppedAlike(EdgesAt(p, w, depth), a, p[w], b)
                  => SumOf(Drop(EdgesAt(p, w, depth), a)) = SumOf(Drop(p[w], b))
    BY <1>1, EdgesWeigh
  <2> QED BY <1>4, <2>1, Zenon
<1>6. SumOf(Drop(p[w], {})) = SumOf(p[w])
  BY <1>3, EdgesAreWeighed, SumOfWhole
<1>7. SumOf(p[w]) = LeftOf(lists, lost)[w]
  BY <1>2, SumOfEmpty DEF LeftOf
<1> QED BY <1>5, <1>6, <1>7 DEF p

\* The walk without the sponsor finds no more than what is left of the walk with it.
LEMMA LossIsNoLess ==
  ASSUME NEW lists, AllLists(lists), Short(lists), NEW lost, NEW wallet \in Wallets,
         NEW maxDepth \in Nat, maxDepth > 0
  PROVE  LET fewer == Pruned(lists, lost)
             found == WalkedEdges(Walk(wallet, fewer, maxDepth).expanded, fewer)
             edges == WalkedEdges(Walk(wallet, lists, maxDepth).expanded, lists)
         IN  /\ edges \in Seq(Edges) /\ found \in Seq(Edges)
             /\ SumOf(found) <= SumOf(Drop(edges, Ends(lost)))
<1> DEFINE fewer == Pruned(lists, lost)
           s == Walk(wallet, lists, maxDepth).expanded
           t == Walk(wallet, fewer, maxDepth).expanded
           edges == WalkedEdges(s, lists)
           found == WalkedEdges(t, fewer)
           F == LeftOf(lists, lost)
           last == maxDepth - 1
           more == Within(lists, wallet)[last]
           less == Within(fewer, wallet)[last]
<1>1. AllLists(fewer) /\ Short(fewer) /\ \A w \in Wallets : Targets(fewer[w]) \subseteq Targets(lists[w])
  BY PrunedIs
<1>2. \A w \in Wallets : F[w] \in Nat
  BY LeftIs
<1>3. \A w \in Wallets, depth \in Nat : SumOf(Drop(EdgesAt(lists, w, depth), Ends(lost))) = F[w]
  BY EdgesLeft
<1>4. \A w \in Wallets, depth \in Nat : SumOf(Drop(EdgesAt(fewer, w, depth), {})) = F[w]
  BY PrunedWeighs
<1> HIDE DEF fewer, F
<1>5. s \in Seq(Places) /\ Apart(s) /\ WalletsIn(s, Len(s)) = more
  BY WalkReaches
<1>6. t \in Seq(Places) /\ Apart(t) /\ WalletsIn(t, Len(t)) = less
  BY <1>1, WalkReaches
<1> HIDE DEF s, t
<1>7. last \in Nat
  OBVIOUS
<1>8. less \subseteq more
  BY <1>1, <1>7, WithinShorter
<1>9. more \in SUBSET Wallets
  <2>1. Hops(Within(lists, wallet), lists, wallet)
    BY WithinGoes
  <2> QED BY <1>7, <2>1 DEF Hops
<1> HIDE DEF more, less, last
<1>10. \A w \in Wallets : F[w] \in Int
  BY <1>2
<1>11. edges \in Seq(Edges) /\ SumOf(Drop(edges, Ends(lost))) = SumOver(F, more)
  BY <1>3, <1>5, <1>10, WalkWeighs
<1>12. found \in Seq(Edges) /\ SumOf(Drop(found, {})) = SumOver(F, less)
  BY <1>1, <1>4, <1>6, <1>10, WalkWeighs
<1> HIDE DEF edges, found
<1>13. SumOf(Drop(found, {})) = SumOf(found)
  BY <1>12, EdgesAreWeighed, SumOfWhole
<1>14. SumOver(F, less) <= SumOver(F, more)
  <2>1. IsFiniteSet(more)
    BY <1>9, AnalysesConstants, FS_Subset
  <2>2. \A w \in more : F[w] \in Int /\ F[w] >= 0
    BY <1>2, <1>9
  <2> QED BY <1>8, <2>1, <2>2, SumOverSubset
<1>15. SumOf(found) <= SumOf(Drop(edges, Ends(lost)))
  BY <1>11, <1>12, <1>13, <1>14
<1> QED BY <1>11, <1>12, <1>15 DEF fewer, s, t, edges, found

-----------------------------------------------------------------------------
\* Sets that agree about the elements of a sequence leave the same of it.
LEMMA DropSame ==
  ASSUME NEW S, NEW s \in Seq(S), NEW a, NEW b, \A i \in 1..Len(s) : s[i] \in a <=> s[i] \in b
  PROVE  Drop(s, a) = Drop(s, b)
<1> DEFINE t == Drop(s, a)
<1>1. t \in Seq(S) /\ Selected(t, s, Len(s), a)
  BY DropSelects
<1> HIDE DEF t
<1>2. PICK h : Selects(h, t, s, Len(s), a)
  BY <1>1 DEF Selected
<1>3. Selects(h, t, s, Len(s), b)
  BY <1>2 DEF Selects
<1>4. t = Drop(s, b)
  BY <1>1, <1>3, SelectedIsDrop
<1> QED BY <1>4 DEF t

\* What the property calls the lists without the sponsor.
ListsWithout(lists, lost) ==
  [w \in Wallets |-> IF w = lost THEN <<>> ELSE Only(lists[w], LAMBDA d : d.to # lost)]

\* They are the pruned lists.
LEMMA ListsWithoutIs ==
  ASSUME NEW lists, AllLists(lists), NEW lost
  PROVE  ListsWithout(lists, lost) = Pruned(lists, lost)
<1> DEFINE Away(l) == {l[i] : i \in {j \in DOMAIN l : ~(l[j].to # lost)}}
<1>1. ListsWithout(lists, lost) = [w \in Wallets |-> IF w = lost THEN <<>> ELSE Drop(lists[w], Away(lists[w]))]
  BY DEF ListsWithout, Only
<1>2. \A w \in Wallets : Drop(lists[w], Away(lists[w])) = Drop(lists[w], Towards(lost))
  <2> SUFFICES ASSUME NEW w \in Wallets PROVE Drop(lists[w], Away(lists[w])) = Drop(lists[w], Towards(lost))
    OBVIOUS
  <2> DEFINE l == lists[w]
  <2>1. l \in Seq(Listed)
    BY DEF AllLists
  <2> HIDE DEF l
  <2>2. DOMAIN l = 1..Len(l) /\ \A i \in 1..Len(l) : l[i] \in Listed
    BY <2>1
  <2>3. \A i \in 1..Len(l) : l[i] \in Away(l) <=> l[i] \in Towards(lost)
    BY <2>2 DEF Towards
  <2> HIDE DEF Away
  <2>4. Drop(l, Away(l)) = Drop(l, Towards(lost))
    BY <2>1, <2>3, DropSame
  <2> QED BY <2>4 DEF l
<1> HIDE DEF Away
<1> QED BY <1>1, <1>2 DEF Pruned

-----------------------------------------------------------------------------
\* The edges of a trust graph.
GraphEdges(wallet, lists) == WalkedEdges(Walk(wallet, lists, MaxDepth).expanded, lists)

\* They are typed, whatever the lengths of the lists.
LEMMA GraphEdgesTyped ==
  ASSUME NEW lists, AllLists(lists), NEW wallet \in Wallets
  PROVE  GraphEdges(wallet, lists) \in Seq(Edges)
<1> DEFINE f == WalkOf(wallet, lists, MaxDepth)
           n == Cardinality(Wallets)
           s == Walk(wallet, lists, MaxDepth).expanded
<1>1. f \in [Nat -> Walks] /\ Walk(wallet, lists, MaxDepth) = f[n]
  BY WalkGoes
<1>2. n \in Nat
  BY AnalysesConstants, FS_CardinalityType
<1> HIDE DEF f, n
<1>3. Walk(wallet, lists, MaxDepth) \in Walks
  BY <1>1, <1>2
<1>4. s \in Seq(Places)
  BY <1>3, WalkParts
<1> HIDE DEF s
<1>5. PICK g : JoinedBy(g, s, lists, WalkedEdges(s, lists))
  BY <1>4, EdgesFold
<1>6. Len(s) \in Nat
  BY <1>4
<1>7. Len(s) \in 0..Len(s)
  BY <1>6
<1>8. WalkedEdges(s, lists) \in Seq(Edges)
  BY <1>5, <1>7 DEF JoinedBy
<1> QED BY <1>8 DEF s, GraphEdges

\* The edges a simulated loss drops, and those of the delegation to the sponsor alone.
DroppedByLoss(edges, lost) == {edges[i] : i \in {j \in DOMAIN edges : ~(lost \notin {edges[j].from, edges[j].to})}}
DroppedByWhatIf(edges, wallet, lost) ==
  {edges[i] : i \in {j \in DOMAIN edges : ~(~(edges[j].from = wallet /\ edges[j].to = lost))}}

\* What is said to remain, as sums.
LEMMA RemainsAre ==
  ASSUME NEW lists, AllLists(lists), NEW wallet \in Wallets, NEW lost, NEW scores
  PROVE  LET graph == analyzeTrustGraph(wallet, lists, scores)
             edges == GraphEdges(wallet, lists)
         IN  /\ graph.exposure.totalExposure = SumOf(edges)
             /\ simulateSponsorLoss(graph, wallet, lost).exposure.totalExposure
                  = SumOf(Drop(edges, DroppedByLoss(edges, lost)))
             /\ lost \in DOMAIN graph.whatIfs =>
                  graph.whatIfs[lost] = SumOf(Drop(edges, DroppedByWhatIf(edges, wallet, lost)))
<1> DEFINE graph == analyzeTrustGraph(wallet, lists, scores)
           edges == GraphEdges(wallet, lists)
           left == Drop(edges, DroppedByLoss(edges, lost))
           others(x) == Drop(edges, DroppedByWhatIf(edges, wallet, x))
           reached == Walk(wallet, lists, MaxDepth).depth
           directTo == {edges[i].to : i \in {j \in DOMAIN edges : edges[j].from = wallet}}
<1>1. edges \in Seq(Edges)
  BY GraphEdgesTyped
<1>2. graph = GraphResult(wallet, scores, reached, edges)
  BY DEF analyzeTrustGraph, GraphEdges
<1> HIDE DEF edges, reached
<1>3. /\ GraphResult(wallet, scores, reached, edges).edges = edges
      /\ GraphResult(wallet, scores, reached, edges).exposure = computeExposure(edges, wallet)
      /\ GraphResult(wallet, scores, reached, edges).whatIfs =
           [x \in directTo |-> computeExposure(others(x), wallet).totalExposure]
  BY DEF GraphResult, Only, DroppedByWhatIf
<1>4. simulateSponsorLoss(graph, wallet, lost).exposure = computeExposure(left, wallet)
  <2>1. withoutSponsor(graph.edges, lost) = left
    <3>1. graph.edges = edges
      BY <1>2, <1>3
    <3>2. withoutSponsor(edges, lost) = left
      BY DEF withoutSponsor, Only, DroppedByLoss
    <3> HIDE DEF graph, left
    <3> QED BY <3>1, <3>2
  <2>2. "exposure" \in DOMAIN graph
    BY <1>2 DEF GraphResult
  <2> HIDE DEF graph, left
  <2>3. simulateSponsorLoss(graph, wallet, lost).exposure = computeExposure(withoutSponsor(graph.edges, lost), wallet)
    BY <2>2 DEF simulateSponsorLoss
  <2> QED BY <2>1, <2>3
<1> HIDE DEF graph, directTo
<1>5. left \in Seq(Edges)
  BY <1>1, DropKeeps
<1>6. others(lost) \in Seq(Edges)
  BY <1>1, DropKeeps
<1>7. graph.exposure.totalExposure = SumOf(edges)
  BY <1>1, <1>2, <1>3, ExposureIs
<1> HIDE DEF left
<1>8. simulateSponsorLoss(graph, wallet, lost).exposure.totalExposure = SumOf(left)
  BY <1>4, <1>5, ExposureIs
<1>9. ASSUME lost \in DOMAIN graph.whatIfs
      PROVE  graph.whatIfs[lost] = SumOf(others(lost))
  <2> HIDE DEF others
  <2>1. graph.whatIfs[lost] = computeExposure(others(lost), wallet).totalExposure
    BY <1>2, <1>3, <1>9
  <2> QED BY <1>6, <2>1, ExposureIs
<1> QED BY <1>7, <1>8, <1>9 DEF graph, edges, left

-----------------------------------------------------------------------------
\* What LossNeverUnderstated says of an answer and the lists it is about.
Remains(left, whatIfs, lost, lists) ==
  LET again == analyzeTrustGraph(Subject, ListsWithout(lists, lost), [w \in Wallets |-> 0])
  IN  /\ (\A w \in Wallets : Len(lists[w]) <= Branching) => left >= again.exposure.totalExposure
      /\ lost \in DOMAIN whatIfs => left <= whatIfs[lost]

\* What an analysis and its simulated loss say remains, for any typed lists.
LEMMA SimulationRemains ==
  ASSUME NEW lists, AllLists(lists), NEW lost, NEW scores
  PROVE  LET graph == analyzeTrustGraph(Subject, lists, scores)
         IN  Remains(simulateSponsorLoss(graph, Subject, lost).exposure.totalExposure,
                     graph.whatIfs, lost, lists)
<1> DEFINE graph == analyzeTrustGraph(Subject, lists, scores)
           edges == GraphEdges(Subject, lists)
           v == DroppedByLoss(edges, lost)
           w == DroppedByWhatIf(edges, Subject, lost)
           left == simulateSponsorLoss(graph, Subject, lost).exposure.totalExposure
           fewer == Pruned(lists, lost)
           found == GraphEdges(Subject, fewer)
           zeros == [x \in Wallets |-> 0]
           again == analyzeTrustGraph(Subject, fewer, zeros)
<1>1. Subject \in Wallets
  BY AnalysesConstants
<1>2. edges \in Seq(Edges)
  BY <1>1, GraphEdgesTyped
<1>3. left = SumOf(Drop(edges, v)) /\ (lost \in DOMAIN graph.whatIfs => graph.whatIfs[lost] = SumOf(Drop(edges, w)))
  BY <1>1, RemainsAre
<1>4. ListsWithout(lists, lost) = fewer
  BY ListsWithoutIs
<1>5. ASSUME Short(lists) PROVE again.exposure.totalExposure <= left
  <2>1. AllLists(fewer)
    BY <1>5, PrunedIs
  <2>2. again.exposure.totalExposure = SumOf(found)
    <3> HIDE DEF fewer, zeros
    <3> QED BY <1>1, <2>1, RemainsAre
  <2>3. SumOf(found) <= SumOf(Drop(edges, Ends(lost)))
    <3>1. MaxDepth \in Nat /\ MaxDepth > 0
      BY DEF MaxDepth
    <3> QED BY <1>1, <1>5, <3>1, LossIsNoLess DEF GraphEdges
  <2> HIDE DEF edges, left, again, found
  <2>4. \A i \in 1..Len(edges) : edges[i] \in Ends(lost) <=> edges[i] \in v
    <3>1. DOMAIN edges = 1..Len(edges) /\ \A i \in 1..Len(edges) : edges[i] \in Edges
      BY <1>2
    <3> QED BY <3>1 DEF Ends, DroppedByLoss
  <2> HIDE DEF v
  <2>5. SumOf(Drop(edges, Ends(lost))) = SumOf(Drop(edges, v))
    BY <1>2, <2>4, EdgesAreWeighed, SumOfSameDropped
  <2> QED BY <1>3, <2>2, <2>3, <2>5
<1>6. SumOf(Drop(edges, v)) <= SumOf(Drop(edges, w))
  <2> HIDE DEF edges
  <2>1. \A i \in 1..Len(edges) : edges[i] \in w => edges[i] \in v
    <3>1. DOMAIN edges = 1..Len(edges)
      BY <1>2
    <3> QED BY <3>1 DEF DroppedByLoss, DroppedByWhatIf
  <2> HIDE DEF v, w
  <2> QED BY <1>2, <2>1, EdgesAreWeighed, SumOfMoreDropped
<1>7. ASSUME Short(lists) PROVE left \in Int /\ again.exposure.totalExposure \in Int
  <2>1. AllLists(fewer)
    BY <1>7, PrunedIs
  <2>2. again.exposure.totalExposure = SumOf(found) /\ found \in Seq(Edges)
    <3> HIDE DEF fewer, zeros
    <3> QED BY <1>1, <2>1, RemainsAre, GraphEdgesTyped
  <2> HIDE DEF again, found, left, edges, v
  <2>3. SumOf(Drop(found, {})) \in Nat /\ SumOf(Drop(found, {})) = SumOf(found)
    BY <2>2, EdgesAreWeighed, SumOfDrop, SumOfWhole
  <2>4. SumOf(Drop(edges, v)) \in Nat
    BY <1>2, EdgesAreWeighed, SumOfDrop
  <2> QED BY <1>3, <2>2, <2>3, <2>4
<1> HIDE DEF left, again, fewer, graph, edges, v, w
<1>8. Remains(left, graph.whatIfs, lost, lists)
  <2>1. (\A x \in Wallets : Len(lists[x]) <= Branching) => left >= again.exposure.totalExposure
    BY <1>5, <1>7 DEF Short
  <2>2. lost \in DOMAIN graph.whatIfs => left <= graph.whatIfs[lost]
    BY <1>3, <1>6
  <2>3. again = analyzeTrustGraph(Subject, ListsWithout(lists, lost), [x \in Wallets |-> 0])
    BY <1>4 DEF again
  <2> HIDE DEF again
  <2> QED BY <2>1, <2>2, <2>3 DEF Remains
<1> QED BY <1>8 DEF left, graph

\* Every such request is answered so.
LEMMA LossAnswered ==
  ASSUME AInv, NEW lost, AskTrustGraph(lost)
  PROVE  /\ Remains(answer'.without.exposure.totalExposure, answer'.graph.whatIfs, answer'.lost, Lists)
         /\ UNCHANGED chain
<1> DEFINE scores == [w \in Wallets |-> TrustOf(w).trustScore]
           graph == analyzeTrustGraph(Subject, Lists, scores)
           without == simulateSponsorLoss(graph, Subject, lost)
<1>1. /\ answer' = [ask |-> "trustGraph", lost |-> lost, graph |-> graph, without |-> without,
                    with |-> simulateSponsorAdd(graph, Subject, lost, 1)]
      /\ UNCHANGED chain
  BY DEF AskTrustGraph, Ask
<1>2. AllLists(Lists)
  BY ListsTyped DEF AInv
<1> HIDE DEF scores
<1>3. Remains(without.exposure.totalExposure, graph.whatIfs, lost, Lists)
  BY <1>2, SimulationRemains
<1> HIDE DEF graph, without
<1>4. answer'.lost = lost /\ answer'.graph = graph /\ answer'.without = without
  BY <1>1
<1> QED BY <1>1, <1>3, <1>4

\* The lists of an unchanged chain.
LEMMA ListsStay ==
  ASSUME UNCHANGED chain
  PROVE  Lists' = Lists
<1>1. ASSUME NEW w PROVE GoodRead(w)' = GoodRead(w)
  <2>1. RegistryPage(w, FALSE)' = RegistryPage(w, FALSE)
    BY DEF RegistryPage, Only
  <2>2. TransfersOf(w)' = TransfersOf(w)
    BY NamingStays DEF TransfersOf
  <2> QED BY <2>1, <2>2 DEF GoodRead, ReadOf
<1>2. ASSUME NEW w PROVE fetchDelegationEdges(w, GoodRead(w))' = fetchDelegationEdges(w, GoodRead(w))
  BY <1>1 DEF fetchDelegationEdges, Only, SentElsewhere, HasCalls
<1> QED BY <1>2 DEF Lists

\* LossNeverUnderstated, with the answer and the lists as parameters.
LEMMA RemainsIs ==
  /\ LossNeverUnderstated <=>
       (answer.ask = "trustGraph" =>
          Remains(answer.without.exposure.totalExposure, answer.graph.whatIfs, answer.lost, Lists))
  /\ LossNeverUnderstated' <=>
       (answer'.ask = "trustGraph" =>
          Remains(answer'.without.exposure.totalExposure, answer'.graph.whatIfs, answer'.lost, Lists'))
<1>1. LossNeverUnderstated <=>
       (answer.ask = "trustGraph" =>
          Remains(answer.without.exposure.totalExposure, answer.graph.whatIfs, answer.lost, Lists))
  BY DEF LossNeverUnderstated, Remains, ListsWithout, Only
<1>2. LossNeverUnderstated' <=>
       (answer'.ask = "trustGraph" =>
          Remains(answer'.without.exposure.totalExposure, answer'.graph.whatIfs, answer'.lost, Lists'))
  BY DEF LossNeverUnderstated, Remains, ListsWithout, Only
<1> QED BY <1>1, <1>2

(***************************************************************************)
(* For any wallets, chain, scores and branching factor, the exposure that  *)
(* simulateSponsorLoss of src/trust-graph.ts says remains is never less    *)
(* than what a walk of the graph without the sponsor finds, unless a       *)
(* wallet has more targets than the walk follows, and never more than the  *)
(* what-if answer for the same sponsor.                                    *)
(***************************************************************************)
THEOREM LossNeverUnderstatedHolds == Spec => []LossNeverUnderstated
<1>1. Init => LossNeverUnderstated
  BY Zenon, AskedAs DEF Init, LossNeverUnderstated
<1>2. AInv /\ LossNeverUnderstated /\ [Next]_vars => LossNeverUnderstated'
  <2> SUFFICES ASSUME AInv, LossNeverUnderstated, [Next]_vars PROVE LossNeverUnderstated'
    OBVIOUS
  <2>1. CASE UNCHANGED vars
    <3>1. answer' = answer /\ Lists' = Lists
      BY <2>1, ListsStay DEF vars
    <3> QED BY <3>1, RemainsIs
  <2>2. ASSUME NEW lost, AskTrustGraph(lost)
        PROVE  LossNeverUnderstated'
    BY <2>2, LossAnswered, ListsStay, RemainsIs
  <2>3. CASE answer'.ask # "trustGraph"
    BY <2>3, RemainsIs
  <2>4. answer' = NoAnswer => answer'.ask = "nothing"
    BY AskedAs
  <2> QED BY <2>1, <2>2, <2>3, <2>4, StepsAnswer, AskedAs, Zenon
<1> QED BY <1>1, <1>2, InOrderAlways, PTL DEF Spec
===============================================================================
