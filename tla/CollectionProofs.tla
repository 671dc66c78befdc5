--------------------------- MODULE CollectionProofs ---------------------------
(***************************************************************************)
(* What the provers need to know of the collections the modules use:       *)
(* sequences that are filtered (Drop, Only), the Maps among them, sums and *)
(* other folds over finite sets, and the elements of a finite set in an    *)
(* order.                                                                  *)
(*                                                                         *)
(* An induction over the numbers up to n is done here with a least number  *)
(* that fails: the library proves that < is well founded on Nat, and       *)
(* WFMin takes a set, where its induction theorems take an operator.  An   *)
(* induction over a finite set is done with a smallest subset that fails.  *)
(***************************************************************************)
EXTENDS Filter, Integers, SequencesExt, TLAPS, SequenceTheorems, FiniteSetTheorems,
        WellFoundedInduction

\* A nonempty set of numbers has a least element: what takes the place of an
\* induction on a number.
LEMMA LeastNumber ==
  \A T \in SUBSET Nat : T # {} => \E m \in T : \A n \in T : m <= n
<1>1. SUFFICES ASSUME NEW T \in SUBSET Nat, T # {}
               PROVE  \E m \in T : \A n \in T : m <= n
  OBVIOUS
<1>2. \E x \in T : \A y \in T : ~(<<y, x>> \in OpToRel(<, Nat))
  BY <1>1, NatLessThanWellFounded, WFMin
<1>3. PICK x \in T : \A y \in T : ~(<<y, x>> \in OpToRel(<, Nat))
  BY <1>2
<1>4. \A y \in T : ~(y < x)
  BY <1>3, Zenon DEF OpToRel
<1> QED BY <1>1, <1>4

\* What fails for some number up to n, and not for 0, fails for the first time.
LEMMA FirstFailure ==
  ASSUME NEW n \in Nat, NEW T \in SUBSET (0..n), T # {}, 0 \notin T
  PROVE  \E m \in 1..n : m \in T /\ m - 1 \in 0..n /\ m - 1 \notin T
<1>1. T \in SUBSET Nat
  OBVIOUS
<1>2. PICK m \in T : \A k \in T : m <= k
  BY <1>1, LeastNumber
<1>3. m \in 1..n /\ m - 1 \in 0..n /\ ~(m <= m - 1)
  BY <1>2
<1> QED BY <1>2, <1>3

\* A function over 0..n is defined by where it starts and its n steps.
Recursive(n, V, start, step) ==
  \E f \in [0..n -> V] : f[0] = start /\ \A i \in 1..n : f[i] = step[i][f[i - 1]]

\* It always is.
LEMMA RecursionDefines ==
  ASSUME NEW n \in Nat, NEW V, NEW start \in V, NEW step \in [1..n -> [V -> V]]
  PROVE  Recursive(n, V, start, step)
<1> USE DEF Recursive
<1> DEFINE Obeys(f, m) == f[0] = start /\ \A i \in 1..m : f[i] = step[i][f[i - 1]]
           Bad == {m \in 0..n : ~\E f \in [0..m -> V] : Obeys(f, m)}
<1>1. SUFFICES ASSUME Bad # {} PROVE FALSE
  <2>1. n \in 0..n
    OBVIOUS
  <2> QED BY <1>1, <2>1, Zenon
<1>2. 0 \notin Bad
  <2> DEFINE g == [i \in 0..0 |-> start]
  <2>1. g \in [0..0 -> V] /\ g[0] = start /\ 1..0 = {}
    OBVIOUS
  <2> QED BY <2>1
<1>3. PICK m \in 1..n : m \in Bad /\ m - 1 \in 0..n /\ m - 1 \notin Bad
  <2>1. Bad \in SUBSET (0..n)
    OBVIOUS
  <2> HIDE DEF Bad
  <2> QED BY <1>1, <1>2, <2>1, FirstFailure
<1>4. PICK f \in [0..(m - 1) -> V] : Obeys(f, m - 1)
  BY <1>3
<1> DEFINE g == [i \in 0..m |-> IF i = m THEN step[m][f[m - 1]] ELSE f[i]]
<1>5. f[m - 1] \in V /\ step[m] \in [V -> V]
  BY <1>3, <1>4
<1>6. step[m][f[m - 1]] \in V
  BY <1>5
<1>7. g \in [0..m -> V]
  BY <1>3, <1>4, <1>6
<1>8. g[0] = start /\ g[m] = step[m][f[m - 1]] /\ \A i \in 0..(m - 1) : g[i] = f[i]
  BY <1>3, <1>4
<1>9. \A i \in 1..m : g[i] = step[i][g[i - 1]]
  <2> SUFFICES ASSUME NEW i \in 1..m PROVE g[i] = step[i][g[i - 1]]
    OBVIOUS
  <2> HIDE DEF g
  <2>1. CASE i = m
    BY <1>3, <1>8, <2>1
  <2>2. CASE i # m
    <3>1. i \in 1..(m - 1) /\ i \in 0..(m - 1) /\ i - 1 \in 0..(m - 1)
      BY <1>3, <2>2
    <3> QED BY <1>4, <1>8, <3>1
  <2> QED BY <2>1, <2>2
<1> HIDE DEF g
<1>10. Obeys(g, m)
  BY <1>8, <1>9
<1> QED BY <1>3, <1>7, <1>10

\* The function in the definition of Drop, which gives what is kept of the first
\* i elements, and Drop in its terms.
Kept(s, dropped) ==
  CHOOSE f : f = [i \in 0..Len(s) |->
                    IF i = 0 THEN <<>>
                    ELSE IF s[i] \in dropped THEN f[i - 1] ELSE Append(f[i - 1], s[i])]

LEMMA DropIsKept ==
  ASSUME NEW s, NEW dropped
  PROVE Drop(s, dropped) = Kept(s, dropped)[Len(s)]
BY DEF Drop, Kept

\* A function that follows the recursion of Drop over s.
Follows(f, s, dropped) ==
  f = [i \in 0..Len(s) |->
         IF i = 0 THEN <<>>
         ELSE IF s[i] \in dropped THEN f[i - 1] ELSE Append(f[i - 1], s[i])]

\* The steps it takes.
Steps(f, s, dropped) ==
  /\ f[0] = <<>>
  /\ \A i \in 1..Len(s) :
       /\ s[i] \in dropped => f[i] = f[i - 1]
       /\ s[i] \notin dropped => f[i] = Append(f[i - 1], s[i])

\* Some function does.
LEMMA SomeFollows ==
  ASSUME NEW S, NEW s \in Seq(S), NEW dropped
  PROVE  \E f : Follows(f, s, dropped)
<1> DEFINE n == Len(s)
<1>1. n \in Nat /\ <<>> \in Seq(S) /\ \A i \in 1..n : s[i] \in S
  OBVIOUS
<1> HIDE DEF n
<1> DEFINE step == [i \in 1..n |->
                      [q \in Seq(S) |-> IF s[i] \in dropped THEN q ELSE Append(q, s[i])]]
<1>2. \A i \in 1..n : \A q \in Seq(S) : Append(q, s[i]) \in Seq(S)
  BY <1>1
<1>3. step \in [1..n -> [Seq(S) -> Seq(S)]]
  BY <1>2
<1>4. \A i \in 1..n : \A q \in Seq(S) :
        step[i][q] = IF s[i] \in dropped THEN q ELSE Append(q, s[i])
  OBVIOUS
<1> HIDE DEF step
<1>5. PICK f \in [0..n -> Seq(S)] :
        f[0] = <<>> /\ \A i \in 1..n : f[i] = step[i][f[i - 1]]
  <2>1. Recursive(n, Seq(S), <<>>, step)
    BY <1>1, <1>3, RecursionDefines
  <2> QED BY <2>1, Zenon DEF Recursive
<1>6. \A i \in 1..n : f[i - 1] \in Seq(S)
  BY <1>1
<1>7. \A i \in 1..n : f[i] = IF s[i] \in dropped THEN f[i - 1] ELSE Append(f[i - 1], s[i])
  BY <1>4, <1>5, <1>6, Zenon
<1>8. \A i \in 0..n : i # 0 => i \in 1..n
  BY <1>1
<1>9. \A i \in 0..n : f[i] = IF i = 0 THEN <<>>
             ELSE IF s[i] \in dropped THEN f[i - 1] ELSE Append(f[i - 1], s[i])
  BY <1>5, <1>7, <1>8, Zenon
<1>10. f = [i \in 0..n |-> f[i]]
  OBVIOUS
<1>11. f = [i \in 0..n |->
             IF i = 0 THEN <<>>
             ELSE IF s[i] \in dropped THEN f[i - 1] ELSE Append(f[i - 1], s[i])]
  BY <1>9, <1>10, Zenon
<1> QED BY <1>11, Zenon DEF Follows, n

\* Its values are sequences, and it takes those steps.
LEMMA FollowsSteps ==
  ASSUME NEW S, NEW s \in Seq(S), NEW dropped, NEW f, Follows(f, s, dropped)
  PROVE  /\ f \in [0..Len(s) -> Seq(S)]
         /\ Steps(f, s, dropped)
<1> DEFINE n == Len(s)
           Bad == {m \in 0..n : f[m] \notin Seq(S)}
<1>1. n \in Nat /\ (\A i \in 1..n : s[i] \in S /\ i \in 0..n /\ i # 0) /\ 0 \in 0..n
  OBVIOUS
<1> HIDE DEF n
<1>2. /\ DOMAIN f = 0..n
      /\ f = [i \in 0..n |-> f[i]]
      /\ \A i \in 0..n : f[i] = IF i = 0 THEN <<>>
             ELSE IF s[i] \in dropped THEN f[i - 1] ELSE Append(f[i - 1], s[i])
  BY Zenon DEF Follows, n
<1>3. f[0] = <<>>
  BY <1>1, <1>2, Zenon
<1>4. \A i \in 1..n : s[i] \in dropped => f[i] = f[i - 1]
  BY <1>1, <1>2, Zenon
<1>5. \A i \in 1..n : s[i] \notin dropped => f[i] = Append(f[i - 1], s[i])
  BY <1>1, <1>2, Zenon
<1>6. Bad = {}
  <2> SUFFICES ASSUME Bad # {} PROVE FALSE
    OBVIOUS
  <2>1. Bad \in SUBSET (0..n)
    OBVIOUS
  <2>2. <<>> \in Seq(S)
    OBVIOUS
  <2>3. 0 \notin Bad
    BY <1>3, <2>2, Zenon
  <2>4. PICK m \in 1..n : m \in Bad /\ m - 1 \in 0..n /\ m - 1 \notin Bad
    <3> HIDE DEF Bad
    <3> QED BY <1>1, <2>1, <2>3, FirstFailure
  <2>5. f[m - 1] \in Seq(S) /\ s[m] \in S
    BY <1>1, <2>4
  <2>6. Append(f[m - 1], s[m]) \in Seq(S)
    BY <2>5
  <2> QED BY <1>4, <1>5, <2>4, <2>5, <2>6, Zenon
<1>7. f \in [0..n -> Seq(S)]
  <2>1. \A i \in 0..n : f[i] \in Seq(S)
    BY <1>6
  <2> QED BY <1>2, <2>1, Zenon
<1> QED BY <1>3, <1>4, <1>5, <1>7, Zenon DEF n, Steps

\* Kept is the function Drop is defined by.
LEMMA KeptSteps ==
  ASSUME NEW S, NEW s \in Seq(S), NEW dropped
  PROVE  /\ Kept(s, dropped) \in [0..Len(s) -> Seq(S)]
         /\ Steps(Kept(s, dropped), s, dropped)
<1>1. \E f : Follows(f, s, dropped)
  BY SomeFollows
<1>2. Follows(Kept(s, dropped), s, dropped)
  BY <1>1, Zenon DEF Kept, Follows
<1> QED BY <1>2, FollowsSteps

-----------------------------------------------------------------------------
(* What Drop keeps *)

\* t is what the first m elements of s leave, and h says where each stood.
Selects(h, t, s, m, dropped) ==
  /\ h \in [1..Len(t) -> 1..m]
  /\ \A i, j \in 1..Len(t) : i < j => h[i] < h[j]
  /\ \A j \in 1..Len(t) : t[j] = s[h[j]] /\ t[j] \notin dropped
  /\ \A i \in 1..m : s[i] \notin dropped => \E j \in 1..Len(t) : h[j] = i

Selected(t, s, m, dropped) ==
  /\ Len(t) <= m
  /\ (\E i \in 1..m : s[i] \in dropped) => Len(t) < m
  /\ \E h : Selects(h, t, s, m, dropped)

\* Nothing is kept of nothing.
LEMMA SelectNone ==
  ASSUME NEW s, NEW dropped
  PROVE  Selected(<<>>, s, 0, dropped)
<1>1. Selects([j \in 1..0 |-> 0], <<>>, s, 0, dropped)
  BY DEF Selects
<1>2. 1..0 = {} /\ Len(<<>>) = 0
  OBVIOUS
<1> QED BY <1>1, <1>2 DEF Selected

\* One more element of s is dropped.
LEMMA SelectOn ==
  ASSUME NEW S, NEW s \in Seq(S), NEW t \in Seq(S), NEW m \in 1..Len(s), NEW dropped,
         s[m] \in dropped, Selected(t, s, m - 1, dropped)
  PROVE  Selected(t, s, m, dropped)
<1>1. PICK h : Selects(h, t, s, m - 1, dropped)
  BY DEF Selected
<1>2. Len(t) \in Nat /\ m \in Nat \ {0} /\ Len(t) < m
  BY DEF Selected
<1>3. h \in [1..Len(t) -> 1..m]
  BY <1>1, <1>2 DEF Selects
<1>4. \A i \in 1..m : s[i] \notin dropped => i \in 1..(m - 1)
  BY <1>2
<1>5. Selects(h, t, s, m, dropped)
  BY <1>1, <1>3, <1>4, Zenon DEF Selects
<1> QED BY <1>2, <1>5 DEF Selected

\* One more is kept.
LEMMA SelectAlso ==
  ASSUME NEW S, NEW s \in Seq(S), NEW t \in Seq(S), NEW m \in 1..Len(s), NEW dropped,
         s[m] \notin dropped, Selected(t, s, m - 1, dropped)
  PROVE  Selected(Append(t, s[m]), s, m, dropped)
<1>1. PICK h : Selects(h, t, s, m - 1, dropped)
  BY DEF Selected
<1> DEFINE u == Append(t, s[m])
           n == Len(t)
           g == [j \in 1..(n + 1) |-> IF j = n + 1 THEN m ELSE h[j]]
<1>2. /\ n \in Nat /\ m \in Nat \ {0} /\ s[m] \in S
      /\ u \in Seq(S) /\ Len(u) = n + 1 /\ u[n + 1] = s[m]
      /\ \A j \in 1..n : u[j] = t[j]
  OBVIOUS
<1>3. /\ n + 1 <= m
      /\ (\E i \in 1..m : s[i] \in dropped) => n + 1 < m
  <2>1. n <= m - 1 /\ ((\E i \in 1..(m - 1) : s[i] \in dropped) => n < m - 1)
    BY DEF Selected
  <2>2. \A i \in 1..m : s[i] \in dropped => i \in 1..(m - 1)
    BY <1>2
  <2> QED BY <1>2, <2>1, <2>2
<1>4. /\ h \in [1..n -> 1..(m - 1)]
      /\ \A i, j \in 1..n : i < j => h[i] < h[j]
      /\ \A j \in 1..n : t[j] = s[h[j]] /\ t[j] \notin dropped
      /\ \A i \in 1..(m - 1) : s[i] \notin dropped => \E j \in 1..n : h[j] = i
  BY <1>1 DEF Selects
<1> HIDE DEF u, n
<1>5. /\ g[n + 1] = m
      /\ \A j \in 1..n : g[j] = h[j] /\ h[j] \in 1..(m - 1)
      /\ g \in [1..(n + 1) -> 1..m]
  BY <1>2, <1>4
<1> HIDE DEF g
<1>6. \A j \in 1..(n + 1) : j = n + 1 \/ j \in 1..n
  BY <1>2
<1>7. \A i, j \in 1..(n + 1) : i < j => g[i] < g[j]
  <2> SUFFICES ASSUME NEW i \in 1..(n + 1), NEW j \in 1..(n + 1), i < j PROVE g[i] < g[j]
    OBVIOUS
  <2>1. i \in 1..n
    BY <1>2
  <2>2. CASE j = n + 1
    BY <1>2, <1>5, <2>1, <2>2
  <2>3. CASE j \in 1..n
    BY <1>4, <1>5, <2>1, <2>3
  <2> QED BY <1>6, <2>2, <2>3
<1>8. \A j \in 1..(n + 1) : u[j] = s[g[j]] /\ u[j] \notin dropped
  BY <1>2, <1>4, <1>5, <1>6, Zenon
<1>9. \A i \in 1..m : s[i] \notin dropped => \E j \in 1..(n + 1) : g[j] = i
  <2> SUFFICES ASSUME NEW i \in 1..m, s[i] \notin dropped
               PROVE  \E j \in 1..(n + 1) : g[j] = i
    OBVIOUS
  <2>1. CASE i = m
    BY <1>2, <1>5, <2>1
  <2>2. CASE i # m
    BY <1>2, <1>4, <1>5, <2>2
  <2> QED BY <2>1, <2>2
<1>10. Selects(g, u, s, m, dropped)
  BY <1>2, <1>5, <1>7, <1>8, <1>9, Zenon DEF Selects
<1> QED BY <1>2, <1>3, <1>10 DEF Selected, u

\* Drop keeps what is not dropped of all of s.
LEMMA DropSelects ==
  ASSUME NEW S, NEW s \in Seq(S), NEW dropped
  PROVE  Drop(s, dropped) \in Seq(S) /\ Selected(Drop(s, dropped), s, Len(s), dropped)
<1> DEFINE n == Len(s)
           K == Kept(s, dropped)
           Bad == {m \in 0..n : ~Selected(K[m], s, m, dropped)}
<1>1. n \in Nat /\ K \in [0..n -> Seq(S)] /\ n \in 0..n
  BY KeptSteps
<1>2. K[0] = <<>>
  BY KeptSteps DEF Steps
<1>3. \A i \in 1..n : s[i] \in dropped => K[i] = K[i - 1]
  BY KeptSteps DEF Steps
<1>4. \A i \in 1..n : s[i] \notin dropped => K[i] = Append(K[i - 1], s[i])
  BY KeptSteps DEF Steps
<1>5. Drop(s, dropped) = K[n]
  BY DropIsKept
<1> HIDE DEF K, n
<1>6. 0 \notin Bad
  BY <1>2, SelectNone
<1>7. Bad = {}
  <2> SUFFICES ASSUME Bad # {} PROVE FALSE
    OBVIOUS
  <2>1. Bad \in SUBSET (0..n)
    OBVIOUS
  <2>2. PICK m \in 1..n : m \in Bad /\ m - 1 \in 0..n /\ m - 1 \notin Bad
    <3> HIDE DEF Bad
    <3> QED BY <1>1, <1>6, <2>1, FirstFailure
  <2>3. Selected(K[m - 1], s, m - 1, dropped) /\ K[m - 1] \in Seq(S)
    BY <1>1, <2>2
  <2>4. CASE s[m] \in dropped
    <3>1. Selected(K[m - 1], s, m, dropped)
      BY <2>3, <2>4, SelectOn DEF n
    <3> QED BY <1>3, <2>2, <2>4, <3>1
  <2>5. CASE s[m] \notin dropped
    <3>1. Selected(Append(K[m - 1], s[m]), s, m, dropped)
      BY <2>3, <2>5, SelectAlso DEF n
    <3> QED BY <1>4, <2>2, <2>5, <3>1
  <2> QED BY <2>4, <2>5
<1>8. K[n] \in Seq(S) /\ Selected(K[n], s, n, dropped)
  BY <1>1, <1>7
<1> QED BY <1>5, <1>8 DEF n

\* t has elements of s in their order in s.
InOrder(t, s) ==
  \A i, j \in DOMAIN t : i < j => \E k, l \in DOMAIN s : k < l /\ t[i] = s[k] /\ t[j] = s[l]

\* What is left of s has its elements in their order, each of them that is not
\* dropped, and no other.
LEMMA DropKeeps ==
  ASSUME NEW S, NEW s \in Seq(S), NEW dropped
  PROVE  /\ Drop(s, dropped) \in Seq(S)
         /\ Len(Drop(s, dropped)) <= Len(s)
         /\ ToSet(s) \cap dropped # {} => Len(Drop(s, dropped)) < Len(s)
         /\ InOrder(Drop(s, dropped), s)
         /\ ToSet(Drop(s, dropped)) = ToSet(s) \ dropped
<1> DEFINE t == Drop(s, dropped)
<1>1. t \in Seq(S) /\ Selected(t, s, Len(s), dropped)
  BY DropSelects
<1> HIDE DEF t
<1>2. PICK h : Selects(h, t, s, Len(s), dropped)
  BY <1>1 DEF Selected
<1>3. DOMAIN t = 1..Len(t) /\ DOMAIN s = 1..Len(s) /\ Len(t) <= Len(s)
  BY <1>1 DEF Selected
<1>10. ToSet(s) \cap dropped # {} => Len(t) < Len(s)
  BY <1>1, <1>3 DEF Selected, ToSet
<1>4. \A i \in DOMAIN t : h[i] \in DOMAIN s /\ t[i] = s[h[i]] /\ t[i] \notin dropped
  BY <1>2, <1>3 DEF Selects
<1>5. \A i, j \in DOMAIN t : i < j => h[i] < h[j]
  BY <1>2, <1>3, Zenon DEF Selects
<1>6. \A k \in DOMAIN s : s[k] \notin dropped => \E i \in DOMAIN t : h[i] = k
  BY <1>2, <1>3, Zenon DEF Selects
<1>7. \A k \in DOMAIN s : s[k] \notin dropped => \E i \in DOMAIN t : t[i] = s[k]
  BY <1>4, <1>6
<1>8. InOrder(t, s)
  BY <1>4, <1>5, Zenon DEF InOrder
<1>9. ToSet(t) = ToSet(s) \ dropped
  BY <1>4, <1>7 DEF ToSet
<1> QED BY <1>1, <1>3, <1>8, <1>9, <1>10 DEF t

\* Nothing else is what is left of s: one that differs differs first somewhere.
LEMMA SelectionsAgree ==
  ASSUME NEW S, NEW s \in Seq(S), NEW t \in Seq(S), NEW u \in Seq(S), NEW dropped,
         NEW h, Selects(h, t, s, Len(s), dropped), NEW g, Selects(g, u, s, Len(s), dropped)
  PROVE  \A k \in 1..Len(t) : k \in 1..Len(u) /\ h[k] = g[k]
<1> DEFINE n == Len(t)
           m == Len(u)
           p == Len(s)
           Bad == {k \in 0..n : k # 0 /\ ~(k \in 1..m /\ h[k] = g[k])}
<1>1. n \in Nat /\ m \in Nat /\ p \in Nat
  OBVIOUS
<1> HIDE DEF n, m, p
<1>2. /\ h \in [1..n -> 1..p]
      /\ \A i, j \in 1..n : i < j => h[i] < h[j]
      /\ \A j \in 1..n : t[j] = s[h[j]] /\ t[j] \notin dropped
      /\ \A i \in 1..p : s[i] \notin dropped => \E j \in 1..n : h[j] = i
  BY Zenon DEF Selects, n, p
<1>3. /\ g \in [1..m -> 1..p]
      /\ \A i, j \in 1..m : i < j => g[i] < g[j]
      /\ \A j \in 1..m : u[j] = s[g[j]] /\ u[j] \notin dropped
      /\ \A i \in 1..p : s[i] \notin dropped => \E j \in 1..m : g[j] = i
  BY Zenon DEF Selects, m, p
<1>4. Bad = {}
  <2> SUFFICES ASSUME Bad # {} PROVE FALSE
    OBVIOUS
  <2>1. Bad \in SUBSET Nat
    BY <1>1
  <2>2. PICK k \in Bad : \A i \in Bad : k <= i
    <3> HIDE DEF Bad
    <3> QED BY <2>1, LeastNumber
  <2>3. k \in 1..n /\ k \in Nat
    BY <1>1, <2>2
  <2>4. \A i \in 1..n : i < k => i \in 1..m /\ h[i] = g[i]
    <3> SUFFICES ASSUME NEW i \in 1..n, i < k, ~(i \in 1..m /\ h[i] = g[i]) PROVE FALSE
      OBVIOUS
    <3>1. i \in Bad /\ ~(k <= i)
      BY <1>1, <2>3
    <3> QED BY <2>2, <3>1
  <2>5. h[k] \in 1..p /\ s[h[k]] \notin dropped
    BY <1>2, <2>3
  <2>6. PICK j \in 1..m : g[j] = h[k]
    BY <1>3, <2>5
  <2>7. ~(j < k)
    <3> SUFFICES ASSUME j < k PROVE FALSE
      OBVIOUS
    <3>1. j \in 1..n
      BY <1>1, <2>3
    <3>2. h[j] = h[k] /\ h[j] < h[k] /\ h[j] \in Nat
      BY <1>1, <1>2, <2>3, <2>4, <2>6, <3>1
    <3> QED BY <3>2
  <2>8. k \in 1..m
    BY <1>1, <2>3, <2>7
  <2>9. k < j
    BY <2>2, <2>3, <2>6, <2>7, <2>8
  <2>10. g[k] < h[k] /\ g[k] \in 1..p
    BY <1>3, <2>6, <2>8, <2>9
  <2>11. s[g[k]] \notin dropped
    BY <1>3, <2>8
  <2>12. PICK i \in 1..n : h[i] = g[k]
    BY <1>2, <2>10, <2>11
  <2>13. i < k
    <3>1. CASE i = k
      BY <1>1, <2>5, <2>10, <2>12, <3>1
    <3>2. CASE k < i
      <4>1. h[k] < h[i]
        BY <1>2, <2>3, <3>2
      <4> QED BY <1>1, <2>5, <2>10, <2>12, <4>1
    <3> QED BY <2>3, <3>1, <3>2
  <2>14. g[i] = g[k] /\ i \in 1..m /\ g[i] < g[k] /\ g[k] \in Nat
    BY <1>1, <1>3, <2>4, <2>8, <2>10, <2>12, <2>13
  <2> QED BY <2>14
<1>5. \A k \in 1..n : k \in 1..m /\ h[k] = g[k]
  <2>1. \A k \in 1..n : k \in 0..n /\ k # 0
    BY <1>1
  <2> QED BY <1>4, <2>1, Zenon
<1> QED BY <1>5 DEF n, m

\* So a sequence that takes from s what is not dropped is Drop(s, dropped).
LEMMA SelectedIsDrop ==
  ASSUME NEW S, NEW s \in Seq(S), NEW t \in Seq(S), NEW dropped,
         NEW h, Selects(h, t, s, Len(s), dropped)
  PROVE  t = Drop(s, dropped)
<1> DEFINE u == Drop(s, dropped)
<1>1. u \in Seq(S) /\ Selected(u, s, Len(s), dropped)
  BY DropSelects
<1> HIDE DEF u
<1>2. PICK g : Selects(g, u, s, Len(s), dropped)
  BY <1>1 DEF Selected
<1>3. \A k \in 1..Len(t) : k \in 1..Len(u) /\ h[k] = g[k]
  BY <1>1, <1>2, SelectionsAgree
<1>4. \A k \in 1..Len(u) : k \in 1..Len(t) /\ g[k] = h[k]
  BY <1>1, <1>2, SelectionsAgree
<1>5. Len(t) \in Nat /\ Len(u) \in Nat
  BY <1>1
<1>6. Len(t) = Len(u)
  BY <1>3, <1>4, <1>5
<1>7. \A k \in 1..Len(t) : t[k] = u[k]
  BY <1>2, <1>3 DEF Selects
<1> QED BY <1>1, <1>6, <1>7 DEF u

\* The last elements of a sequence.
LEMMA SuffixIs ==
  ASSUME NEW S, NEW s \in Seq(S), NEW first \in 0..Len(s)
  PROVE  LET t == SubSeq(s, first + 1, Len(s))
         IN  /\ t \in Seq(S)
             /\ Len(t) = Len(s) - first
             /\ DOMAIN t = 1..Len(t)
             /\ \A i \in 1..Len(t) : i + first \in 1..Len(s) /\ t[i] = s[i + first]
<1> DEFINE t == SubSeq(s, first + 1, Len(s))
<1>1. Len(s) \in Nat /\ \A i \in (first + 1)..Len(s) : s[i] \in S
  OBVIOUS
<1>2. /\ t \in Seq(S)
      /\ Len(t) = IF first + 1 <= Len(s) THEN Len(s) - (first + 1) + 1 ELSE 0
      /\ \A i \in 1..(Len(s) - (first + 1) + 1) : t[i] = s[(first + 1) + i - 1]
  BY <1>1, SubSeqProperties
<1> HIDE DEF t
<1>3. Len(t) = Len(s) - first /\ DOMAIN t = 1..Len(t)
  BY <1>1, <1>2
<1>4. \A i \in 1..Len(t) : i + first \in 1..Len(s) /\ t[i] = s[i + first]
  BY <1>1, <1>2, <1>3
<1> QED BY <1>2, <1>3, <1>4 DEF t

-----------------------------------------------------------------------------
(* Maps: sequences of records with a field key *)

\* No key has two records.
Distinct(records) == \A i, j \in DOMAIN records : records[i].key = records[j].key => i = j

\* Deleting from a Map leaves a Map.
LEMMA DropKeepsDistinct ==
  ASSUME NEW R, NEW records \in Seq(R), Distinct(records), NEW dropped
  PROVE  /\ Drop(records, dropped) \in Seq(R)
         /\ Distinct(Drop(records, dropped))
         /\ ToSet(Drop(records, dropped)) = ToSet(records) \ dropped
<1> DEFINE t == Drop(records, dropped)
<1>1. t \in Seq(R) /\ InOrder(t, records)
  BY DropKeeps
<1>2. ToSet(t) = ToSet(records) \ dropped
  BY DropKeeps
<1> HIDE DEF t
<1>3. DOMAIN t \subseteq Nat /\ DOMAIN records \subseteq Nat
  BY <1>1
<1>4. \A i, j \in DOMAIN t : i < j => t[i].key # t[j].key
  <2> SUFFICES ASSUME NEW i \in DOMAIN t, NEW j \in DOMAIN t, i < j PROVE t[i].key # t[j].key
    OBVIOUS
  <2>1. PICK k \in DOMAIN records, l \in DOMAIN records :
          k < l /\ t[i] = records[k] /\ t[j] = records[l]
    BY <1>1, Zenon DEF InOrder
  <2>2. k # l
    BY <1>3, <2>1
  <2> QED BY <2>1, <2>2 DEF Distinct
<1>5. \A i, j \in DOMAIN t : i = j \/ i < j \/ j < i
  BY <1>3
<1>6. Distinct(t)
  BY <1>4, <1>5, Zenon DEF Distinct
<1> QED BY <1>1, <1>2, <1>6 DEF t

\* So does keeping the newest of it.
LEMMA SuffixKeepsDistinct ==
  ASSUME NEW R, NEW records \in Seq(R), Distinct(records), NEW first \in 0..Len(records)
  PROVE  /\ SubSeq(records, first + 1, Len(records)) \in Seq(R)
         /\ Distinct(SubSeq(records, first + 1, Len(records)))
         /\ ToSet(SubSeq(records, first + 1, Len(records))) \subseteq ToSet(records)
<1> DEFINE t == SubSeq(records, first + 1, Len(records))
<1>1. Len(records) \in Nat /\ DOMAIN records = 1..Len(records)
  OBVIOUS
<1>2. /\ t \in Seq(R) /\ Len(t) = Len(records) - first /\ DOMAIN t = 1..Len(t)
      /\ \A i \in 1..Len(t) : i + first \in 1..Len(records) /\ t[i] = records[i + first]
  BY SuffixIs
<1> HIDE DEF t
<1>3. Distinct(t)
  <2> SUFFICES ASSUME NEW i \in DOMAIN t, NEW j \in DOMAIN t, t[i].key = t[j].key PROVE i = j
    BY DEF Distinct
  <2>1. /\ i + first \in DOMAIN records /\ j + first \in DOMAIN records
        /\ records[i + first].key = records[j + first].key
    BY <1>1, <1>2
  <2>2. i + first = j + first
    BY <2>1, Zenon DEF Distinct
  <2> QED BY <1>2, <2>2
<1>4. ToSet(t) \subseteq ToSet(records)
  BY <1>1, <1>2 DEF ToSet
<1> QED BY <1>2, <1>3, <1>4 DEF t

\* A record of a Map is the one of its key, and so is one of a part of it.
LEMMA OneRecord ==
  ASSUME NEW R, NEW records \in Seq(R), Distinct(records),
         NEW rec \in ToSet(records), NEW other \in ToSet(records), rec.key = other.key
  PROVE  rec = other
BY DEF ToSet, Distinct

\* Setting a key of a Map: the record is in it, the other keys keep theirs, and
\* nothing else is there.
Put(records, new) ==
  IF {i \in DOMAIN records : records[i].key = new.key} = {} THEN Append(records, new)
  ELSE [i \in DOMAIN records |-> IF records[i].key = new.key THEN new ELSE records[i]]

LEMMA PutKeepsDistinct ==
  ASSUME NEW R, NEW records \in Seq(R), Distinct(records), NEW new \in R
  PROVE  /\ Put(records, new) \in Seq(R)
         /\ Distinct(Put(records, new))
         /\ new \in ToSet(Put(records, new))
         /\ \A rec \in ToSet(records) : rec.key # new.key => rec \in ToSet(Put(records, new))
         /\ ToSet(Put(records, new)) \subseteq ToSet(records) \cup {new}
<1> DEFINE same == {i \in DOMAIN records : records[i].key = new.key}
           s == Put(records, new)
<1>1. Len(records) \in Nat /\ DOMAIN records = 1..Len(records)
  OBVIOUS
<1>4. /\ same = {} => s = Append(records, new)
      /\ same # {} =>
           s = [i \in DOMAIN records |-> IF records[i].key = new.key THEN new ELSE records[i]]
  BY Zenon DEF Put
<1> HIDE DEF s
<1>2. CASE same = {}
  <2>1. \A i \in DOMAIN records : records[i].key # new.key
    BY <1>2
  <2>2. /\ s \in Seq(R) /\ DOMAIN s = 1..(Len(records) + 1)
        /\ s[Len(records) + 1] = new
        /\ \A i \in 1..Len(records) : s[i] = records[i]
    BY <1>2, <1>4
  <2>3. \A i \in DOMAIN s : i = Len(records) + 1 \/ i \in DOMAIN records
    BY <1>1, <2>2
  <2>4. Distinct(s)
    BY <1>1, <2>1, <2>2, <2>3, Zenon DEF Distinct
  <2>5. DOMAIN records \subseteq DOMAIN s /\ Len(records) + 1 \in DOMAIN s
    BY <1>1, <2>2
  <2>6. ToSet(s) = ToSet(records) \cup {new}
    BY <1>1, <2>2, <2>3, <2>5 DEF ToSet
  <2> QED BY <2>2, <2>4, <2>6 DEF s
<1>3. CASE same # {}
  <2>1. PICK k \in DOMAIN records : records[k].key = new.key
    BY <1>3
  <2>2. /\ DOMAIN s = DOMAIN records
        /\ \A i \in DOMAIN records : s[i] = IF records[i].key = new.key THEN new ELSE records[i]
    BY <1>3, <1>4
  <2>3. s \in Seq(R)
    <3>1. \A i \in DOMAIN records : records[i] \in R
      OBVIOUS
    <3>2. s = [i \in 1..Len(records) |-> IF records[i].key = new.key THEN new ELSE records[i]]
      BY <1>1, <1>3, <1>4
    <3> QED BY <1>1, <3>1, <3>2
  <2>4. \A i \in DOMAIN records : s[i].key = records[i].key
    BY <2>2
  <2>5. Distinct(s)
    BY <2>2, <2>4, Zenon DEF Distinct
  <2>6. new \in ToSet(s)
    BY <2>1, <2>2 DEF ToSet
  <2>7. \A rec \in ToSet(records) : rec.key # new.key => rec \in ToSet(s)
    BY <2>2 DEF ToSet
  <2>8. ToSet(s) \subseteq ToSet(records) \cup {new}
    BY <2>2 DEF ToSet
  <2> QED BY <2>3, <2>5, <2>6, <2>7, <2>8 DEF s
<1> QED BY <1>2, <1>3

-----------------------------------------------------------------------------
(***************************************************************************)
(* Folds over a finite set.  The community modules fold by a recursion     *)
(* over the subsets of a set, from which an operator takes one element     *)
(* after the other.  The recursion is shown to be defined by a least size  *)
(* for which it is not, and what it returns by a smallest subset for which *)
(* that fails.                                                             *)
(***************************************************************************)

\* What fails for some subset, and not for the empty one, fails for a subset that
\* has no smaller one to blame for it.
LEMMA FirstSubset ==
  ASSUME NEW S, IsFiniteSet(S), NEW T \in SUBSET (SUBSET S), T # {}, {} \notin T
  PROVE  \E s \in T : s # {} /\ \A x \in s : s \ {x} \in SUBSET S /\ s \ {x} \notin T
<1> DEFINE Sizes == {Cardinality(s) : s \in T}
<1>1. Sizes \in SUBSET Nat /\ Sizes # {}
  BY FS_Subset, FS_CardinalityType
<1>2. PICK m \in Sizes : \A k \in Sizes : m <= k
  <2> HIDE DEF Sizes
  <2> QED BY <1>1, LeastNumber
<1>3. PICK s \in T : Cardinality(s) = m
  BY <1>2
<1>4. s # {} /\ s \in SUBSET S
  BY <1>3
<1>5. ASSUME NEW x \in s PROVE s \ {x} \in SUBSET S /\ s \ {x} \notin T
  <2> DEFINE t == s \ {x}
  <2>1. IsFiniteSet(s)
    BY <1>4, FS_Subset
  <2>2. Cardinality(s) \in Nat /\ Cardinality(t) = Cardinality(s) - 1
    BY <2>1, FS_CardinalityType, FS_RemoveElement
  <2>3. ~(m <= Cardinality(t))
    BY <1>3, <2>2
  <2>4. t \in SUBSET S
    BY <1>4
  <2> HIDE DEF t
  <2>5. t \notin T
    BY <1>2, <2>3
  <2> QED BY <2>4, <2>5 DEF t
<1> QED BY <1>4, <1>5

\* F folds the subsets in D: the element that pick names comes last.
FoldsBy(F, pick, base, step, D) ==
  \A s \in D : F[s] = IF s = {} THEN base ELSE step[pick[s]][F[s \ {pick[s]}]]

\* There is such a fold over the subsets of S.
Foldable(S, pick, V, base, step) ==
  \E F \in [SUBSET S -> V] : FoldsBy(F, pick, base, step, SUBSET S)

\* The subsets of S with at most n elements.
Small(S, n) == {s \in SUBSET S : Cardinality(s) <= n}

LEMMA FoldExists ==
  ASSUME NEW S, IsFiniteSet(S), NEW pick, \A s \in SUBSET S : s # {} => pick[s] \in s,
         NEW V, NEW base \in V, NEW step \in [S -> [V -> V]]
  PROVE  Foldable(S, pick, V, base, step)
<1> DEFINE N == Cardinality(S)
           Made(n) == \E F \in [Small(S, n) -> V] : FoldsBy(F, pick, base, step, Small(S, n))
           Bad == {n \in 0..N : ~Made(n)}
<1>1. N \in Nat
  BY FS_CardinalityType
<1>2. \A n \in Nat : \A s \in Small(S, n) : s # {} =>
        /\ pick[s] \in S
        /\ s \ {pick[s]} \in SUBSET S
        /\ Cardinality(s \ {pick[s]}) = Cardinality(s) - 1
        /\ Cardinality(s) \in Nat /\ Cardinality(s) <= n /\ Cardinality(s) # 0
  <2> SUFFICES ASSUME NEW n \in Nat, NEW s \in Small(S, n), s # {}
               PROVE  /\ pick[s] \in S
                      /\ s \ {pick[s]} \in SUBSET S
                      /\ Cardinality(s \ {pick[s]}) = Cardinality(s) - 1
                      /\ Cardinality(s) \in Nat /\ Cardinality(s) <= n /\ Cardinality(s) # 0
    OBVIOUS
  <2>1. s \in SUBSET S /\ pick[s] \in s /\ IsFiniteSet(s) /\ Cardinality(s) <= n
    BY FS_Subset DEF Small
  <2>2. Cardinality(s \ {pick[s]}) = Cardinality(s) - 1 /\ Cardinality(s) \in Nat /\ Cardinality(s) # 0
    BY <2>1, FS_RemoveElement, FS_CardinalityType, FS_EmptySet
  <2> QED BY <2>1, <2>2
<1>3. Small(S, N) = SUBSET S
  BY FS_Subset DEF Small
<1>4. Bad = {}
  <2>1. SUFFICES ASSUME Bad # {} PROVE FALSE
    OBVIOUS
  <2>2. 0 \notin Bad
    <3> DEFINE F == [s \in Small(S, 0) |-> base]
    <3>1. \A s \in Small(S, 0) : s = {}
      <4> SUFFICES ASSUME NEW s \in Small(S, 0), s # {} PROVE FALSE
        OBVIOUS
      <4>1. Cardinality(s) \in Nat /\ Cardinality(s) <= 0 /\ Cardinality(s) # 0
        BY <1>2
      <4> QED BY <4>1
    <3>2. F \in [Small(S, 0) -> V] /\ FoldsBy(F, pick, base, step, Small(S, 0))
      BY <3>1 DEF FoldsBy
    <3> QED BY <3>2
  <2>3. PICK m \in 1..N : m \in Bad /\ m - 1 \in 0..N /\ m - 1 \notin Bad
    <3>1. Bad \in SUBSET (0..N)
      OBVIOUS
    <3> HIDE DEF Bad, N
    <3> QED BY <1>1, <2>1, <2>2, <3>1, FirstFailure
  <2>4. PICK F \in [Small(S, m - 1) -> V] : FoldsBy(F, pick, base, step, Small(S, m - 1))
    BY <2>3
  <2> DEFINE G == [s \in Small(S, m) |->
                     IF s = {} THEN base ELSE step[pick[s]][F[s \ {pick[s]}]]]
  <2>5. m \in Nat /\ m - 1 \in Nat
    BY <2>3
  <2>6. \A s \in Small(S, m) : s # {} =>
          /\ s \ {pick[s]} \in Small(S, m - 1)
          /\ step[pick[s]][F[s \ {pick[s]}]] \in V
    <3> SUFFICES ASSUME NEW s \in Small(S, m), s # {}
                 PROVE  /\ s \ {pick[s]} \in Small(S, m - 1)
                        /\ step[pick[s]][F[s \ {pick[s]}]] \in V
      OBVIOUS
    <3>1. s \ {pick[s]} \in Small(S, m - 1) /\ pick[s] \in S
      BY <1>2, <2>5 DEF Small
    <3>2. F[s \ {pick[s]}] \in V /\ step[pick[s]] \in [V -> V]
      BY <2>4, <3>1
    <3> QED BY <3>1, <3>2
  <2>7. G \in [Small(S, m) -> V]
    BY <2>6
  <2>8. \A s \in Small(S, m - 1) : s \in Small(S, m) /\ G[s] = F[s]
    <3> SUFFICES ASSUME NEW s \in Small(S, m - 1) PROVE s \in Small(S, m) /\ G[s] = F[s]
      OBVIOUS
    <3>1. s \in Small(S, m)
      <4>1. s \in SUBSET S /\ Cardinality(s) \in Nat /\ Cardinality(s) <= m - 1
        BY FS_Subset, FS_CardinalityType DEF Small
      <4> QED BY <4>1, <2>5 DEF Small
    <3> QED BY <2>4, <3>1, Zenon DEF FoldsBy
  <2>9. FoldsBy(G, pick, base, step, Small(S, m))
    <3> SUFFICES ASSUME NEW s \in Small(S, m)
                 PROVE  G[s] = IF s = {} THEN base ELSE step[pick[s]][G[s \ {pick[s]}]]
      BY DEF FoldsBy
    <3>1. G[s] = IF s = {} THEN base ELSE step[pick[s]][F[s \ {pick[s]}]]
      OBVIOUS
    <3> HIDE DEF G
    <3> QED BY <2>6, <2>8, <3>1, Zenon
  <2> HIDE DEF G
  <2> QED BY <2>3, <2>7, <2>9
<1>5. N \in 0..N /\ N \notin Bad
  <2> HIDE DEF Bad
  <2> QED BY <1>1, <1>4
<1>6. PICK F \in [Small(S, N) -> V] : FoldsBy(F, pick, base, step, Small(S, N))
  BY <1>5
<1> QED BY <1>3, <1>6 DEF Foldable

-----------------------------------------------------------------------------
(***************************************************************************)
(* Sums: the folds with + of the community modules.                        *)
(***************************************************************************)
SumOver(f, S) == SumFunctionOnSet(f, S)

Picked(s) == CHOOSE x \in s : TRUE

\* F adds f up over the subsets of S.
Adds(F, f, S) ==
  \A s \in SUBSET S : F[s] = IF s = {} THEN 0 ELSE f[Picked(s)] + F[s \ {Picked(s)}]

Totals(F, f, S) ==
  F = [s \in SUBSET S |-> IF s = {} THEN 0 ELSE f[Picked(s)] + F[s \ {Picked(s)}]]

Total(f, S) == CHOOSE F : Totals(F, f, S)

LEMMA SumIsTotal ==
  ASSUME NEW f, NEW S
  PROVE  SumOver(f, S) = Total(f, S)[S]
  BY DEF SumOver, SumFunctionOnSet, FoldFunctionOnSet, MapThenFoldSet, Total, Totals, Picked

LEMMA TotalAdds ==
  ASSUME NEW S, IsFiniteSet(S), NEW f, \A x \in S : f[x] \in Int
  PROVE  Total(f, S) \in [SUBSET S -> Int] /\ Adds(Total(f, S), f, S)
<1> DEFINE pick == [s \in SUBSET S |-> Picked(s)]
           step == [x \in S |-> [v \in Int |-> f[x] + v]]
           T == Total(f, S)
<1>1. \A s \in SUBSET S : s # {} => pick[s] = Picked(s) /\ pick[s] \in s /\ pick[s] \in S
  BY Zenon DEF Picked
<1>2. step \in [S -> [Int -> Int]] /\ \A x \in S, v \in Int : step[x][v] = f[x] + v
  OBVIOUS
<1> HIDE DEF pick, step
<1>3. PICK F \in [SUBSET S -> Int] : FoldsBy(F, pick, 0, step, SUBSET S)
  <2>1. \A s \in SUBSET S : s # {} => pick[s] \in s
    BY <1>1
  <2>2. step \in [S -> [Int -> Int]] /\ 0 \in Int
    BY <1>2
  <2>3. Foldable(S, pick, Int, 0, step)
    BY <2>1, <2>2, FoldExists
  <2> QED BY <2>3 DEF Foldable
<1>4. \A s \in SUBSET S : s # {} => step[pick[s]][F[s \ {pick[s]}]] = f[Picked(s)] + F[s \ {Picked(s)}]
  <2> SUFFICES ASSUME NEW s \in SUBSET S, s # {}
               PROVE  step[pick[s]][F[s \ {pick[s]}]] = f[Picked(s)] + F[s \ {Picked(s)}]
    OBVIOUS
  <2>1. pick[s] = Picked(s) /\ pick[s] \in S
    BY <1>1
  <2>2. F[s \ {pick[s]}] \in Int
    OBVIOUS
  <2> QED BY <1>2, <2>1, <2>2
<1>5. Adds(F, f, S)
  BY <1>3, <1>4, Zenon DEF FoldsBy, Adds
<1>6. F = [s \in SUBSET S |-> F[s]]
  OBVIOUS
<1>7. Totals(F, f, S)
  BY <1>5, <1>6, Zenon DEF Totals, Adds
<1>8. Totals(T, f, S)
  BY <1>7, Zenon DEF Total
<1> HIDE DEF T
<1>9. T = [s \in SUBSET S |-> T[s]] /\ Adds(T, f, S)
  BY <1>8, Zenon DEF Totals, Adds
<1>10. \A s \in SUBSET S : T[s] = F[s]
  <2> DEFINE Bad == {s \in SUBSET S : T[s] # F[s]}
  <2>1. SUFFICES ASSUME Bad # {} PROVE FALSE
    OBVIOUS
  <2>2. {} \notin Bad
    BY <1>5, <1>9, Zenon DEF Adds
  <2>3. PICK s \in Bad : s # {} /\ \A x \in s : s \ {x} \in SUBSET S /\ s \ {x} \notin Bad
    <3>1. Bad \in SUBSET (SUBSET S)
      OBVIOUS
    <3> HIDE DEF Bad
    <3> QED BY <2>1, <2>2, <3>1, FirstSubset
  <2>4. Picked(s) \in s /\ s \in SUBSET S
    BY <1>1, <2>3
  <2>5. T[s \ {Picked(s)}] = F[s \ {Picked(s)}]
    BY <2>3, <2>4
  <2>6. T[s] = F[s]
    BY <1>5, <1>9, <2>3, <2>4, <2>5, Zenon DEF Adds
  <2> QED BY <2>3, <2>6
<1>11. \A s \in SUBSET S : T[s] \in Int
  BY <1>10
<1>12. T \in [SUBSET S -> Int]
  BY <1>9, <1>11, Zenon
<1> QED BY <1>9, <1>12 DEF T

\* The total of a set, taken apart at any of its elements.
LEMMA TotalSplits ==
  ASSUME NEW S, IsFiniteSet(S), NEW f, \A x \in S : f[x] \in Int
  PROVE  \A s \in SUBSET S : \A x \in s : Total(f, S)[s] = f[x] + Total(f, S)[s \ {x}]
<1> DEFINE T == Total(f, S)
           Bad == {s \in SUBSET S : \E x \in s : T[s] # f[x] + T[s \ {x}]}
<1>1. T \in [SUBSET S -> Int] /\ Adds(T, f, S)
  BY TotalAdds
<1> HIDE DEF T
<1>2. SUFFICES ASSUME Bad # {} PROVE FALSE
  BY DEF T
<1>3. PICK s \in Bad : s # {} /\ \A x \in s : s \ {x} \in SUBSET S /\ s \ {x} \notin Bad
  <2>1. Bad \in SUBSET (SUBSET S) /\ {} \notin Bad
    OBVIOUS
  <2> HIDE DEF Bad
  <2> QED BY <1>2, <2>1, FirstSubset
<1>4. PICK x \in s : T[s] # f[x] + T[s \ {x}]
  BY <1>3
<1> DEFINE p == Picked(s)
<1>5. p \in s /\ s \in SUBSET S
  BY <1>3, Zenon DEF Picked
<1>6. T[s] = f[p] + T[s \ {p}]
  BY <1>1, <1>3, <1>5, Zenon DEF Adds
<1> HIDE DEF p
<1>7. p # x /\ x \in s \ {p} /\ p \in s \ {x}
  BY <1>4, <1>5, <1>6
<1>8. /\ T[s \ {p}] = f[x] + T[(s \ {p}) \ {x}]
      /\ T[s \ {x}] = f[p] + T[(s \ {x}) \ {p}]
  BY <1>3, <1>5, <1>7
<1>9. (s \ {p}) \ {x} = (s \ {x}) \ {p} /\ (s \ {p}) \ {x} \in SUBSET S
  BY <1>5
<1>10. f[x] \in Int /\ f[p] \in Int /\ T[(s \ {p}) \ {x}] \in Int
  <2>1. x \in S /\ p \in S
    BY <1>5, <1>7
  <2> QED BY <1>1, <1>9, <2>1
<1>11. T[s] = f[x] + T[s \ {x}]
  <2> DEFINE r == (s \ {p}) \ {x}
  <2>1. T[s \ {p}] = f[x] + T[r] /\ T[s \ {x}] = f[p] + T[r]
    BY <1>8, <1>9
  <2>2. T[r] \in Int
    BY <1>10
  <2> HIDE DEF r
  <2> QED BY <1>6, <1>10, <2>1, <2>2
<1> QED BY <1>4, <1>11

\* The total over a subset does not depend on what is around it.
LEMMA TotalLocal ==
  ASSUME NEW S, IsFiniteSet(S), NEW f, \A x \in S : f[x] \in Int, NEW R \in SUBSET S
  PROVE  Total(f, S)[R] = SumOver(f, R)
<1> DEFINE T == Total(f, S)
           U == Total(f, R)
           Bad == {s \in SUBSET R : T[s] # U[s]}
<1>1. IsFiniteSet(R) /\ \A x \in R : f[x] \in Int
  BY FS_Subset
<1>2. Adds(T, f, S) /\ Adds(U, f, R)
  BY <1>1, TotalAdds
<1>3. SumOver(f, R) = U[R]
  BY SumIsTotal
<1> HIDE DEF T, U
<1>4. SUFFICES ASSUME Bad # {} PROVE FALSE
  BY <1>3 DEF T
<1>5. {} \notin Bad
  BY <1>2, Zenon DEF Adds
<1>6. PICK s \in Bad : s # {} /\ \A x \in s : s \ {x} \in SUBSET R /\ s \ {x} \notin Bad
  <2>1. Bad \in SUBSET (SUBSET R)
    OBVIOUS
  <2> HIDE DEF Bad
  <2> QED BY <1>1, <1>4, <1>5, <2>1, FirstSubset
<1>7. Picked(s) \in s /\ s \in SUBSET R /\ s \in SUBSET S
  BY <1>6, Zenon DEF Picked
<1>8. T[s \ {Picked(s)}] = U[s \ {Picked(s)}]
  BY <1>6, <1>7
<1>9. T[s] = U[s]
  BY <1>2, <1>6, <1>7, <1>8, Zenon DEF Adds
<1> QED BY <1>6, <1>9

\* What there is to know of a sum of numbers: one element after the other.
LEMMA SumSplits ==
  ASSUME NEW S, IsFiniteSet(S), NEW f, \A x \in S : f[x] \in Int
  PROVE  /\ SumOver(f, S) \in Int
         /\ SumOver(f, {}) = 0
         /\ \A x \in S : SumOver(f, S) = f[x] + SumOver(f, S \ {x})
<1>1. Total(f, S) \in [SUBSET S -> Int] /\ Adds(Total(f, S), f, S)
  BY TotalAdds
<1>2. SumOver(f, S) = Total(f, S)[S]
  BY SumIsTotal
<1>3. SumOver(f, {}) = 0
  <2>1. Total(f, S)[{}] = 0
    BY <1>1, Zenon DEF Adds
  <2>2. Total(f, S)[{}] = SumOver(f, {})
    BY TotalLocal
  <2> QED BY <2>1, <2>2
<1>4. ASSUME NEW x \in S PROVE SumOver(f, S) = f[x] + SumOver(f, S \ {x})
  <2>1. Total(f, S)[S] = f[x] + Total(f, S)[S \ {x}]
    BY TotalSplits
  <2>2. Total(f, S)[S \ {x}] = SumOver(f, S \ {x})
    BY TotalLocal
  <2> QED BY <1>2, <2>1, <2>2
<1>5. SumOver(f, S) \in Int
  BY <1>1, <1>2
<1> QED BY <1>3, <1>4, <1>5

\* Entry by entry no more: a sum that is no more.
LEMMA SumGrows ==
  ASSUME NEW S, IsFiniteSet(S), NEW f, NEW g,
         \A x \in S : f[x] \in Int /\ g[x] \in Int /\ f[x] <= g[x]
  PROVE  SumOver(f, S) <= SumOver(g, S)
<1> DEFINE Bad == {s \in SUBSET S : ~(SumOver(f, s) <= SumOver(g, s))}
<1>1. \A s \in SUBSET S :
        /\ SumOver(f, s) \in Int /\ SumOver(f, {}) = 0
        /\ SumOver(g, s) \in Int /\ SumOver(g, {}) = 0
        /\ \A x \in s : /\ SumOver(f, s) = f[x] + SumOver(f, s \ {x})
                        /\ SumOver(g, s) = g[x] + SumOver(g, s \ {x})
  <2> SUFFICES ASSUME NEW s \in SUBSET S
               PROVE  /\ SumOver(f, s) \in Int /\ SumOver(f, {}) = 0
                      /\ SumOver(g, s) \in Int /\ SumOver(g, {}) = 0
                      /\ \A x \in s : /\ SumOver(f, s) = f[x] + SumOver(f, s \ {x})
                                      /\ SumOver(g, s) = g[x] + SumOver(g, s \ {x})
    OBVIOUS
  <2>1. IsFiniteSet(s) /\ (\A x \in s : f[x] \in Int) /\ (\A x \in s : g[x] \in Int)
    BY FS_Subset
  <2> QED BY <2>1, SumSplits
<1>2. SUFFICES ASSUME Bad # {} PROVE FALSE
  <2>1. S \in SUBSET S
    OBVIOUS
  <2> QED BY <1>2, <2>1
<1>3. {} \notin Bad
  BY <1>1
<1>4. PICK s \in Bad : s # {} /\ \A x \in s : s \ {x} \in SUBSET S /\ s \ {x} \notin Bad
  <2>1. Bad \in SUBSET (SUBSET S)
    OBVIOUS
  <2> HIDE DEF Bad
  <2> QED BY <1>2, <1>3, <2>1, FirstSubset
<1>5. PICK x \in s : s \in SUBSET S
  BY <1>4
<1>6. s \ {x} \in SUBSET S /\ SumOver(f, s \ {x}) <= SumOver(g, s \ {x})
  BY <1>4, <1>5
<1>7. /\ SumOver(f, s \ {x}) \in Int /\ SumOver(g, s \ {x}) \in Int
      /\ SumOver(f, s) = f[x] + SumOver(f, s \ {x})
      /\ SumOver(g, s) = g[x] + SumOver(g, s \ {x})
  BY <1>1, <1>5, <1>6
<1>8. f[x] \in Int /\ g[x] \in Int /\ f[x] <= g[x]
  BY <1>5
<1>9. SumOver(f, s) <= SumOver(g, s)
  BY <1>6, <1>7, <1>8
<1> QED BY <1>4, <1>9

\* Entries that are the same have the same sum.
LEMMA SumAgrees ==
  ASSUME NEW S, IsFiniteSet(S), NEW f, NEW g,
         \A x \in S : f[x] \in Int /\ g[x] = f[x]
  PROVE  SumOver(f, S) = SumOver(g, S)
<1>1. \A x \in S : f[x] \in Int /\ g[x] \in Int /\ f[x] <= g[x] /\ g[x] <= f[x]
  OBVIOUS
<1>2. SumOver(f, S) <= SumOver(g, S) /\ SumOver(g, S) <= SumOver(f, S)
  BY <1>1, SumGrows
<1>3. SumOver(f, S) \in Int /\ SumOver(g, S) \in Int
  BY <1>1, SumSplits
<1> QED BY <1>2, <1>3

\* The sum of zeros.
LEMMA SumOfZeros ==
  ASSUME NEW S, IsFiniteSet(S)
  PROVE  SumOver([x \in S |-> 0], S) = 0
<1> DEFINE f == [x \in S |-> 0]
           Bad == {s \in SUBSET S : SumOver(f, s) # 0}
<1>1. \A x \in S : f[x] = 0
  OBVIOUS
<1> HIDE DEF f
<1>2. SUFFICES ASSUME Bad # {} PROVE FALSE
  <2>1. S \in SUBSET S
    OBVIOUS
  <2> QED BY <1>2, <2>1 DEF f
<1>3. {} \notin Bad
  BY <1>1, SumSplits
<1>4. PICK s \in Bad : s # {} /\ \A x \in s : s \ {x} \in SUBSET S /\ s \ {x} \notin Bad
  <2>1. Bad \in SUBSET (SUBSET S)
    OBVIOUS
  <2> HIDE DEF Bad
  <2> QED BY <1>2, <1>3, <2>1, FirstSubset
<1>5. PICK x \in s : s \in SUBSET S
  BY <1>4
<1>6. SumOver(f, s) = f[x] + SumOver(f, s \ {x})
  <2>1. IsFiniteSet(s) /\ \A y \in s : f[y] \in Int
    BY <1>1, <1>5, FS_Subset
  <2> QED BY <1>5, <2>1, SumSplits
<1>7. SumOver(f, s \ {x}) = 0 /\ f[x] = 0
  BY <1>1, <1>4, <1>5
<1> QED BY <1>4, <1>6, <1>7

\* The sum lies between the number of entries times their bounds.
LEMMA SumBetween ==
  ASSUME NEW S, IsFiniteSet(S), NEW low \in Int, NEW high \in Int, NEW f,
         \A x \in S : f[x] \in low..high
  PROVE  /\ SumOver(f, S) \in Int
         /\ low * Cardinality(S) <= SumOver(f, S)
         /\ SumOver(f, S) <= high * Cardinality(S)
<1> DEFINE Within(s) == /\ low * Cardinality(s) <= SumOver(f, s)
                        /\ SumOver(f, s) <= high * Cardinality(s)
           Bad == {s \in SUBSET S : ~Within(s)}
<1>1. \A x \in S : f[x] \in Int /\ low <= f[x] /\ f[x] <= high
  OBVIOUS
<1>2. SUFFICES ASSUME Bad # {} PROVE FALSE
  <2>1. S \in SUBSET S
    OBVIOUS
  <2>2. SumOver(f, S) \in Int
    BY <1>1, SumSplits
  <2> QED BY <1>2, <2>1, <2>2
<1>3. {} \notin Bad
  <2>1. SumOver(f, {}) = 0 /\ Cardinality({}) = 0
    BY <1>1, SumSplits, FS_EmptySet
  <2> QED BY <2>1
<1>4. PICK s \in Bad : s # {} /\ \A x \in s : s \ {x} \in SUBSET S /\ s \ {x} \notin Bad
  <2>1. Bad \in SUBSET (SUBSET S)
    OBVIOUS
  <2> HIDE DEF Bad
  <2> QED BY <1>2, <1>3, <2>1, FirstSubset
<1>5. PICK x \in s : s \in SUBSET S
  BY <1>4
<1> DEFINE t == s \ {x}
<1>6. /\ IsFiniteSet(s) /\ (\A y \in s : f[y] \in Int)
      /\ IsFiniteSet(t) /\ (\A y \in t : f[y] \in Int)
  BY <1>1, <1>5, FS_Subset
<1>7. SumOver(f, s) = f[x] + SumOver(f, t) /\ SumOver(f, t) \in Int
  BY <1>5, <1>6, SumSplits
<1>8. Cardinality(t) \in Nat /\ Cardinality(s) = Cardinality(t) + 1
  BY <1>5, <1>6, FS_CardinalityType, FS_RemoveElement
<1>9. Within(t)
  BY <1>4, <1>5
<1>10. f[x] \in Int /\ low <= f[x] /\ f[x] <= high
  BY <1>1, <1>5
<1> HIDE DEF t
<1>11. /\ low * Cardinality(s) = low * Cardinality(t) + low
       /\ high * Cardinality(s) = high * Cardinality(t) + high
  BY <1>8
<1>12. low * Cardinality(t) \in Int /\ high * Cardinality(t) \in Int
  BY <1>8
<1>13. Within(s)
  BY <1>7, <1>9, <1>10, <1>11, <1>12
<1> QED BY <1>4, <1>13

\* Raising one entry by a raises the sum by a.
LEMMA SumRaised ==
  ASSUME NEW S, IsFiniteSet(S), NEW f \in [S -> Nat], NEW x \in S, NEW a \in Nat
  PROVE  SumOver([f EXCEPT ![x] = @ + a], S) = SumOver(f, S) + a
<1> DEFINE g == [f EXCEPT ![x] = @ + a]
           R == S \ {x}
<1>1. \A y \in S : f[y] \in Int /\ g[y] \in Int /\ g[y] = f[y] + (IF y = x THEN a ELSE 0)
  OBVIOUS
<1>2. IsFiniteSet(R) /\ (\A y \in R : f[y] \in Int /\ g[y] = f[y])
  BY <1>1, FS_Subset
<1> HIDE DEF g
<1>3. SumOver(f, S) = f[x] + SumOver(f, R) /\ SumOver(g, S) = g[x] + SumOver(g, R)
  BY <1>1, SumSplits
<1>4. SumOver(f, R) = SumOver(g, R)
  <2> HIDE DEF R
  <2> QED BY <1>2, SumAgrees
<1>5. SumOver(f, R) \in Int /\ f[x] \in Int /\ g[x] = f[x] + a
  <2>1. \A y \in R : f[y] \in Int
    BY <1>2
  <2> QED BY <1>1, <1>2, <2>1, SumSplits
<1> HIDE DEF R
<1> QED BY <1>3, <1>4, <1>5 DEF g

-----------------------------------------------------------------------------
(***************************************************************************)
(* Finite sets: images, greatest elements, and the elements in an order.   *)
(***************************************************************************)
LEMMA ImageFinite ==
  ASSUME NEW S, IsFiniteSet(S), NEW f
  PROVE  /\ IsFiniteSet({f[x] : x \in S})
         /\ Cardinality({f[x] : x \in S}) <= Cardinality(S)
<1> DEFINE T == {f[x] : x \in S}
           g == [x \in S |-> f[x]]
<1>1. g \in Surjection(S, T)
  BY DEF Surjection
<1> HIDE DEF T, g
<1>2. IsFiniteSet(T) /\ Cardinality(T) <= Cardinality(S)
  BY <1>1, FS_Surjection
<1> QED BY <1>2 DEF T

\* R orders S: of two elements one is below the other.
Orders(R, S) ==
  /\ \A x, y \in S : x # y => <<x, y>> \in R \/ <<y, x>> \in R
  /\ \A x, y, z \in S : <<x, y>> \in R /\ <<y, z>> \in R => <<x, z>> \in R

LEMMA HasGreatest ==
  ASSUME NEW S, IsFiniteSet(S), S # {}, NEW R, Orders(R, S)
  PROVE  \E x \in S : \A y \in S : y # x => <<y, x>> \in R
<1> DEFINE Tops(s) == {x \in s : \A y \in s : y # x => <<y, x>> \in R}
           Bad == {s \in SUBSET S : s # {} /\ Tops(s) = {}}
<1>1. SUFFICES ASSUME Bad # {} PROVE FALSE
  <2>1. S \in SUBSET S
    OBVIOUS
  <2>2. Tops(S) # {}
    BY <1>1, <2>1
  <2> QED BY <2>2
<1>2. PICK s \in Bad : s # {} /\ \A x \in s : s \ {x} \in SUBSET S /\ s \ {x} \notin Bad
  <2>1. Bad \in SUBSET (SUBSET S) /\ {} \notin Bad
    OBVIOUS
  <2> HIDE DEF Bad
  <2> QED BY <1>1, <2>1, FirstSubset
<1>3. PICK x \in s : s \in SUBSET S
  BY <1>2
<1> DEFINE t == s \ {x}
<1>4. Tops(s) = {}
  BY <1>2
<1>5. CASE t = {}
  <2>1. x \in Tops(s)
    BY <1>3, <1>5
  <2> QED BY <1>4, <2>1
<1>6. CASE t # {}
  <2>1. PICK m \in t : \A y \in t : y # m => <<y, m>> \in R
    <3>1. Tops(t) # {}
      BY <1>2, <1>3, <1>6
    <3> QED BY <3>1
  <2>2. m \in S /\ x \in S /\ m # x /\ m \in s /\ s = t \cup {x} /\ \A y \in t : y \in S
    BY <1>3
  <2> HIDE DEF t
  <2>3. CASE <<x, m>> \in R
    <3>1. m \in Tops(s)
      BY <2>1, <2>2, <2>3
    <3> QED BY <1>4, <3>1
  <2>4. CASE <<m, x>> \in R
    <3>1. \A y \in t : <<y, x>> \in R
      BY <2>1, <2>2, <2>4 DEF Orders
    <3>2. x \in Tops(s)
      BY <1>3, <2>2, <3>1
    <3> QED BY <1>4, <3>2
  <2> QED BY <2>2, <2>3, <2>4 DEF Orders
<1> QED BY <1>5, <1>6

\* A finite set of numbers has a greatest.
LEMMA GreatestNumber ==
  ASSUME NEW S \in SUBSET Int, IsFiniteSet(S), S # {}
  PROVE  \E x \in S : \A y \in S : y <= x
<1> DEFINE R == {p \in S \X S : p[1] < p[2]}
<1>1. \A x, y \in S : <<x, y>> \in R <=> x < y
  OBVIOUS
<1> HIDE DEF R
<1>2. Orders(R, S)
  <2>1. \A x, y \in S : x # y => x < y \/ y < x
    OBVIOUS
  <2>2. \A x, y, z \in S : x < y /\ y < z => x < z
    OBVIOUS
  <2> QED BY <1>1, <2>1, <2>2, Zenon DEF Orders
<1>3. PICK x \in S : \A y \in S : y # x => <<y, x>> \in R
  BY <1>2, HasGreatest
<1>4. ASSUME NEW y \in S PROVE y <= x
  <2>1. x \in Int /\ y \in Int
    OBVIOUS
  <2>2. y # x => y < x
    BY <1>1, <1>3
  <2> QED BY <2>1, <2>2
<1> QED BY <1>4

\* f lists S, the lower elements first.
Listing(f, R, S) ==
  /\ f \in [1..Cardinality(S) -> S]
  /\ \A i, j \in 1..Cardinality(S) : i < j => f[i] # f[j] /\ <<f[i], f[j]>> \in R

LEMMA OrderLists ==
  ASSUME NEW S, IsFiniteSet(S), NEW R, Orders(R, S)
  PROVE  \E f : Listing(f, R, S)
<1> DEFINE Bad == {s \in SUBSET S : ~\E f : Listing(f, R, s)}
<1>1. SUFFICES ASSUME Bad # {} PROVE FALSE
  <2>1. S \in SUBSET S
    OBVIOUS
  <2> QED BY <1>1, <2>1
<1>2. {} \notin Bad
  <2>1. Cardinality({}) = 0
    BY FS_EmptySet
  <2>2. Listing([i \in {} |-> i], R, {})
    BY <2>1 DEF Listing
  <2> QED BY <2>2
<1>3. PICK s \in Bad : s # {} /\ \A x \in s : s \ {x} \in SUBSET S /\ s \ {x} \notin Bad
  <2>1. Bad \in SUBSET (SUBSET S)
    OBVIOUS
  <2> HIDE DEF Bad
  <2> QED BY <1>1, <1>2, <2>1, FirstSubset
<1>4. IsFiniteSet(s) /\ s \in SUBSET S /\ Orders(R, s)
  <2>1. s \in SUBSET S
    BY <1>3
  <2> QED BY <2>1, FS_Subset DEF Orders
<1>5. PICK x \in s : \A y \in s : y # x => <<y, x>> \in R
  BY <1>3, <1>4, HasGreatest
<1> DEFINE t == s \ {x}
           n == Cardinality(t)
<1>6. PICK f : Listing(f, R, t)
  BY <1>3, <1>5
<1>7. n \in Nat /\ Cardinality(s) = n + 1
  <2>1. IsFiniteSet(t)
    BY <1>4, FS_Subset
  <2>2. Cardinality(t) \in Nat /\ Cardinality(s) \in Nat
    BY <1>4, <2>1, FS_CardinalityType
  <2>3. Cardinality(t) = Cardinality(s) - 1
    BY <1>4, <1>5, FS_RemoveElement
  <2> QED BY <2>2, <2>3
<1> DEFINE g == [i \in 1..(n + 1) |-> IF i = n + 1 THEN x ELSE f[i]]
<1>8. \A i \in 1..n : f[i] \in s /\ f[i] # x
  BY <1>6 DEF Listing
<1>9. g \in [1..(n + 1) -> s]
  <2> HIDE DEF n
  <2> QED BY <1>5, <1>7, <1>8
<1>10. /\ g[n + 1] = x
       /\ \A i \in 1..n : g[i] = f[i]
       /\ \A i \in 1..(n + 1) : i # n + 1 => i \in 1..n
  <2> HIDE DEF n
  <2> QED BY <1>7
<1>11. \A i, j \in 1..n : i < j => f[i] # f[j] /\ <<f[i], f[j]>> \in R
  BY <1>6 DEF Listing
<1> HIDE DEF g, n, t
<1>12. ASSUME NEW i \in 1..(n + 1), NEW j \in 1..(n + 1), i < j
       PROVE  g[i] # g[j] /\ <<g[i], g[j]>> \in R
  <2>1. i \in 1..n
    BY <1>7, <1>12
  <2>2. CASE j = n + 1
    BY <1>5, <1>8, <1>10, <2>1, <2>2
  <2>3. CASE j # n + 1
    BY <1>10, <1>11, <1>12, <2>1, <2>3
  <2> QED BY <2>2, <2>3
<1>13. Listing(g, R, s)
  BY <1>7, <1>9, <1>12 DEF Listing
<1> QED BY <1>3, <1>13

\* A list of a finite set without repetition, and what it has in it.
LEMMA SetToSeqLists ==
  ASSUME NEW S, IsFiniteSet(S)
  PROVE  /\ SetToSeq(S) \in Seq(S)
         /\ Len(SetToSeq(S)) = Cardinality(S)
         /\ ToSet(SetToSeq(S)) = S
<1> DEFINE n == Cardinality(S)
           q == SetToSeq(S)
<1>1. n \in Nat /\ ExistsBijection(1..n, S)
  BY FS_CardinalityType
<1>2. PICK f \in Bijection(1..n, S) : TRUE
  BY <1>1 DEF ExistsBijection
<1>3. f \in [1..n -> S] /\ IsInjective(f)
  BY <1>2 DEF Bijection, Injection, IsInjective
<1>4. q \in [1..n -> S] /\ IsInjective(q)
  BY <1>3, Zenon DEF SetToSeq
<1>5. q \in Seq(S) /\ Len(q) = n
  <2> HIDE DEF q, n
  <2> QED BY <1>1, <1>4
<1>6. q \in Injection(1..n, S)
  <2> HIDE DEF q, n
  <2> QED BY <1>4 DEF Injection, IsInjective
<1>7. q \in Surjection(1..n, S)
  <2>1. Cardinality(1..n) = n /\ IsFiniteSet(1..n)
    BY <1>1, FS_Interval
  <2> HIDE DEF q
  <2> QED BY <1>6, <2>1, FS_Injection
<1>8. ToSet(q) = S
  <2> HIDE DEF q
  <2>1. \A x \in S : \E i \in 1..n : q[i] = x
    BY <1>7 DEF Surjection
  <2>2. DOMAIN q = 1..n
    BY <1>4
  <2> HIDE DEF n
  <2> QED BY <1>4, <2>1, <2>2 DEF ToSet
<1> QED BY <1>5, <1>8
===============================================================================
