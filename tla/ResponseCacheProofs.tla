-------------------------- MODULE ResponseCacheProofs --------------------------
(***************************************************************************)
(* Proofs about the read caches, for every number of wallets, readers and  *)
(* writers, every set of endpoints and every size and age of the caches.   *)
(***************************************************************************)
EXTENDS ResponseCache, CollectionProofs

-----------------------------------------------------------------------------
(* The operations of a cache *)

\* A cache: a Map with no more than its maximum of entries.
IsCache(c, R) == c \in Seq(R) /\ Distinct(c) /\ Len(c) <= MaxEntries

LEMMA MaximumIsPositive == MaxEntries \in Nat /\ MaxEntries >= 1
  BY BoundsAssumption

\* An entry with a key of its own at the end of a Map.
LEMMA AppendKeepsDistinct ==
  ASSUME NEW R, NEW c \in Seq(R), Distinct(c), NEW e \in R,
         \A other \in ToSet(c) : other.key # e.key
  PROVE  /\ Append(c, e) \in Seq(R)
         /\ Len(Append(c, e)) = Len(c) + 1
         /\ Distinct(Append(c, e))
         /\ ToSet(Append(c, e)) = ToSet(c) \cup {e}
<1> DEFINE t == Append(c, e)
           n == Len(c)
<1>1. /\ n \in Nat /\ DOMAIN c = 1..n /\ n + 1 \notin 1..n
      /\ t \in Seq(R) /\ Len(t) = n + 1 /\ DOMAIN t = 1..(n + 1)
      /\ t[n + 1] = e /\ \A i \in 1..n : t[i] = c[i]
  OBVIOUS
<1> HIDE DEF t, n
<1>2. \A i \in 1..(n + 1) : i = n + 1 \/ i \in 1..n
  BY <1>1
<1>3. \A i \in 1..n : c[i].key # e.key
  BY <1>1 DEF ToSet
<1>4. \A i, j \in 1..n : c[i].key = c[j].key => i = j
  BY <1>1 DEF Distinct
<1>5. \A i, j \in 1..(n + 1) : t[i].key = t[j].key => i = j
  BY <1>1, <1>2, <1>3, <1>4, Zenon
<1>6. Distinct(t)
  BY <1>1, <1>5, Zenon DEF Distinct
<1>7. 1..n \subseteq 1..(n + 1) /\ n + 1 \in 1..(n + 1)
  BY <1>1
<1>8. ToSet(t) = ToSet(c) \cup {e}
  BY <1>1, <1>2, <1>7 DEF ToSet
<1> QED BY <1>1, <1>6, <1>8 DEF t, n

\* delete: the key's entry goes, and makes room if there was one.
LEMMA WithoutKeepsCache ==
  ASSUME NEW R, NEW c, IsCache(c, R), NEW key
  PROVE  /\ IsCache(Without(c, key), R)
         /\ ToSet(Without(c, key)) = {e \in ToSet(c) : e.key # key}
         /\ \A e \in ToSet(c) : e.key = key => Len(Without(c, key)) < Len(c)
<1> DEFINE dropped == {e \in ToSet(c) : e.key = key}
<1>1. Without(c, key) = Drop(c, dropped)
  BY DEF Without
<1>2. /\ \A e \in ToSet(c) : e.key = key => ToSet(c) \cap dropped # {}
      /\ ToSet(c) \ dropped = {e \in ToSet(c) : e.key # key}
  OBVIOUS
<1> HIDE DEF dropped
<1>3. c \in Seq(R) /\ Distinct(c) /\ Len(c) \in Nat /\ Len(c) <= MaxEntries /\ MaxEntries \in Nat
  BY MaximumIsPositive DEF IsCache
<1>4. /\ Drop(c, dropped) \in Seq(R) /\ Distinct(Drop(c, dropped))
      /\ ToSet(Drop(c, dropped)) = ToSet(c) \ dropped
  BY <1>3, DropKeepsDistinct
<1>5. /\ Len(Drop(c, dropped)) <= Len(c)
      /\ ToSet(c) \cap dropped # {} => Len(Drop(c, dropped)) < Len(c)
  BY <1>3, DropKeeps
<1>6. Len(Drop(c, dropped)) <= MaxEntries
  BY <1>3, <1>4, <1>5
<1> QED BY <1>1, <1>2, <1>4, <1>5, <1>6 DEF IsCache

\* get: what is left was there.
LEMMA AfterGetKeepsCache ==
  ASSUME NEW R, NEW c, IsCache(c, R), NEW key, NEW t
  PROVE  /\ IsCache(AfterGet(c, key, t), R)
         /\ ToSet(AfterGet(c, key, t)) \subseteq ToSet(c)
<1> DEFINE rest == Without(c, key)
<1>1. /\ IsCache(rest, R)
      /\ ToSet(rest) = {e \in ToSet(c) : e.key # key}
      /\ \A e \in ToSet(c) : e.key = key => Len(rest) < Len(c)
  BY WithoutKeepsCache
<1> HIDE DEF rest
<1>2. CASE Found(c, key, t) = {}
  BY <1>1, <1>2 DEF AfterGet, rest
<1>3. CASE Found(c, key, t) # {}
  <2>1. PICK e \in Found(c, key, t) : AfterGet(c, key, t) = Append(rest, e)
    BY <1>3 DEF AfterGet, rest
  <2>2. e \in ToSet(c) /\ e.key = key
    BY <2>1 DEF Found, Keyed, ToSet
  <2>3. e \in R
    BY <2>2 DEF IsCache, ToSet
  <2>4. Len(rest) \in Nat /\ Len(c) \in Nat /\ Len(rest) < Len(c)
    BY <1>1, <2>2 DEF IsCache
  <2>5. /\ Append(rest, e) \in Seq(R) /\ Len(Append(rest, e)) = Len(rest) + 1
        /\ Distinct(Append(rest, e)) /\ ToSet(Append(rest, e)) = ToSet(rest) \cup {e}
    BY <1>1, <2>2, <2>3, AppendKeepsDistinct DEF IsCache
  <2>6. Len(Append(rest, e)) <= MaxEntries
    BY <2>4, <2>5, MaximumIsPositive DEF IsCache
  <2> QED BY <1>1, <2>1, <2>2, <2>5, <2>6 DEF IsCache
<1> QED BY <1>2, <1>3

\* set: the entry, and of the others those that need not make room.
LEMMA AfterSetKeepsCache ==
  ASSUME NEW R, NEW c, IsCache(c, R), NEW e \in R
  PROVE  /\ IsCache(AfterSet(c, e, MaxEntries), R)
         /\ ToSet(AfterSet(c, e, MaxEntries)) \subseteq ToSet(c) \cup {e}
<1> DEFINE rest == Without(c, e.key)
           full == Append(rest, e)
           overflow == IF Len(full) > MaxEntries THEN Len(full) - MaxEntries ELSE 0
<1>1. IsCache(rest, R) /\ ToSet(rest) = {f \in ToSet(c) : f.key # e.key}
  BY WithoutKeepsCache
<1>2. AfterSet(c, e, MaxEntries) = SubSeq(full, overflow + 1, Len(full))
  BY DEF AfterSet
<1> HIDE DEF rest
<1>3. full \in Seq(R) /\ Distinct(full) /\ ToSet(full) = ToSet(rest) \cup {e}
  BY <1>1, AppendKeepsDistinct DEF IsCache
<1> HIDE DEF full
<1>4. overflow \in 0..Len(full) /\ Len(full) - overflow <= MaxEntries
  BY <1>3, MaximumIsPositive
<1> HIDE DEF overflow
<1>5. /\ SubSeq(full, overflow + 1, Len(full)) \in Seq(R)
      /\ Distinct(SubSeq(full, overflow + 1, Len(full)))
      /\ ToSet(SubSeq(full, overflow + 1, Len(full))) \subseteq ToSet(full)
  BY <1>3, <1>4, SuffixKeepsDistinct
<1>6. Len(SubSeq(full, overflow + 1, Len(full))) = Len(full) - overflow
  BY <1>3, <1>4, SuffixIs
<1> QED BY <1>1, <1>2, <1>3, <1>4, <1>5, <1>6 DEF IsCache

-----------------------------------------------------------------------------
(***************************************************************************)
(* The order of a Map's keys.  h says where in s each element of t stood.  *)
(***************************************************************************)
KeysOf(c) == [i \in DOMAIN c |-> c[i].key]

Within(h, t, s) ==
  /\ h \in [1..Len(t) -> 1..Len(s)]
  /\ \A i, j \in 1..Len(t) : i < j => h[i] < h[j]
  /\ \A j \in 1..Len(t) : t[j] = s[h[j]]

Gone(t, keys) == {k \in ToSet(keys) : Keyed(t, k) = {}}

LEMMA KeysOfIs ==
  ASSUME NEW R, NEW K, \A e \in R : e.key \in K, NEW c \in Seq(R)
  PROVE  /\ KeysOf(c) \in Seq(K) /\ Len(KeysOf(c)) = Len(c)
         /\ \A i \in 1..Len(c) : KeysOf(c)[i] = c[i].key
<1>1. Len(c) \in Nat /\ DOMAIN c = 1..Len(c) /\ \A i \in 1..Len(c) : c[i] \in R
  OBVIOUS
<1>2. KeysOf(c) = [i \in 1..Len(c) |-> c[i].key]
  BY <1>1 DEF KeysOf
<1>3. \A i \in 1..Len(c) : c[i].key \in K
  BY <1>1
<1> QED BY <1>1, <1>2, <1>3

\* What is within a Map has the Map's keys, without those it has no entry for.
LEMMA WithinKeepsOrder ==
  ASSUME NEW R, NEW K, \A e \in R : e.key \in K,
         NEW s \in Seq(R), Distinct(s), NEW t \in Seq(R), NEW h, Within(h, t, s)
  PROVE  KeysOf(t) = Drop(KeysOf(s), Gone(t, KeysOf(s)))
<1> DEFINE dropped == Gone(t, KeysOf(s))
           ks == KeysOf(s)
           kt == KeysOf(t)
           n == Len(s)
           m == Len(t)
<1>1. /\ ks \in Seq(K) /\ Len(ks) = n /\ \A i \in 1..n : ks[i] = s[i].key
      /\ kt \in Seq(K) /\ Len(kt) = m /\ \A i \in 1..m : kt[i] = t[i].key
  BY KeysOfIs
<1>2. /\ n \in Nat /\ m \in Nat /\ DOMAIN s = 1..n /\ DOMAIN t = 1..m
  OBVIOUS
<1>3. \A k : k \in dropped <=> k \in ToSet(ks) /\ Keyed(t, k) = {}
  BY DEF Gone
<1> HIDE DEF dropped, ks, kt, n, m
<1>4. /\ h \in [1..m -> 1..n]
      /\ \A i, j \in 1..m : i < j => h[i] < h[j]
      /\ \A j \in 1..m : t[j] = s[h[j]]
  BY Zenon DEF Within, n, m
<1>5. \A j \in 1..m : kt[j] = ks[h[j]] /\ kt[j] \notin dropped
  <2> SUFFICES ASSUME NEW j \in 1..m PROVE kt[j] = ks[h[j]] /\ kt[j] \notin dropped
    OBVIOUS
  <2>1. h[j] \in 1..n
    BY <1>4
  <2>2. j \in Keyed(t, kt[j])
    BY <1>1, <1>2 DEF Keyed
  <2> QED BY <1>1, <1>3, <1>4, <2>1, <2>2
<1>6. \A i \in 1..n : ks[i] \notin dropped => \E j \in 1..m : h[j] = i
  <2> SUFFICES ASSUME NEW i \in 1..n, ks[i] \notin dropped PROVE \E j \in 1..m : h[j] = i
    OBVIOUS
  <2>1. ks[i] \in ToSet(ks)
    <3>1. DOMAIN ks = 1..n
      BY <1>1
    <3> QED BY <3>1 DEF ToSet
  <2>2. PICK j \in 1..m : t[j].key = ks[i]
    BY <1>2, <1>3, <2>1 DEF Keyed
  <2>3. s[h[j]].key = s[i].key /\ h[j] \in 1..n
    BY <1>1, <1>4, <2>2
  <2>4. h[j] = i
    BY <1>2, <2>3 DEF Distinct
  <2> QED BY <2>4
<1>7. Selects(h, kt, ks, Len(ks), dropped)
  BY <1>1, <1>4, <1>5, <1>6, Zenon DEF Selects
<1> QED BY <1>1, <1>7, SelectedIsDrop DEF dropped, ks, kt

\* Of the keys of a Map, those of the entries that are left.
LEMMA DropKeepsOrder ==
  ASSUME NEW R, NEW K, \A e \in R : e.key \in K, NEW s \in Seq(R), Distinct(s), NEW dropped
  PROVE  KeysOf(Drop(s, dropped)) = Drop(KeysOf(s), Gone(Drop(s, dropped), KeysOf(s)))
<1>1. Drop(s, dropped) \in Seq(R) /\ Selected(Drop(s, dropped), s, Len(s), dropped)
  BY DropSelects
<1>2. PICK h : Selects(h, Drop(s, dropped), s, Len(s), dropped)
  BY <1>1 DEF Selected
<1>3. Within(h, Drop(s, dropped), s)
  BY <1>2 DEF Selects, Within
<1> QED BY <1>1, <1>3, WithinKeepsOrder

LEMMA SuffixKeepsOrder ==
  ASSUME NEW R, NEW K, \A e \in R : e.key \in K, NEW s \in Seq(R), Distinct(s),
         NEW first \in 0..Len(s), NEW t, t = SubSeq(s, first + 1, Len(s))
  PROVE  KeysOf(t) = Drop(KeysOf(s), Gone(t, KeysOf(s)))
<1> DEFINE h == [j \in 1..Len(t) |-> j + first]
<1>1. /\ t \in Seq(R) /\ Len(t) = Len(s) - first
      /\ \A i \in 1..Len(t) : i + first \in 1..Len(s) /\ t[i] = s[i + first]
  BY SuffixIs
<1>2. Within(h, t, s)
  <2>1. h \in [1..Len(t) -> 1..Len(s)]
    BY <1>1
  <2>2. \A i, j \in 1..Len(t) : i < j => h[i] < h[j]
    BY <1>1
  <2>3. \A j \in 1..Len(t) : h[j] = j + first
    OBVIOUS
  <2> HIDE DEF h
  <2> QED BY <1>1, <2>1, <2>2, <2>3 DEF Within
<1> HIDE DEF h
<1> QED BY <1>1, <1>2, WithinKeepsOrder

\* A key is taken out, and put at the end.
LEMMA MovedToTheEnd ==
  ASSUME NEW R, NEW K, \A e \in R : e.key \in K, NEW s \in Seq(R), Distinct(s),
         NEW e \in R
  PROVE  KeysOf(Append(Without(s, e.key), e)) = Append(Drop(KeysOf(s), {e.key}), e.key)
<1> DEFINE dropped == {f \in ToSet(s) : f.key = e.key}
           t == Without(s, e.key)
           ks == KeysOf(s)
           kt == KeysOf(t)
<1>1. t = Drop(s, dropped)
  BY DEF Without
<1>2. t \in Seq(R) /\ Selected(t, s, Len(s), dropped)
  BY <1>1, DropSelects
<1>3. PICK h : Selects(h, t, s, Len(s), dropped)
  BY <1>2 DEF Selected
<1>4. /\ ks \in Seq(K) /\ Len(ks) = Len(s) /\ \A i \in 1..Len(s) : ks[i] = s[i].key
      /\ kt \in Seq(K) /\ Len(kt) = Len(t) /\ \A i \in 1..Len(t) : kt[i] = t[i].key
  BY <1>2, KeysOfIs
<1>5. \A i \in 1..Len(s) : s[i] \in dropped <=> ks[i] \in {e.key}
  BY <1>4 DEF ToSet
<1> HIDE DEF dropped, t, ks, kt
<1>6. Selects(h, kt, ks, Len(ks), {e.key})
  <2>1. /\ h \in [1..Len(t) -> 1..Len(s)]
        /\ \A i, j \in 1..Len(t) : i < j => h[i] < h[j]
        /\ \A j \in 1..Len(t) : t[j] = s[h[j]] /\ t[j] \notin dropped
        /\ \A i \in 1..Len(s) : s[i] \notin dropped => \E j \in 1..Len(t) : h[j] = i
    BY <1>3 DEF Selects
  <2>2. \A j \in 1..Len(t) : kt[j] = ks[h[j]] /\ kt[j] \notin {e.key}
    <3> SUFFICES ASSUME NEW j \in 1..Len(t) PROVE kt[j] = ks[h[j]] /\ kt[j] \notin {e.key}
      OBVIOUS
    <3>1. h[j] \in 1..Len(s) /\ t[j] = s[h[j]] /\ s[h[j]] \notin dropped
      BY <2>1
    <3> QED BY <1>4, <1>5, <3>1
  <2>3. \A i \in 1..Len(s) : ks[i] \notin {e.key} => \E j \in 1..Len(t) : h[j] = i
    BY <1>5, <2>1
  <2> QED BY <1>4, <2>1, <2>2, <2>3, Zenon DEF Selects
<1>7. kt = Drop(ks, {e.key})
  BY <1>4, <1>6, SelectedIsDrop
<1>8. KeysOf(Append(t, e)) = Append(kt, e.key)
  <2>1. Len(t) \in Nat /\ Append(t, e) \in Seq(R) /\ e.key \in K
    BY <1>2
  <2>2. /\ KeysOf(Append(t, e)) \in Seq(K) /\ Len(KeysOf(Append(t, e))) = Len(t) + 1
        /\ \A i \in 1..(Len(t) + 1) : KeysOf(Append(t, e))[i] = Append(t, e)[i].key
    <3> DEFINE u == Append(t, e)
    <3>1. u \in Seq(R) /\ Len(u) = Len(t) + 1
      BY <1>2
    <3> HIDE DEF u
    <3>2. /\ KeysOf(u) \in Seq(K) /\ Len(KeysOf(u)) = Len(u)
          /\ \A i \in 1..Len(u) : KeysOf(u)[i] = u[i].key
      BY <3>1, KeysOfIs
    <3> QED BY <3>1, <3>2 DEF u
  <2>3. /\ Append(kt, e.key) \in Seq(K) /\ Len(Append(kt, e.key)) = Len(t) + 1
        /\ Append(kt, e.key)[Len(t) + 1] = e.key
        /\ \A i \in 1..Len(t) : Append(kt, e.key)[i] = t[i].key
    BY <1>4, <2>1
  <2>4. /\ Append(t, e)[Len(t) + 1] = e
        /\ \A i \in 1..Len(t) : Append(t, e)[i] = t[i]
    BY <1>2
  <2>5. \A i \in 1..(Len(t) + 1) : KeysOf(Append(t, e))[i] = Append(kt, e.key)[i]
    BY <2>1, <2>2, <2>3, <2>4
  <2> QED BY <2>2, <2>3, <2>5
<1> QED BY <1>7, <1>8 DEF t, ks

-----------------------------------------------------------------------------
(***************************************************************************)
(* The inductive invariant.  Beside the types, a reading whose document    *)
(* can be stored has been given a version, and only a score awaits an      *)
(* account; the caches are Maps within their maximum, the order of use     *)
(* kept; whoever awaits an account awaits a flight; and nothing that goes  *)
(* into an unexcused document is older than what was acknowledged.         *)
(***************************************************************************)
Readable(q) ==
  /\ q \in Readings
  /\ q.stage \in {"fetched", "listed", "walked"} => q.v \in Versions
  /\ q.stage \in {"listing", "listed", "walked"} => q.key[1] # "score"
  /\ q.awaits => q.key[1] = "score"

Fetchable(f) ==
  /\ f \in Flights
  /\ f.stage = "answered" => f.v \in Versions

Writable(q) ==
  /\ q = [stage |-> q.stage, touched |-> q.touched, at |-> q.at]
  /\ q.stage \in {"submitted", "confirmed"}
  /\ q.touched \in Touches
  /\ q.at \in [q.touched -> Versions]

ReadInv ==
  /\ reading = [r \in Readers |-> reading[r]]
  /\ \A r \in Readers : reading[r] = NotReading \/ Readable(reading[r])

FlightInv ==
  /\ flight = [w \in Wallets |-> flight[w]]
  /\ \A w \in Wallets : flight[w] = NoFlight \/ Fetchable(flight[w])

WriteInv ==
  /\ writing = [p \in Writers |-> writing[p]]
  /\ \A p \in Writers : writing[p] = NotWriting \/ Writable(writing[p])

ChainInv ==
  /\ now \in 0..MaxTime
  /\ adrift \subseteq Touches
  /\ version \in [Wallets -> Versions]
  /\ acked \in [Wallets -> Versions]

CacheInv == IsCache(cache, Documents(Keys)) /\ KeysOf(cache) = recency

ListsInv == IsCache(delegations, Documents(Wallets))

AccountsInv == IsCache(accounts, Accounts)

MapInv == CacheInv /\ ListsInv /\ AccountsInv

\* What was acknowledged is on the chain.
VersionInv ==
  /\ \A w \in Wallets : acked[w] <= version[w]
  /\ \A p \in Writers : writing[p] # NotWriting =>
       \A w \in writing[p].touched : writing[p].at[w] <= version[w]

Recent(x, w) == x.excused \/ x.v >= acked[w]

\* A document in the making that is not excused is recent, and a passport then
\* finds a recent list, or none.
Sound(q, lists) ==
  /\ Recent(q, q.key[2])
  /\ q.key[1] = "passport" /\ ~q.excused =>
       \A e \in ToSet(lists) : e.key = q.key[2] => Recent(e, e.key)

FreshInv ==
  /\ \A r \in Readers : reading[r] # NotReading => Sound(reading[r], delegations)
  /\ \A w \in Wallets : flight[w] # NoFlight => Recent(flight[w], w)
  /\ \A e \in ToSet(cache) : Recent(e, e.key[2])

Awaits(r, w) == reading[r] # NotReading /\ WalletOf(r) = w /\ reading[r].awaits

SettleInv == \A w \in Wallets : (\E r \in Readers : Awaits(r, w)) <=> flight[w] # NoFlight

TypesInv == ReadInv /\ FlightInv /\ WriteInv /\ ChainInv

LEMMA StagesTell ==
  ASSUME TypesInv
  PROVE  /\ \A r \in Readers : Reads(r, "idle") <=> reading[r] = NotReading
         /\ \A w \in Wallets : Flies(w, "none") <=> flight[w] = NoFlight
         /\ \A p \in Writers : Writes(p, "idle") <=> writing[p] = NotWriting
<1>1. \A r \in Readers : Reads(r, "idle") <=> reading[r] = NotReading
  BY DEF TypesInv, ReadInv, Reads, NotReading, Readable, Readings
<1>2. \A w \in Wallets : Flies(w, "none") <=> flight[w] = NoFlight
  BY DEF TypesInv, FlightInv, Flies, NoFlight, Fetchable, Flights
<1>3. \A p \in Writers : Writes(p, "idle") <=> writing[p] = NotWriting
  BY DEF TypesInv, WriteInv, Writes, NotWriting, Writable
<1> QED BY <1>1, <1>2, <1>3

-----------------------------------------------------------------------------
(***************************************************************************)
(* What the steps of a GET do to it.                                       *)
(***************************************************************************)
Reading(r, q) == reading' = [reading EXCEPT ![r] = q]

\* A GET that begins is of nothing yet, or of what is not its fault.
Begins(r, key, q) ==
  /\ reading[r] = NotReading /\ Reading(r, q)
  /\ Readable(q)
  /\ q.key = key
  /\ q.excused \/ q.v = NoVersion

\* One that goes on has read the chain, or a cached list.
Advances(r, q) ==
  /\ reading[r] # NotReading /\ Reading(r, q)
  /\ Readable(q)
  /\ q.key = reading[r].key /\ q.awaits = reading[r].awaits
  /\ \/ q.excused
     \/ /\ ~reading[r].excused
        /\ \/ q.v \in {reading[r].v, version[q.key[2]]}
           \/ \E e \in ToSet(delegations) :
                q.key[1] = "passport" /\ e.key = q.key[2] /\ ~e.excused /\ q.v = e.v

Ends(r) == reading[r] # NotReading /\ ~reading[r].awaits /\ Reading(r, NotReading)

LEMMA VersionsAreNumbers ==
  /\ MaxVersion \in Nat /\ NoVersion \in Nat /\ NoVersion \notin Versions
  /\ \A v \in Versions : v \in Nat /\ v < NoVersion
  /\ \A v \in Seen : v \in Nat /\ (v \in Versions \/ v = NoVersion)
  /\ \A a, b \in Seen : Older(a, b) \in {a, b} /\ Older(a, b) <= a /\ Older(a, b) <= b
BY BoundsAssumption DEF NoVersion, Versions, Seen, Older

LEMMA OlderIsVersion ==
  ASSUME NEW a \in Seen, NEW b \in Versions
  PROVE  Older(a, b) \in Versions
BY BoundsAssumption DEF NoVersion, Versions, Seen, Older

LEMMA BegunIsReadable ==
  ASSUME NEW key \in Keys, NEW stage \in {"fetching", "listing"},
         stage = "listing" => key[1] # "score"
  PROVE  /\ Readable(Begun(key, stage))
         /\ Begun(key, stage).key = key /\ Begun(key, stage).v = NoVersion
         /\ Begun(key, stage).stage = stage
         /\ Begun(key, stage).excused = FALSE /\ Begun(key, stage).awaits = FALSE
BY DEF Begun, Readable, Readings, Seen

\* A score waits for an account, or borrows one.
LEMMA ScoreBegins ==
  ASSUME NEW w \in Wallets, <<"score", w>> \in Keys
  PROVE  LET waiting == [Begun(<<"score", w>>, "fetching") EXCEPT !.awaits = TRUE]
         IN  /\ Readable(waiting) /\ waiting.key = <<"score", w>>
             /\ waiting.awaits = TRUE /\ waiting.v = NoVersion
<1>1. Begun(<<"score", w>>, "fetching") \in Readings
  BY BegunIsReadable DEF Readable
<1> QED BY <1>1 DEF Begun, Readable, Readings, Seen

LEMMA ScoreBorrows ==
  ASSUME NEW w \in Wallets, <<"score", w>> \in Keys, NEW v \in Versions
  PROVE  LET lent == [Begun(<<"score", w>>, "fetching") EXCEPT !.v = v, !.excused = TRUE]
         IN  /\ Readable(lent) /\ lent.key = <<"score", w>>
             /\ lent.awaits = FALSE /\ lent.excused = TRUE
<1>1. Begun(<<"score", w>>, "fetching") \in Readings
  BY BegunIsReadable DEF Readable
<1> QED BY <1>1 DEF Begun, Readable, Readings, Seen

Asking == [stage |-> "asking", v |-> NoVersion, excused |-> FALSE]

\* What GET does: a hit; or a document begun, which joins a flight, starts one, or
\* awaits none.
Joins(r, w) == \E q : Begins(r, <<"score", w>>, q) /\ q.awaits /\ flight[w] # NoFlight /\ UNCHANGED flight
Starts(r, w) ==
  \E q : /\ Begins(r, <<"score", w>>, q) /\ q.awaits /\ flight[w] = NoFlight
         /\ flight' = [flight EXCEPT ![w] = Asking]
Alone(r, key) == \E q : Begins(r, key, q) /\ ~q.awaits /\ UNCHANGED flight

LEMMA MissBegins ==
  ASSUME TypesInv, MapInv, NEW r \in Readers, NEW key \in Keys,
         Reads(r, "idle"), Miss(r, key)
  PROVE  \/ key[1] = "score" /\ (Joins(r, key[2]) \/ Starts(r, key[2]))
         \/ Alone(r, key)
<1>1. key[2] \in Wallets /\ key = <<key[1], key[2]>>
  BY DEF Keys
<1>2. reading[r] = NotReading
  BY StagesTell
<1>3. CASE key[1] # "score"
  <2> DEFINE q == Begun(key, "fetching")
  <2>1. reading' = [reading EXCEPT ![r] = q] /\ UNCHANGED flight
    BY <1>3 DEF Miss
  <2>2. Readable(q) /\ q.key = key /\ q.v = NoVersion /\ q.awaits = FALSE
    BY BegunIsReadable
  <2> HIDE DEF q
  <2> QED BY <1>2, <2>1, <2>2 DEF Alone, Begins, Reading
<1>4. CASE key[1] = "score"
  <2> DEFINE w == key[2]
             waiting == [Begun(<<"score", w>>, "fetching") EXCEPT !.awaits = TRUE]
  <2>1. key = <<"score", w>> /\ w \in Wallets
    BY <1>1, <1>4
  <2>2. /\ Readable(waiting) /\ waiting.key = <<"score", w>>
        /\ waiting.awaits = TRUE /\ waiting.v = NoVersion
    BY <2>1, ScoreBegins
  <2>3. fetchAccountInfo(r, w)
    BY <1>4 DEF Miss
  <2>4. CASE JoinFlight(r, w)
    <3>1. reading' = [reading EXCEPT ![r] = waiting] /\ UNCHANGED flight /\ flight[w] # NoFlight
      BY <2>1, <2>4, StagesTell DEF JoinFlight
    <3> HIDE DEF waiting
    <3>2. Joins(r, w)
      BY <1>2, <2>2, <3>1 DEF Joins, Begins, Reading
    <3> QED BY <1>4, <3>2
  <2>5. CASE StartFlight(r, w)
    <3>1. /\ reading' = [reading EXCEPT ![r] = waiting] /\ flight[w] = NoFlight
          /\ flight' = [flight EXCEPT ![w] = Asking]
      BY <2>1, <2>5, StagesTell DEF StartFlight, Asking
    <3> HIDE DEF waiting
    <3>2. Starts(r, w)
      BY <1>2, <2>2, <3>1 DEF Starts, Begins, Reading
    <3> QED BY <1>4, <3>2
  <2>6. CASE BorrowAccount(r, w)
    <3>1. PICK account \in Found(accounts, w, now) :
            reading' = [reading EXCEPT ![r] = [Begun(<<"score", w>>, "fetching") EXCEPT
                          !.v = account.v, !.excused = TRUE]]
      BY <2>6 DEF BorrowAccount
    <3> DEFINE lent == [Begun(<<"score", w>>, "fetching") EXCEPT !.v = account.v, !.excused = TRUE]
    <3>2. account.v \in Versions
      <4>1. \A e \in ToSet(accounts) : e \in Accounts
        BY DEF MapInv, AccountsInv, IsCache, ToSet
      <4>2. account \in ToSet(accounts)
        BY DEF Found, Keyed, ToSet
      <4> QED BY <4>1, <4>2 DEF Accounts
    <3>3. /\ Readable(lent) /\ lent.key = <<"score", w>>
          /\ lent.awaits = FALSE /\ lent.excused = TRUE
      BY <2>1, <3>2, ScoreBorrows
    <3>4. Reading(r, lent)
      BY <3>1 DEF Reading
    <3> HIDE DEF lent
    <3>5. UNCHANGED flight
      BY <2>6 DEF BorrowAccount
    <3> QED BY <1>2, <2>1, <3>3, <3>4, <3>5 DEF Alone, Begins
  <2> QED BY <2>3, <2>4, <2>5, <2>6 DEF fetchAccountInfo
<1> QED BY <1>3, <1>4

LEMMA ListBegins ==
  ASSUME TypesInv, NEW r \in Readers, NEW w \in Wallets, GetDelegation(r, w)
  PROVE  UNCHANGED reading \/ Alone(r, <<"delegation", w>>)
<1> DEFINE q == Begun(<<"delegation", w>>, "listing")
<1>1. reading[r] = NotReading /\ UNCHANGED flight /\ <<"delegation", w>> \in Keys
  BY StagesTell DEF GetDelegation, Keys
<1>2. reading' = reading \/ Reading(r, q)
  BY DEF GetDelegation, Reading
<1>3. Readable(q) /\ q.key = <<"delegation", w>> /\ q.v = NoVersion /\ q.awaits = FALSE
  BY <1>1, BegunIsReadable
<1> HIDE DEF q
<1> QED BY <1>1, <1>2, <1>3 DEF Alone, Begins

LEMMA ReadingIs ==
  ASSUME TypesInv, NEW r \in Readers, ~Reads(r, "idle")
  PROVE  /\ reading[r] # NotReading /\ Readable(reading[r])
         /\ reading[r].v \in Seen /\ reading[r].key \in Keys
         /\ WalletOf(r) \in Wallets /\ version[WalletOf(r)] \in Versions
<1>1. reading[r] # NotReading /\ Readable(reading[r])
  BY StagesTell DEF TypesInv, ReadInv
<1>2. reading[r].v \in Seen /\ reading[r].key \in Keys
  BY <1>1 DEF Readable, Readings
<1> QED BY <1>1, <1>2 DEF WalletOf, Keys, TypesInv, ChainInv

LEMMA ChainAdvances ==
  ASSUME TypesInv, NEW r \in Readers, ChainAnswers(r)
  PROVE  \E q : Advances(r, q)
<1> DEFINE k == reading[r]
           seen == version[WalletOf(r)]
           stage == IF Reads(r, "fetching") THEN "fetched" ELSE "listed"
           q == [k EXCEPT !.stage = stage, !.v = Older(k.v, seen)]
<1>1. k.stage \in {"fetching", "listing"} /\ (k.stage = "listing" <=> stage = "listed")
  BY DEF ChainAnswers, Reads
<1>2. Reading(r, q)
  BY DEF ChainAnswers, Reading, TypesInv, ReadInv, Reads
<1>3. /\ k # NotReading /\ Readable(k) /\ k.v \in Seen /\ seen \in Versions
      /\ seen = version[k.key[2]]
  <2>1. ~Reads(r, "idle")
    BY <1>1 DEF Reads
  <2> QED BY <2>1, ReadingIs DEF WalletOf
<1>4. Older(k.v, seen) \in Versions /\ Older(k.v, seen) \in {k.v, seen}
  BY <1>3, OlderIsVersion DEF Older
<1> DEFINE v == Older(k.v, seen)
<1>5. stage \in {"fetched", "listed"}
  OBVIOUS
<1> HIDE DEF v, stage, k, seen
<1>6. /\ Readable(q) /\ q.key = k.key /\ q.awaits = k.awaits /\ q.excused = k.excused
      /\ q.v = v
  <2>1. k \in Readings
    BY <1>3 DEF Readable
  <2>2. v \in Versions /\ v \in Seen
    BY <1>4 DEF v, Seen
  <2>3. /\ q.key = k.key /\ q.awaits = k.awaits /\ q.excused = k.excused
        /\ q.v = v /\ q.stage = stage /\ q \in Readings
    BY <1>5, <2>1, <2>2 DEF Readings, v
  <2> HIDE DEF q
  <2> QED BY <1>1, <1>3, <1>5, <2>2, <2>3 DEF Readable
<1>7. k.excused \in BOOLEAN
  BY <1>3 DEF Readable, Readings
<1> HIDE DEF q
<1>8. q.v \in {k.v, version[q.key[2]]}
  BY <1>3, <1>4, <1>6 DEF v
<1>9. Advances(r, q)
  BY <1>2, <1>3, <1>6, <1>7, <1>8 DEF Advances, k
<1> QED BY <1>9

LEMMA WalkAdvances ==
  ASSUME TypesInv, MapInv, NEW r \in Readers, Walk(r)
  PROVE  \E q : Advances(r, q)
<1> DEFINE k == reading[r]
<1>1. k.stage = "fetched" /\ k.key[1] = "passport"
  BY DEF Walk, Reads, IsPassport
<1>2. k # NotReading /\ Readable(k) /\ k.v \in Seen /\ k \in Readings /\ k.v \in Versions
  <2>1. ~Reads(r, "idle")
    BY <1>1 DEF Reads
  <2> QED BY <1>1, <2>1, ReadingIs DEF Readable
<1>3. k.excused \in BOOLEAN /\ k.awaits \in BOOLEAN
  BY <1>2 DEF Readings
<1>4. CASE reading' = [reading EXCEPT ![r].stage = "listing"]
  <2> DEFINE q == [k EXCEPT !.stage = "listing"]
  <2>1. Reading(r, q)
    BY <1>4 DEF Reading
  <2>2. /\ q.key = k.key /\ q.awaits = k.awaits /\ q.excused = k.excused
        /\ q.v = k.v /\ q.stage = "listing" /\ q \in Readings
    BY <1>2 DEF Readings
  <2> HIDE DEF q, k
  <2>3. Readable(q)
    BY <1>1, <1>2, <2>2 DEF Readable
  <2>4. Advances(r, q)
    BY <1>2, <1>3, <2>1, <2>2, <2>3 DEF Advances, k
  <2> QED BY <2>4
<1>5. CASE \E entry \in Found(delegations, WalletOf(r), now) :
             reading' = [reading EXCEPT ![r].stage = "walked", ![r].v = Older(@, entry.v),
                                        ![r].excused = @ \/ entry.excused]
  <2>1. PICK entry \in Found(delegations, WalletOf(r), now) :
             reading' = [reading EXCEPT ![r].stage = "walked", ![r].v = Older(@, entry.v),
                                        ![r].excused = @ \/ entry.excused]
    BY <1>5
  <2> DEFINE v == Older(k.v, entry.v)
             excused == k.excused \/ entry.excused
             q == [k EXCEPT !.stage = "walked", !.v = v, !.excused = excused]
  <2>2. /\ entry \in ToSet(delegations) /\ entry.key = k.key[2]
        /\ entry.v \in Versions /\ entry.excused \in BOOLEAN
    <3>1. entry \in ToSet(delegations) /\ entry.key = k.key[2]
      BY DEF Found, Keyed, ToSet, WalletOf
    <3>2. \A e \in ToSet(delegations) : e \in Documents(Wallets)
      BY DEF MapInv, ListsInv, IsCache, ToSet
    <3> QED BY <3>1, <3>2 DEF Documents
  <2>3. Reading(r, q)
    BY <1>2, <2>1 DEF Reading, TypesInv, ReadInv
  <2>4. v \in Versions /\ v \in Seen /\ v \in {k.v, entry.v} /\ excused \in BOOLEAN
    BY <1>2, <1>3, <2>2, OlderIsVersion DEF Older, Seen
  <2>5. excused = FALSE => k.excused = FALSE /\ entry.excused = FALSE
    BY <1>3, <2>2
  <2> HIDE DEF v, excused, k
  <2>6. /\ q.key = k.key /\ q.awaits = k.awaits /\ q.excused = excused
        /\ q.v = v /\ q.stage = "walked" /\ q \in Readings
    BY <1>2, <2>4 DEF Readings
  <2> HIDE DEF q
  <2>7. Readable(q)
    BY <1>1, <1>2, <2>4, <2>6 DEF Readable
  <2>8. Advances(r, q)
    BY <1>1, <1>2, <2>2, <2>3, <2>4, <2>5, <2>6, <2>7 DEF Advances, k
  <2> QED BY <2>8
<1> QED BY <1>4, <1>5 DEF Walk

LEMMA ListAdvances ==
  ASSUME TypesInv, NEW r \in Readers, List(r)
  PROVE  Ends(r) \/ \E q : Advances(r, q)
<1> DEFINE k == reading[r]
<1>1. k.stage = "listed"
  BY DEF List, Reads
<1>2. k # NotReading /\ Readable(k) /\ k \in Readings /\ k.v \in Versions
  <2>1. ~Reads(r, "idle")
    BY <1>1 DEF Reads
  <2> QED BY <1>1, <2>1, ReadingIs DEF Readable
<1>3. k.excused \in BOOLEAN /\ ~k.awaits
  BY <1>1, <1>2 DEF Readable, Readings
<1>4. CASE reading' = [reading EXCEPT ![r].stage = "walked"]
  <2> DEFINE q == [k EXCEPT !.stage = "walked"]
  <2>1. Reading(r, q)
    BY <1>4 DEF Reading
  <2>2. /\ q.key = k.key /\ q.awaits = k.awaits /\ q.excused = k.excused
        /\ q.v = k.v /\ q.stage = "walked" /\ q \in Readings
    BY <1>2 DEF Readings
  <2> HIDE DEF q, k
  <2>3. Readable(q)
    BY <1>1, <1>2, <2>2 DEF Readable
  <2>4. Advances(r, q)
    BY <1>2, <1>3, <2>1, <2>2, <2>3 DEF Advances, k
  <2> QED BY <2>4
<1>5. CASE reading' = [reading EXCEPT ![r] = NotReading]
  BY <1>2, <1>3, <1>5 DEF Ends, Reading
<1> QED BY <1>4, <1>5 DEF List

LEMMA FillEnds ==
  ASSUME TypesInv, NEW r \in Readers, Fill(r) \/ GetFails(r)
  PROVE  Ends(r)
<1>1. ~Reads(r, "idle") /\ Reading(r, NotReading)
  BY DEF Fill, GetFails, FetchOver, Reading
<1>2. ~reading[r].awaits
  BY <1>1, ReadingIs DEF Fill, GetFails, FetchOver, IsScore, Readable
<1> QED BY <1>1, <1>2, ReadingIs DEF Ends

\* A flight that lands is delivered to those who await it, and changes no other GET.
Receives(r, w, v, excused) ==
  /\ reading'[r] # NotReading /\ Readable(reading'[r])
  /\ reading'[r].key = reading[r].key /\ ~reading'[r].awaits
  /\ reading'[r].v \in {reading[r].v, v}
  /\ reading'[r].excused <=> reading[r].excused \/ excused

LEMMA DeliveredIs ==
  ASSUME TypesInv, NEW w \in Wallets, NEW v \in Seen, NEW excused \in BOOLEAN,
         reading' = Delivered(w, v, excused)
  PROVE  /\ reading' = [r \in Readers |-> reading'[r]]
         /\ \A r \in Readers : Awaits(r, w) => Receives(r, w, v, excused)
         /\ \A r \in Readers : ~Awaits(r, w) => reading'[r] = reading[r]
<1>1. reading' = [r \in Readers |-> reading'[r]]
  BY DEF Delivered
<1>2. \A r \in Readers :
        Awaits(r, w) <=> ~Reads(r, "idle") /\ reading[r].key = <<"score", w>> /\ reading[r].awaits
  <2> SUFFICES ASSUME NEW r \in Readers
               PROVE  Awaits(r, w) <=> ~Reads(r, "idle") /\ reading[r].key = <<"score", w>>
                                       /\ reading[r].awaits
    OBVIOUS
  <2>1. Reads(r, "idle") <=> reading[r] = NotReading
    BY StagesTell
  <2>2. reading[r] # NotReading /\ reading[r].awaits =>
          reading[r].key \in Keys /\ reading[r].key[1] = "score"
    BY <2>1, ReadingIs DEF Readable
  <2>3. reading[r] # NotReading /\ reading[r].awaits =>
          (reading[r].key[2] = w <=> reading[r].key = <<"score", w>>)
    BY <2>2 DEF Keys
  <2> QED BY <2>1, <2>3 DEF Awaits, WalletOf
<1>3. \A r \in Readers : ~Awaits(r, w) => reading'[r] = reading[r]
  BY <1>2 DEF Delivered
<1>4. ASSUME NEW r \in Readers, Awaits(r, w) PROVE Receives(r, w, v, excused)
  <2> DEFINE k == reading[r]
             u == Older(k.v, v)
             e == k.excused \/ excused
             q == [k EXCEPT !.awaits = FALSE, !.v = u, !.excused = e]
  <2>1. reading'[r] = q
    BY <1>2, <1>4 DEF Delivered
  <2>2. Readable(k) /\ k \in Readings /\ k.v \in Seen
    <3>1. ~Reads(r, "idle")
      BY <1>4, StagesTell DEF Awaits
    <3> QED BY <3>1, ReadingIs DEF Readable
  <2>3. /\ u \in Seen /\ u \in {k.v, v} /\ e \in BOOLEAN
        /\ (k.v \in Versions => u \in Versions)
    BY <2>2, VersionsAreNumbers DEF Older, Readings, Versions, Seen
  <2> HIDE DEF u, e, k
  <2>4. /\ q.key = k.key /\ q.awaits = FALSE /\ q.excused = e /\ q.v = u
        /\ q.stage = k.stage /\ q \in Readings
    BY <2>2, <2>3 DEF Readings
  <2> HIDE DEF q
  <2>5. Readable(q)
    BY <2>2, <2>3, <2>4 DEF Readable
  <2>6. q # NotReading
    BY <2>4 DEF Readings, NotReading
  <2> QED BY <2>1, <2>3, <2>4, <2>5, <2>6 DEF Receives, k, e
<1> QED BY <1>1, <1>3, <1>4

\* An answered POST excuses the GETs and fetches it overtakes.
Excuses(r, touched) ==
  /\ reading'[r] # NotReading /\ Readable(reading'[r])
  /\ reading'[r].key = reading[r].key /\ reading'[r].awaits = reading[r].awaits
  /\ \/ reading'[r].excused
     \/ reading[r].key[2] \notin touched /\ reading'[r] = reading[r]

ExcusesFlight(w, touched) ==
  /\ flight'[w] # NoFlight /\ Fetchable(flight'[w])
  /\ flight'[w].excused \/ (w \notin touched /\ flight'[w] = flight[w])

LEMMA OvertakenIs ==
  ASSUME TypesInv, NEW touched, Overtaken(touched)
  PROVE  /\ reading' = [r \in Readers |-> reading'[r]]
         /\ flight' = [w \in Wallets |-> flight'[w]]
         /\ \A r \in Readers :
              IF reading[r] = NotReading THEN reading'[r] = NotReading ELSE Excuses(r, touched)
         /\ \A w \in Wallets :
              IF flight[w] = NoFlight THEN flight'[w] = NoFlight ELSE ExcusesFlight(w, touched)
<1>1. reading' = [r \in Readers |-> reading'[r]] /\ flight' = [w \in Wallets |-> flight'[w]]
  BY DEF Overtaken
<1>2. ASSUME NEW r \in Readers
      PROVE  IF reading[r] = NotReading THEN reading'[r] = NotReading ELSE Excuses(r, touched)
  <2>1. Reads(r, "idle") <=> reading[r] = NotReading
    BY StagesTell
  <2>2. CASE reading[r] = NotReading
    BY <2>1, <2>2 DEF Overtaken
  <2>3. CASE reading[r] # NotReading /\ reading[r].key[2] \notin touched
    BY <2>1, <2>3, ReadingIs DEF Overtaken, Excuses
  <2>4. CASE reading[r] # NotReading /\ reading[r].key[2] \in touched
    <3> DEFINE k == reading[r]
               q == [k EXCEPT !.excused = TRUE]
    <3>1. reading'[r] = q
      BY <2>1, <2>4 DEF Overtaken
    <3>2. Readable(k) /\ k \in Readings
      BY <2>1, <2>4, ReadingIs DEF Readable
    <3> HIDE DEF k
    <3>3. /\ q.key = k.key /\ q.awaits = k.awaits /\ q.excused = TRUE /\ q.v = k.v
          /\ q.stage = k.stage /\ q \in Readings
      BY <3>2 DEF Readings
    <3> HIDE DEF q
    <3>4. Readable(q) /\ q # NotReading
      BY <3>2, <3>3 DEF Readable, Readings, NotReading
    <3> QED BY <2>4, <3>1, <3>3, <3>4 DEF Excuses, k
  <2> QED BY <2>2, <2>3, <2>4
<1>3. ASSUME NEW w \in Wallets
      PROVE  IF flight[w] = NoFlight THEN flight'[w] = NoFlight ELSE ExcusesFlight(w, touched)
  <2>1. Flies(w, "none") <=> flight[w] = NoFlight
    BY StagesTell
  <2>2. flight[w] # NoFlight => Fetchable(flight[w])
    BY DEF TypesInv, FlightInv
  <2>3. CASE flight[w] = NoFlight \/ w \notin touched
    BY <2>1, <2>2, <2>3 DEF Overtaken, ExcusesFlight
  <2>4. CASE flight[w] # NoFlight /\ w \in touched
    <3> DEFINE k == flight[w]
               q == [k EXCEPT !.excused = TRUE]
    <3>1. flight'[w] = q
      BY <2>1, <2>4 DEF Overtaken
    <3>2. Fetchable(k) /\ k \in Flights
      BY <2>2, <2>4 DEF Fetchable
    <3> HIDE DEF k
    <3>3. q.excused = TRUE /\ q.v = k.v /\ q.stage = k.stage /\ q \in Flights
      BY <3>2 DEF Flights
    <3> HIDE DEF q
    <3>4. Fetchable(q) /\ q # NoFlight
      BY <3>2, <3>3 DEF Fetchable, Flights, NoFlight
    <3> QED BY <2>4, <3>1, <3>3, <3>4 DEF ExcusesFlight
  <2> QED BY <2>3, <2>4
<1> QED BY <1>1, <1>2, <1>3

-----------------------------------------------------------------------------
(* The types *)

LEMMA OneReadingKeepsReadInv ==
  ASSUME ReadInv, NEW r \in Readers, NEW q, Reading(r, q), q = NotReading \/ Readable(q)
  PROVE  /\ ReadInv' /\ reading'[r] = q
         /\ \A s \in Readers \ {r} : reading'[s] = reading[s]
<1>1. /\ reading' = [s \in Readers |-> IF s = r THEN q ELSE reading[s]]
  BY DEF ReadInv, Reading
<1> QED BY <1>1 DEF ReadInv, Readable

LEMMA UnchangedKeepsTypes ==
  ASSUME TypesInv
  PROVE  /\ UNCHANGED reading => ReadInv'
         /\ UNCHANGED flight => FlightInv'
         /\ UNCHANGED writing => WriteInv'
         /\ UNCHANGED <<now, chainVars, acked>> => ChainInv'
BY DEF TypesInv, ReadInv, FlightInv, WriteInv, ChainInv, chainVars, Readable, Fetchable, Writable

\* What each step of a GET does, as above: for the fetches the slots share.
LEMMA GetSteps ==
  ASSUME TypesInv, MapInv, NEW r \in Readers,
         \/ \E key \in Keys : Get(r, key)
         \/ \E w \in Wallets : GetDelegation(r, w)
         \/ ChainAnswers(r) \/ Walk(r) \/ List(r) \/ Fill(r) \/ GetFails(r)
  PROVE  \/ UNCHANGED <<reading, flight>>
         \/ \E w \in Wallets : Joins(r, w) \/ Starts(r, w)
         \/ \E key \in Keys : Alone(r, key)
         \/ (\E q : Advances(r, q)) /\ UNCHANGED flight
         \/ Ends(r) /\ UNCHANGED flight
<1>1. ASSUME NEW key \in Keys, Get(r, key), Miss(r, key)
      PROVE  (\E w \in Wallets : Joins(r, w) \/ Starts(r, w)) \/ Alone(r, key)
  <2>1. key[2] \in Wallets
    BY DEF Keys
  <2>2. Reads(r, "idle")
    BY <1>1 DEF Get
  <2> QED BY <1>1, <2>1, <2>2, MissBegins
<1>2. ASSUME NEW w \in Wallets, GetDelegation(r, w)
      PROVE  UNCHANGED <<reading, flight>> \/ \E key \in Keys : Alone(r, key)
  <2>1. <<"delegation", w>> \in Keys /\ UNCHANGED flight
    BY <1>2 DEF GetDelegation, Keys
  <2> QED BY <1>2, <2>1, ListBegins
<1>3. ASSUME NEW key \in Keys, Get(r, key), Hit(key) PROVE UNCHANGED <<reading, flight>>
  BY <1>3 DEF Hit
<1>4. ASSUME ChainAnswers(r) \/ Walk(r) PROVE (\E q : Advances(r, q)) /\ UNCHANGED flight
  <2>1. UNCHANGED flight
    BY <1>4 DEF ChainAnswers, Walk
  <2> QED BY <1>4, <2>1, ChainAdvances, WalkAdvances
<1>5. ASSUME List(r) PROVE (Ends(r) \/ \E q : Advances(r, q)) /\ UNCHANGED flight
  <2>1. UNCHANGED flight
    BY <1>5 DEF List
  <2> QED BY <1>5, <2>1, ListAdvances
<1>6. ASSUME Fill(r) \/ GetFails(r) PROVE Ends(r) /\ UNCHANGED flight
  <2>1. UNCHANGED flight
    BY <1>6 DEF Fill, GetFails
  <2> QED BY <1>6, <2>1, FillEnds
<1> QED BY <1>1, <1>2, <1>3, <1>4, <1>5, <1>6 DEF Get

LEMMA FlightsAreFlights ==
  /\ Fetchable(Asking) /\ Asking # NoFlight
  /\ \A f : Fetchable(f) => f # NoFlight
BY VersionsAreNumbers DEF Asking, Fetchable, Flights, NoFlight, Seen

\* The steps of a GET.
LEMMA GetStepsSettle ==
  ASSUME TypesInv, MapInv, SettleInv, NEW r \in Readers,
         \/ \E key \in Keys : Get(r, key)
         \/ \E w \in Wallets : GetDelegation(r, w)
         \/ ChainAnswers(r) \/ Walk(r) \/ List(r) \/ Fill(r) \/ GetFails(r)
  PROVE  ReadInv' /\ FlightInv' /\ SettleInv'
<1>1. ReadInv /\ FlightInv
  BY DEF TypesInv
<1>2. ASSUME NEW q, Reading(r, q), q = NotReading \/ Readable(q),
             \A w : (q # NotReading /\ q.key[2] = w /\ q.awaits) <=> Awaits(r, w),
             UNCHANGED flight
      PROVE  ReadInv' /\ FlightInv' /\ SettleInv'
  <2>1. /\ ReadInv' /\ reading'[r] = q
        /\ \A s \in Readers \ {r} : reading'[s] = reading[s]
    BY <1>1, <1>2, OneReadingKeepsReadInv
  <2>2. \A s \in Readers : \A w : Awaits(s, w)' <=> Awaits(s, w)
    <3> SUFFICES ASSUME NEW s \in Readers, NEW w PROVE Awaits(s, w)' <=> Awaits(s, w)
      OBVIOUS
    <3>1. CASE s = r
      BY <1>2, <2>1, <3>1 DEF Awaits, WalletOf
    <3>2. CASE s # r
      BY <2>1, <3>2 DEF Awaits, WalletOf
    <3> QED BY <3>1, <3>2
  <2>3. SettleInv'
    BY <1>2, <2>2 DEF SettleInv
  <2>4. FlightInv'
    BY <1>2, UnchangedKeepsTypes
  <2> QED BY <2>1, <2>3, <2>4
<1>3. ASSUME NEW w \in Wallets, Joins(r, w) \/ Starts(r, w)
      PROVE  ReadInv' /\ FlightInv' /\ SettleInv'
  <2>1. PICK q : /\ Begins(r, <<"score", w>>, q) /\ q.awaits
                 /\ \/ flight[w] # NoFlight /\ UNCHANGED flight
                    \/ flight[w] = NoFlight /\ flight' = [flight EXCEPT ![w] = Asking]
    BY <1>3 DEF Joins, Starts
  <2>2. Reading(r, q) /\ Readable(q) /\ q.key[2] = w /\ reading[r] = NotReading
    BY <2>1 DEF Begins
  <2>3. q # NotReading
    BY <2>2 DEF Readable, Readings, NotReading
  <2>4. /\ ReadInv' /\ reading'[r] = q
        /\ \A s \in Readers \ {r} : reading'[s] = reading[s]
    BY <1>1, <2>2, OneReadingKeepsReadInv
  <2>5. /\ flight' = [x \in Wallets |-> IF x = w THEN flight'[w] ELSE flight[x]]
        /\ flight'[w] # NoFlight /\ Fetchable(flight'[w])
    BY <1>1, <2>1, FlightsAreFlights DEF FlightInv
  <2>6. FlightInv'
    BY <1>1, <2>5 DEF FlightInv, Fetchable
  <2>7. Awaits(r, w)'
    BY <2>1, <2>2, <2>3, <2>4 DEF Awaits, WalletOf
  <2>8. \A x : ~Awaits(r, x) /\ (x # w => ~Awaits(r, x)')
    BY <2>2, <2>4 DEF Awaits, WalletOf
  <2>9. \A s \in Readers : \A x : x # w => (Awaits(s, x)' <=> Awaits(s, x))
    BY <2>4, <2>8 DEF Awaits, WalletOf
  <2>10. SettleInv'
    BY <2>5, <2>7, <2>9 DEF SettleInv
  <2> QED BY <2>4, <2>6, <2>10
<1>4. ASSUME NEW key \in Keys, Alone(r, key) PROVE ReadInv' /\ FlightInv' /\ SettleInv'
  <2>1. PICK q : Begins(r, key, q) /\ ~q.awaits /\ UNCHANGED flight
    BY <1>4 DEF Alone
  <2> QED BY <1>2, <2>1 DEF Begins, Awaits
<1>5. ASSUME NEW q, Advances(r, q), UNCHANGED flight PROVE ReadInv' /\ FlightInv' /\ SettleInv'
  <2>1. q # NotReading
    BY <1>5 DEF Advances, Readable, Readings, NotReading
  <2> QED BY <1>2, <1>5, <2>1 DEF Advances, Awaits, WalletOf
<1>6. ASSUME Ends(r), UNCHANGED flight PROVE ReadInv' /\ FlightInv' /\ SettleInv'
  BY <1>2, <1>6 DEF Ends, Awaits
<1>7. ASSUME UNCHANGED <<reading, flight>> PROVE ReadInv' /\ FlightInv' /\ SettleInv'
  BY <1>7, UnchangedKeepsTypes DEF SettleInv, Awaits, WalletOf
<1> QED BY <1>3, <1>4, <1>5, <1>6, <1>7, GetSteps

\* A flight that lands settles for all who await it.
LEMMA LandingSettles ==
  ASSUME TypesInv, SettleInv, NEW w \in Wallets, NEW v \in Seen, NEW excused \in BOOLEAN,
         reading' = Delivered(w, v, excused), flight' = Forgotten(w)
  PROVE  ReadInv' /\ FlightInv' /\ SettleInv'
<1>1. /\ reading' = [r \in Readers |-> reading'[r]]
      /\ \A r \in Readers : Awaits(r, w) => Receives(r, w, v, excused)
      /\ \A r \in Readers : ~Awaits(r, w) => reading'[r] = reading[r]
  BY DeliveredIs
<1>2. flight' = [x \in Wallets |-> IF x = w THEN NoFlight ELSE flight[x]]
  BY DEF Forgotten, TypesInv, FlightInv
<1>3. FlightInv'
  BY <1>2 DEF TypesInv, FlightInv, Fetchable
<1>4. \A r \in Readers : reading'[r] = NotReading \/ Readable(reading'[r])
  BY <1>1 DEF Receives, TypesInv, ReadInv
<1>5. ReadInv'
  BY <1>1, <1>4 DEF ReadInv, Readable
<1>6. \A r \in Readers : ~Awaits(r, w)' /\ \A x : x # w => (Awaits(r, x)' <=> Awaits(r, x))
  <2> SUFFICES ASSUME NEW r \in Readers
               PROVE  ~Awaits(r, w)' /\ \A x : x # w => (Awaits(r, x)' <=> Awaits(r, x))
    OBVIOUS
  <2>1. CASE Awaits(r, w)
    BY <1>1, <2>1 DEF Awaits, Receives, WalletOf
  <2>2. CASE ~Awaits(r, w)
    BY <1>1, <2>2 DEF Awaits, WalletOf
  <2> QED BY <2>1, <2>2
<1>7. SettleInv'
  BY <1>2, <1>6 DEF SettleInv
<1> QED BY <1>3, <1>5, <1>7

LEMMA FlightSteps ==
  ASSUME TypesInv, SettleInv, NEW w \in Wallets,
         AccountAnswers(w) \/ AccountArrives(w) \/ AccountFails(w)
  PROVE  ReadInv' /\ FlightInv' /\ SettleInv'
<1>1. flight[w] # NoFlight /\ Fetchable(flight[w]) /\ flight[w] \in Flights
  <2>1. ~Flies(w, "none")
    BY DEF AccountAnswers, AccountArrives, AccountFails, Flies
  <2> QED BY <2>1, StagesTell DEF TypesInv, FlightInv, Fetchable
<1>2. CASE AccountAnswers(w)
  <2> DEFINE q == [flight[w] EXCEPT !.stage = "answered", !.v = version[w]]
  <2>1. version[w] \in Versions /\ version[w] \in Seen
    BY DEF TypesInv, ChainInv, Seen
  <2>2. q \in Flights /\ q.v = version[w]
    BY <1>1, <2>1 DEF Flights
  <2>3. Fetchable(q) /\ q # NoFlight
    BY <2>1, <2>2, FlightsAreFlights DEF Fetchable
  <2>4. flight' = [x \in Wallets |-> IF x = w THEN q ELSE flight[x]] /\ UNCHANGED reading
    BY <1>2 DEF AccountAnswers, TypesInv, FlightInv
  <2> HIDE DEF q
  <2>5. FlightInv'
    BY <2>3, <2>4 DEF TypesInv, FlightInv, Fetchable
  <2>6. SettleInv'
    BY <1>1, <2>3, <2>4 DEF SettleInv, Awaits, WalletOf
  <2> QED BY <2>4, <2>5, <2>6, UnchangedKeepsTypes
<1>3. CASE AccountArrives(w)
  <2>1. flight[w].v \in Seen /\ flight[w].excused \in BOOLEAN
    BY <1>1 DEF Flights
  <2> QED BY <1>3, <2>1, LandingSettles DEF AccountArrives
<1>4. CASE AccountFails(w)
  BY <1>4, LandingSettles DEF AccountFails, Seen
<1> QED BY <1>2, <1>3, <1>4

\* Those that an answer overtakes stay as they are otherwise.
LEMMA OvertakingSettles ==
  ASSUME TypesInv, SettleInv, NEW touched, Overtaken(touched)
  PROVE  ReadInv' /\ FlightInv' /\ SettleInv'
<1>1. /\ reading' = [r \in Readers |-> reading'[r]]
      /\ flight' = [w \in Wallets |-> flight'[w]]
      /\ \A r \in Readers :
           IF reading[r] = NotReading THEN reading'[r] = NotReading ELSE Excuses(r, touched)
      /\ \A w \in Wallets :
           IF flight[w] = NoFlight THEN flight'[w] = NoFlight ELSE ExcusesFlight(w, touched)
  BY OvertakenIs
<1>2. ReadInv'
  <2>1. \A r \in Readers : reading'[r] = NotReading \/ Readable(reading'[r])
    BY <1>1 DEF Excuses
  <2> QED BY <1>1, <2>1 DEF ReadInv, Readable
<1>3. FlightInv'
  <2>1. \A w \in Wallets : flight'[w] = NoFlight \/ Fetchable(flight'[w])
    BY <1>1 DEF ExcusesFlight
  <2> QED BY <1>1, <2>1 DEF FlightInv, Fetchable
<1>4. \A r \in Readers : \A w : Awaits(r, w)' <=> Awaits(r, w)
  BY <1>1 DEF Excuses, Awaits, WalletOf
<1>5. \A w \in Wallets : flight'[w] # NoFlight <=> flight[w] # NoFlight
  BY <1>1 DEF ExcusesFlight
<1>6. SettleInv'
  BY <1>4, <1>5 DEF SettleInv
<1> QED BY <1>2, <1>3, <1>6

-----------------------------------------------------------------------------
(* The steps of a POST *)

PostInv == WriteInv /\ ChainInv /\ VersionInv

OnePost(p, q) == writing' = [writing EXCEPT ![p] = q]

LEMMA PostIs ==
  ASSUME TypesInv, NEW p \in Writers, ~Writes(p, "idle")
  PROVE  /\ writing[p] # NotWriting /\ Writable(writing[p])
         /\ writing[p].touched \in Touches /\ writing[p].touched \subseteq Wallets
BY StagesTell, TouchesAssumption DEF TypesInv, WriteInv, Writable

LEMMA OnePostKeepsWriteInv ==
  ASSUME TypesInv, VersionInv, NEW p \in Writers, NEW q, OnePost(p, q),
         q = NotWriting \/ (Writable(q) /\ \A w \in q.touched : q.at[w] <= version'[w]),
         \A w \in Wallets : version[w] <= version'[w],
         version' \in [Wallets -> Versions]
  PROVE  /\ WriteInv'
         /\ \A r \in Writers : writing'[r] # NotWriting =>
              \A w \in writing'[r].touched : writing'[r].at[w] <= version'[w]
<1>1. writing' = [r \in Writers |-> IF r = p THEN q ELSE writing[r]]
  BY DEF TypesInv, WriteInv, OnePost
<1>2. WriteInv'
  BY <1>1 DEF TypesInv, WriteInv, Writable
<1>3. ASSUME NEW r \in Writers, writing'[r] # NotWriting, NEW w \in writing'[r].touched
      PROVE  writing'[r].at[w] <= version'[w]
  <2>1. CASE r = p
    BY <1>1, <1>3, <2>1
  <2>2. CASE r # p
    <3> DEFINE k == writing[r]
    <3>1. writing'[r] = k /\ k # NotWriting /\ w \in k.touched
      BY <1>1, <1>3, <2>2
    <3>2. Writable(k) /\ w \in Wallets
      BY <3>1, TouchesAssumption DEF TypesInv, WriteInv, Writable
    <3>3. k.at[w] <= version[w]
      BY <3>1 DEF VersionInv
    <3>4. k.at[w] \in Nat /\ version[w] \in Nat /\ version'[w] \in Nat
      BY <3>1, <3>2 DEF Writable, TypesInv, ChainInv, Versions
    <3>5. version[w] <= version'[w]
      BY <3>2
    <3> HIDE DEF k
    <3> QED BY <3>1, <3>3, <3>4, <3>5
  <2> QED BY <2>1, <2>2
<1> QED BY <1>2, <1>3

\* What Confirmed makes of a POST.
LEMMA ConfirmedPost ==
  ASSUME NEW k, NEW at, k = [stage |-> k.stage, touched |-> k.touched, at |-> k.at],
         NEW q, q = [k EXCEPT !.stage = "confirmed", !.at = at]
  PROVE  q = [stage |-> "confirmed", touched |-> k.touched, at |-> at]
<1>1. PICK S, T, U : k \in [stage : S, touched : T, at : U]
  <2>1. [stage |-> k.stage, touched |-> k.touched, at |-> k.at]
          \in [stage : {k.stage}, touched : {k.touched}, at : {k.at}]
    OBVIOUS
  <2> QED BY <2>1, Zenon
<1>2. q.stage = "confirmed" /\ q.at = at /\ q.touched = k.touched
  BY <1>1
<1>3. q \in [stage : {"confirmed"}, touched : T, at : {at}]
  BY <1>1
<1> QED BY <1>2, <1>3

LEMMA RoomToIncrease ==
  ASSUME TypesInv, NEW touched \in SUBSET Wallets, Room(touched)
  PROVE  /\ Increased(touched) \in [Wallets -> Versions]
         /\ \A w \in Wallets : version[w] <= Increased(touched)[w]
<1>1. \A w \in Wallets : version[w] \in Versions
  BY DEF TypesInv, ChainInv
<1>2. \A w \in Wallets : Increased(touched)[w] \in Versions /\ version[w] <= Increased(touched)[w]
  BY <1>1, BoundsAssumption DEF Increased, Room, Versions
<1> QED BY <1>2 DEF Increased

LEMMA PostSteps ==
  ASSUME TypesInv, VersionInv,
         \/ \E p \in Writers, touched \in Touches : Submit(p, touched)
         \/ \E p \in Writers : Confirmed(p) \/ Acknowledge(p) \/ AnswerPending(p) \/ PostFails(p)
         \/ \E touched \in adrift : LandsLate(touched)
  PROVE  PostInv'
<1>1. /\ version \in [Wallets -> Versions] /\ acked \in [Wallets -> Versions]
      /\ \A w \in Wallets : /\ version[w] \in Nat /\ acked[w] \in Nat
                            /\ version[w] <= version[w] /\ acked[w] <= version[w]
  BY DEF TypesInv, ChainInv, VersionInv, Versions
<1>2. ASSUME NEW p \in Writers, NEW touched \in Touches, Submit(p, touched) PROVE PostInv'
  <2> DEFINE q == [stage |-> "submitted", touched |-> touched, at |-> [w \in touched |-> 0]]
  <2>1. OnePost(p, q) /\ UNCHANGED <<version, acked, now, adrift>>
    BY <1>2 DEF Submit, OnePost, chainVars, historyVars
  <2>2. Writable(q) /\ q.touched = touched /\ \A w \in touched : q.at[w] = 0
    BY BoundsAssumption DEF Writable, Versions
  <2>3. \A w \in q.touched : q.at[w] <= version'[w]
    BY <1>1, <2>1, <2>2, TouchesAssumption
  <2> HIDE DEF q
  <2>4. /\ WriteInv'
        /\ \A r \in Writers : writing'[r] # NotWriting =>
             \A w \in writing'[r].touched : writing'[r].at[w] <= version'[w]
    BY <1>1, <2>1, <2>2, <2>3, OnePostKeepsWriteInv
  <2> QED BY <2>1, <2>4 DEF PostInv, TypesInv, ChainInv, VersionInv
<1>3. ASSUME NEW p \in Writers, Confirmed(p) PROVE PostInv'
  <2> DEFINE touched == writing[p].touched
             q == [writing[p] EXCEPT !.stage = "confirmed", !.at = [w \in touched |-> version'[w]]]
  <2>1. ~Writes(p, "idle")
    BY <1>3 DEF Confirmed, Writes
  <2>2. Writable(writing[p]) /\ touched \in Touches /\ touched \in SUBSET Wallets
    BY <2>1, PostIs
  <2>3. /\ OnePost(p, [writing[p] EXCEPT !.stage = "confirmed", !.at = [w \in touched |-> version'[w]]])
        /\ version' = Increased(touched) /\ Room(touched)
        /\ UNCHANGED <<acked, now, adrift>>
    BY <1>3 DEF Confirmed, OnePost, historyVars
  <2>4. /\ version' \in [Wallets -> Versions]
        /\ \A w \in Wallets : version[w] <= version'[w]
    BY <2>2, <2>3, RoomToIncrease
  <2>5. /\ q.stage = "confirmed" /\ q.touched = touched
        /\ q.at = [w \in touched |-> version'[w]]
        /\ q = [stage |-> q.stage, touched |-> q.touched, at |-> q.at]
    <3>1. writing[p] = [stage |-> writing[p].stage, touched |-> writing[p].touched,
                        at |-> writing[p].at]
      BY <2>2 DEF Writable
    <3>2. q = [stage |-> "confirmed", touched |-> touched, at |-> [w \in touched |-> version'[w]]]
      BY <3>1, ConfirmedPost
    <3> QED BY <3>2
  <2> HIDE DEF q, touched
  <2>6. Writable(q)
    <3>1. \A w \in touched : version'[w] \in Versions
      BY <2>2, <2>4
    <3> QED BY <2>2, <2>5, <3>1 DEF Writable
  <2>7. \A w \in q.touched : q.at[w] <= version'[w]
    BY <2>2, <2>4, <2>5 DEF Versions
  <2>8. OnePost(p, q)
    BY <2>3 DEF q, touched
  <2>9. /\ WriteInv'
        /\ \A r \in Writers : writing'[r] # NotWriting =>
             \A w \in writing'[r].touched : writing'[r].at[w] <= version'[w]
    BY <2>4, <2>6, <2>7, <2>8, OnePostKeepsWriteInv
  <2>10. \A w \in Wallets : acked[w] <= version'[w]
    BY <1>1, <2>4 DEF Versions
  <2> QED BY <2>3, <2>4, <2>9, <2>10 DEF PostInv, TypesInv, ChainInv, VersionInv
<1>4. ASSUME NEW p \in Writers, OnePost(p, NotWriting), UNCHANGED <<version, now>>,
             adrift' \subseteq Touches, acked' \in [Wallets -> Versions],
             \A w \in Wallets : acked'[w] <= version[w]
      PROVE  PostInv'
  <2>1. /\ WriteInv'
        /\ \A r \in Writers : writing'[r] # NotWriting =>
             \A w \in writing'[r].touched : writing'[r].at[w] <= version'[w]
    BY <1>1, <1>4, OnePostKeepsWriteInv
  <2> QED BY <1>1, <1>4, <2>1 DEF PostInv, TypesInv, ChainInv, VersionInv
<1>5. ASSUME NEW p \in Writers, Acknowledge(p) PROVE PostInv'
  <2> DEFINE touched == writing[p].touched
             at == writing[p].at
  <2>1. ~Writes(p, "idle")
    BY <1>5 DEF Acknowledge, Writes
  <2>2. touched \subseteq Wallets /\ at \in [touched -> Versions] /\ writing[p] # NotWriting
    BY <2>1, PostIs DEF Writable
  <2>3. \A w \in touched : at[w] <= version[w]
    BY <2>2 DEF VersionInv
  <2>4. /\ acked' = [w \in Wallets |-> IF w \in touched /\ at[w] > acked[w] THEN at[w] ELSE acked[w]]
        /\ OnePost(p, NotWriting) /\ UNCHANGED <<version, now, adrift>>
    BY <1>5 DEF Acknowledge, OnePost, chainVars
  <2> HIDE DEF touched, at
  <2>5. \A w \in Wallets : acked'[w] \in Versions /\ acked'[w] <= version[w]
    BY <1>1, <2>2, <2>3, <2>4
  <2>6. acked' \in [Wallets -> Versions]
    BY <2>4, <2>5
  <2> QED BY <1>4, <2>4, <2>5, <2>6 DEF TypesInv, ChainInv
<1>6. ASSUME NEW p \in Writers, AnswerPending(p) \/ PostFails(p) PROVE PostInv'
  <2>1. ~Writes(p, "idle")
    BY <1>6 DEF AnswerPending, PostFails, Writes
  <2>2. adrift' \subseteq Touches
    BY <1>6, <2>1, PostIs DEF AnswerPending, PostFails, TypesInv, ChainInv
  <2>3. OnePost(p, NotWriting) /\ UNCHANGED <<version, now, acked>>
    BY <1>6 DEF AnswerPending, PostFails, OnePost, historyVars
  <2> QED BY <1>1, <1>4, <2>2, <2>3
<1>7. ASSUME NEW touched \in adrift, LandsLate(touched) PROVE PostInv'
  <2>1. touched \in SUBSET Wallets
    BY TouchesAssumption DEF TypesInv, ChainInv
  <2>2. /\ version' = Increased(touched) /\ Room(touched) /\ adrift' \subseteq Touches
        /\ UNCHANGED <<acked, now, writing>>
    BY <1>7 DEF LandsLate, historyVars, TypesInv, ChainInv
  <2>3. /\ version' \in [Wallets -> Versions]
        /\ \A w \in Wallets : version[w] <= version'[w]
    BY <2>1, <2>2, RoomToIncrease
  <2>4. \A w \in Wallets : acked[w] <= version'[w]
    BY <1>1, <2>3 DEF Versions
  <2>5. WriteInv'
    BY <2>2, UnchangedKeepsTypes
  <2>6. ASSUME NEW r \in Writers, writing[r] # NotWriting, NEW w \in writing[r].touched
        PROVE  writing[r].at[w] <= version'[w]
    <3>1. Writable(writing[r]) /\ w \in Wallets
      BY <2>6, TouchesAssumption DEF TypesInv, WriteInv, Writable
    <3>2. writing[r].at[w] <= version[w] /\ writing[r].at[w] \in Nat
      BY <2>6, <3>1 DEF VersionInv, Writable, Versions
    <3> QED BY <1>1, <2>3, <3>1, <3>2 DEF Versions
  <2> QED BY <1>1, <2>2, <2>3, <2>4, <2>5, <2>6 DEF PostInv, TypesInv, ChainInv, VersionInv
<1> QED BY <1>2, <1>3, <1>5, <1>6, <1>7

-----------------------------------------------------------------------------
(* The caches *)

LEMMA DocumentsHaveKeys ==
  \A keys : \A e \in Documents(keys) : e.key \in keys
BY DEF Documents

\* A key that is used goes to the end, and what has been evicted goes.
LEMMA UsedKeepsOrder ==
  ASSUME CacheInv, NEW e \in Documents(Keys), NEW full, full = Append(Without(cache, e.key), e),
         NEW first \in 0..Len(full), cache' = SubSeq(full, first + 1, Len(full)) \/ (cache' = full),
         recency' = StillCached(Used(e.key))
  PROVE  KeysOf(cache') = recency'
<1>1. /\ cache \in Seq(Documents(Keys)) /\ Distinct(cache)
      /\ \A d \in Documents(Keys) : d.key \in Keys
  BY DocumentsHaveKeys DEF CacheInv, IsCache
<1>2. KeysOf(full) = Used(e.key)
  BY <1>1, MovedToTheEnd DEF CacheInv, Used
<1>3. full \in Seq(Documents(Keys)) /\ Distinct(full)
  <2>1. /\ IsCache(Without(cache, e.key), Documents(Keys))
        /\ ToSet(Without(cache, e.key)) = {d \in ToSet(cache) : d.key # e.key}
    BY WithoutKeepsCache DEF CacheInv
  <2> QED BY <2>1, AppendKeepsDistinct DEF IsCache
<1>4. recency' = Drop(KeysOf(full), Gone(cache', KeysOf(full)))
  BY <1>2 DEF StillCached, Gone
<1>5. CASE cache' = SubSeq(full, first + 1, Len(full))
  BY <1>1, <1>3, <1>4, <1>5, SuffixKeepsOrder
<1>6. CASE cache' = full
  <2> DEFINE h == [j \in 1..Len(full) |-> j]
  <2>1. Within(h, full, full)
    BY <1>3 DEF Within
  <2> HIDE DEF h
  <2> QED BY <1>1, <1>3, <1>4, <1>6, <2>1, WithinKeepsOrder
<1> QED BY <1>5, <1>6

\* So does the key of what is deleted.
LEMMA DroppedKeepsOrder ==
  ASSUME CacheInv, NEW dropped, cache' = Drop(cache, dropped), recency' = StillCached(recency)
  PROVE  CacheInv'
<1>1. /\ cache \in Seq(Documents(Keys)) /\ Distinct(cache)
      /\ \A d \in Documents(Keys) : d.key \in Keys
  BY DocumentsHaveKeys DEF CacheInv, IsCache
<1>2. recency' = Drop(KeysOf(cache), Gone(cache', KeysOf(cache)))
  BY DEF StillCached, Gone, CacheInv
<1>3. KeysOf(cache') = recency'
  BY <1>1, <1>2, DropKeepsOrder
<1>4. cache' \in Seq(Documents(Keys)) /\ Distinct(cache') /\ Len(cache') <= Len(cache)
  BY <1>1, DropKeepsDistinct, DropKeeps
<1>5. Len(cache') <= MaxEntries
  BY <1>1, <1>4, MaximumIsPositive DEF CacheInv, IsCache
<1> QED BY <1>3, <1>4, <1>5 DEF CacheInv, IsCache

LEMMA GetKeepsCacheInv ==
  ASSUME CacheInv, NEW r, NEW key, Get(r, key)
  PROVE  CacheInv' /\ ToSet(cache') \subseteq ToSet(cache)
<1>1. cache' = AfterGet(cache, key, now)
  BY DEF Get
<1>2. IsCache(cache', Documents(Keys)) /\ ToSet(cache') \subseteq ToSet(cache)
  BY <1>1, AfterGetKeepsCache DEF CacheInv
<1>3. CASE Found(cache, key, now) = {}
  <2>1. cache' = Without(cache, key) /\ recency' = StillCached(recency)
    BY <1>1, <1>3 DEF AfterGet, Get, Hit, Miss
  <2> QED BY <1>2, <2>1, DroppedKeepsOrder DEF Without
<1>4. CASE Found(cache, key, now) # {}
  <2>1. PICK e \in Found(cache, key, now) : cache' = Append(Without(cache, key), e)
    BY <1>1, <1>4 DEF AfterGet
  <2>2. e \in Documents(Keys) /\ e.key = key
    <3>1. e \in ToSet(cache) /\ e.key = key
      BY DEF Found, Keyed, ToSet
    <3> QED BY <3>1 DEF CacheInv, IsCache, ToSet
  <2>3. recency' = StillCached(Used(e.key))
    BY <1>4, <2>2 DEF Get, Hit, Miss
  <2>4. 0 \in 0..Len(cache')
    BY <1>2 DEF IsCache
  <2>5. KeysOf(cache') = recency'
    BY <2>1, <2>2, <2>3, <2>4, UsedKeepsOrder
  <2> QED BY <1>2, <2>5 DEF CacheInv
<1> QED BY <1>3, <1>4

LEMMA FillKeepsCacheInv ==
  ASSUME TypesInv, CacheInv, NEW r \in Readers, Fill(r)
  PROVE  /\ CacheInv'
         /\ \A e \in ToSet(cache') : \/ e \in ToSet(cache)
                                     \/ /\ e.key = reading[r].key /\ e.v = reading[r].v
                                        /\ e.excused = reading[r].excused
<1> DEFINE e == [key |-> reading[r].key, v |-> reading[r].v,
                 exp |-> now + TTL, excused |-> reading[r].excused]
           full == Append(Without(cache, e.key), e)
           overflow == IF Len(full) > MaxEntries THEN Len(full) - MaxEntries ELSE 0
<1>1. e \in Documents(Keys)
  <2>1. ~Reads(r, "idle") /\ reading[r].stage \in {"fetched", "walked"}
    BY DEF Fill, FetchOver, Reads
  <2>2. Readable(reading[r]) /\ reading[r].v \in Versions /\ reading[r] \in Readings
    BY <2>1, ReadingIs DEF Readable
  <2>3. now + TTL \in Nat
    BY BoundsAssumption DEF TypesInv, ChainInv
  <2> QED BY <2>2, <2>3 DEF Documents, Readings
<1>2. /\ cache' = AfterSet(cache, e, MaxEntries)
      /\ cache' = SubSeq(full, overflow + 1, Len(full))
      /\ recency' = StillCached(Used(e.key))
  BY DEF Fill, AfterSet
<1>3. /\ e.key = reading[r].key /\ e.v = reading[r].v /\ e.excused = reading[r].excused
  OBVIOUS
<1> HIDE DEF e
<1>4. IsCache(cache', Documents(Keys)) /\ ToSet(cache') \subseteq ToSet(cache) \cup {e}
  <2> HIDE DEF full, overflow
  <2>1. /\ IsCache(AfterSet(cache, e, MaxEntries), Documents(Keys))
        /\ ToSet(AfterSet(cache, e, MaxEntries)) \subseteq ToSet(cache) \cup {e}
    BY <1>1, AfterSetKeepsCache DEF CacheInv
  <2> QED BY <1>2, <2>1
<1>5. full \in Seq(Documents(Keys))
  <2>1. IsCache(Without(cache, e.key), Documents(Keys))
    BY WithoutKeepsCache DEF CacheInv
  <2> QED BY <1>1, <2>1 DEF IsCache
<1>6. KeysOf(cache') = recency'
  <2> HIDE DEF full
  <2>1. overflow \in 0..Len(full)
    BY <1>5, MaximumIsPositive
  <2> HIDE DEF overflow
  <2> QED BY <1>1, <1>2, <2>1, UsedKeepsOrder DEF full
<1> QED BY <1>3, <1>4, <1>6 DEF CacheInv

\* An answered POST deletes what it touched.
LEMMA AnswerKeepsCacheInv ==
  ASSUME CacheInv, NEW touched, cache' = Invalidated(touched), recency' = StillCached(recency)
  PROVE  /\ CacheInv'
         /\ \A e \in ToSet(cache') : e \in ToSet(cache) /\ e.key[2] \notin touched
<1> DEFINE dropped == {e \in ToSet(cache) : e.key[2] \in touched}
<1>1. cache' = Drop(cache, dropped) /\ cache \in Seq(Documents(Keys))
  BY DEF Invalidated, CacheInv, IsCache
<1>2. \A e \in ToSet(cache) \ dropped : e \in ToSet(cache) /\ e.key[2] \notin touched
  OBVIOUS
<1> HIDE DEF dropped
<1>3. ToSet(cache') = ToSet(cache) \ dropped
  BY <1>1, DropKeeps
<1> QED BY <1>1, <1>2, <1>3, DroppedKeepsOrder

\* The lists: a passport drops its wallet's, and a fetch sets its own.
ListsFrom(r) ==
  /\ ListsInv'
  /\ \A e \in ToSet(delegations') :
       \/ e \in ToSet(delegations)
       \/ /\ reading[r] # NotReading /\ e.key = WalletOf(r)
          /\ e.v = reading[r].v /\ e.excused = reading[r].excused

LEMMA ListsUsed ==
  ASSUME ListsInv, NEW r, NEW w,
         delegations' = AfterGet(delegations, w, now) \/ delegations' = Without(delegations, w)
  PROVE  ListsFrom(r)
<1>1. CASE delegations' = AfterGet(delegations, w, now)
  <2>1. /\ IsCache(AfterGet(delegations, w, now), Documents(Wallets))
        /\ ToSet(AfterGet(delegations, w, now)) \subseteq ToSet(delegations)
    BY AfterGetKeepsCache DEF ListsInv
  <2> QED BY <1>1, <2>1 DEF ListsInv, ListsFrom
<1>2. CASE delegations' = Without(delegations, w)
  <2>1. /\ IsCache(Without(delegations, w), Documents(Wallets))
        /\ ToSet(Without(delegations, w)) = {e \in ToSet(delegations) : e.key # w}
    BY WithoutKeepsCache DEF ListsInv
  <2> QED BY <1>2, <2>1 DEF ListsInv, ListsFrom
<1> QED BY <1>1, <1>2

LEMMA ListsUnused ==
  ASSUME ListsInv, NEW r, UNCHANGED delegations
  PROVE  ListsFrom(r)
BY DEF ListsInv, ListsFrom

LEMMA ListSets ==
  ASSUME TypesInv, ListsInv, NEW r \in Readers, List(r)
  PROVE  ListsFrom(r)
<1> DEFINE e == [key |-> WalletOf(r), v |-> reading[r].v, exp |-> now + TTL,
                 excused |-> reading[r].excused]
<1>1. /\ reading[r] # NotReading /\ Readable(reading[r]) /\ reading[r].v \in Versions
      /\ reading[r] \in Readings /\ WalletOf(r) \in Wallets
  <2>1. ~Reads(r, "idle") /\ reading[r].stage = "listed"
    BY DEF List, Reads
  <2> QED BY <2>1, ReadingIs DEF Readable
<1>2. e \in Documents(Wallets)
  <2>1. now + TTL \in Nat
    BY BoundsAssumption DEF TypesInv, ChainInv
  <2> QED BY <1>1, <2>1 DEF Documents, Readings
<1>3. delegations' = AfterSet(delegations, e, MaxEntries)
  BY DEF List
<1>4. e.key = WalletOf(r) /\ e.v = reading[r].v /\ e.excused = reading[r].excused
  OBVIOUS
<1> HIDE DEF e
<1>5. /\ IsCache(AfterSet(delegations, e, MaxEntries), Documents(Wallets))
      /\ ToSet(AfterSet(delegations, e, MaxEntries)) \subseteq ToSet(delegations) \cup {e}
  BY <1>2, AfterSetKeepsCache DEF ListsInv
<1> QED BY <1>1, <1>3, <1>4, <1>5 DEF ListsInv, ListsFrom

\* What each step of a GET does to the lists.
LEMMA ListsSteps ==
  ASSUME TypesInv, ListsInv, NEW r \in Readers,
         \/ \E key \in Keys : Get(r, key)
         \/ \E w \in Wallets : GetDelegation(r, w)
         \/ ChainAnswers(r) \/ Walk(r) \/ List(r) \/ Fill(r) \/ GetFails(r)
  PROVE  ListsFrom(r)
<1>1. ASSUME NEW key \in Keys, Get(r, key) PROVE ListsFrom(r)
  <2>1. delegations' = delegations \/ delegations' = Without(delegations, key[2])
    BY <1>1 DEF Get, Hit, Miss, DelegationsDropped
  <2> QED BY <2>1, ListsUsed, ListsUnused
<1>2. CASE (\E w \in Wallets : GetDelegation(r, w)) \/ Walk(r)
  <2>1. PICK w : delegations' = AfterGet(delegations, w, now)
    BY <1>2 DEF GetDelegation, Walk
  <2> QED BY <2>1, ListsUsed
<1>3. CASE ChainAnswers(r) \/ Fill(r) \/ GetFails(r)
  BY <1>3, ListsUnused DEF ChainAnswers, Fill, GetFails, caches
<1> QED BY <1>1, <1>2, <1>3, ListSets

\* A passport that begins finds no list of its wallet.
LEMMA PassportDropsItsList ==
  ASSUME ListsInv, NEW r, NEW key, Miss(r, key), key[1] = "passport"
  PROVE  \A e \in ToSet(delegations') : e.key # key[2]
<1>1. delegations' = Without(delegations, key[2])
  BY DEF Miss, DelegationsDropped
<1> QED BY <1>1, WithoutKeepsCache DEF ListsInv

\* The accounts: read when a score begins, set when a flight lands.
LEMMA AccountsUsed ==
  ASSUME AccountsInv, NEW r, NEW key, Get(r, key)
  PROVE  AccountsInv'
<1>1. accounts' = accounts \/ accounts' = AfterGet(accounts, key[2], now)
  BY DEF Get, Hit, Miss, fetchAccountInfo, JoinFlight, BorrowAccount, StartFlight
<1>2. IsCache(AfterGet(accounts, key[2], now), Accounts)
  BY AfterGetKeepsCache DEF AccountsInv
<1> QED BY <1>1, <1>2 DEF AccountsInv

LEMMA AccountsSet ==
  ASSUME TypesInv, AccountsInv, NEW w \in Wallets, AccountArrives(w)
  PROVE  AccountsInv'
<1> DEFINE e == [key |-> w, v |-> flight[w].v, exp |-> now + TTL]
<1>1. flight[w].v \in Versions
  <2>1. flight[w].stage = "answered" /\ ~Flies(w, "none")
    BY DEF AccountArrives, Flies
  <2> QED BY <2>1, StagesTell DEF TypesInv, FlightInv, Fetchable
<1>2. now + TTL \in Nat
  BY BoundsAssumption DEF TypesInv, ChainInv
<1>3. e \in Accounts
  BY <1>1, <1>2 DEF Accounts
<1>4. accounts' = AfterSet(accounts, e, MaxEntries)
  BY DEF AccountArrives
<1> HIDE DEF e
<1>5. IsCache(AfterSet(accounts, e, MaxEntries), Accounts)
  BY <1>3, AfterSetKeepsCache DEF AccountsInv
<1> QED BY <1>4, <1>5 DEF AccountsInv

-----------------------------------------------------------------------------
(***************************************************************************)
(* Nothing stale in an unexcused document.  What goes into one was read    *)
(* after the wallet's newest acknowledgement; and who was reading when it  *)
(* was acknowledged is excused.                                            *)
(***************************************************************************)
LEMMA VersionsBound ==
  ASSUME TypesInv, VersionInv, NEW w \in Wallets
  PROVE  /\ acked[w] \in Nat /\ version[w] \in Nat
         /\ acked[w] <= version[w] /\ acked[w] <= NoVersion
BY VersionsAreNumbers, BoundsAssumption DEF TypesInv, ChainInv, VersionInv, Versions, NoVersion

\* Documents, flights and lists that are old or recent, and acknowledged as before.
LEMMA FreshKept ==
  ASSUME FreshInv, UNCHANGED acked,
         \A e \in ToSet(delegations') : e \in ToSet(delegations) \/ Recent(e, e.key),
         \A r \in Readers : reading'[r] # NotReading =>
            \/ reading'[r] = reading[r]
            \/ Sound(reading'[r], delegations'),
         \A w \in Wallets : flight'[w] # NoFlight =>
            (flight[w] # NoFlight /\ flight'[w] = flight[w]) \/ Recent(flight'[w], w),
         \A e \in ToSet(cache') : e \in ToSet(cache) \/ Recent(e, e.key[2])
  PROVE  FreshInv'
<1>1. ASSUME NEW r \in Readers, reading'[r] # NotReading
      PROVE  Sound(reading'[r], delegations')
  <2> DEFINE q == reading'[r]
  <2>1. CASE q = reading[r]
    <3>1. Sound(q, delegations)
      BY <1>1, <2>1 DEF FreshInv
    <3> HIDE DEF q
    <3>2. ASSUME q.key[1] = "passport", ~q.excused, NEW e \in ToSet(delegations'), e.key = q.key[2]
          PROVE  Recent(e, e.key)
      BY <3>1, <3>2 DEF Sound
    <3>3. Sound(q, delegations')
      BY <3>1, <3>2, Zenon DEF Sound
    <3> QED BY <3>3 DEF q
  <2> QED BY <1>1, <2>1
<1>2. ASSUME NEW r \in Readers, reading'[r] # NotReading PROVE Sound(reading[r], delegations)'
  BY <1>1, <1>2 DEF Sound, Recent
<1>3. \A w \in Wallets : flight'[w] # NoFlight => Recent(flight'[w], w)
  BY DEF FreshInv
<1>4. \A e \in ToSet(cache') : Recent(e, e.key[2])
  BY DEF FreshInv
<1>5. \A w \in Wallets : flight'[w] # NoFlight => Recent(flight[w], w)'
  BY <1>3 DEF Recent
<1>6. \A e \in ToSet(cache') : Recent(e, e.key[2])'
  BY <1>4 DEF Recent
<1> QED BY <1>2, <1>5, <1>6 DEF FreshInv

GetStep(r) ==
  \/ \E key \in Keys : Get(r, key)
  \/ \E w \in Wallets : GetDelegation(r, w)
  \/ ChainAnswers(r) \/ Walk(r) \/ List(r) \/ Fill(r) \/ GetFails(r)

\* One GET goes on, soundly.
LEMMA OneSoundReading ==
  ASSUME TypesInv, NEW r \in Readers, NEW q, Reading(r, q),
         q = NotReading \/ Readable(q),
         q # NotReading => Sound(q, delegations')
  PROVE  \A s \in Readers : reading'[s] # NotReading =>
            reading'[s] = reading[s] \/ Sound(reading'[s], delegations')
<1>1. ReadInv
  BY DEF TypesInv
<1>2. reading'[r] = q /\ \A s \in Readers \ {r} : reading'[s] = reading[s]
  BY <1>1, OneReadingKeepsReadInv
<1> QED BY <1>2

LEMMA BeginsSoundly ==
  ASSUME TypesInv, VersionInv, NEW r \in Readers, NEW key \in Keys, NEW q, Begins(r, key, q),
         key[1] = "passport" => \A e \in ToSet(delegations') : e.key # key[2]
  PROVE  \A s \in Readers : reading'[s] # NotReading =>
            reading'[s] = reading[s] \/ Sound(reading'[s], delegations')
<1>1. key[2] \in Wallets
  BY DEF Keys
<1>2. Reading(r, q) /\ Readable(q) /\ q.key = key /\ (q.excused \/ q.v = NoVersion)
  BY DEF Begins
<1>3. Recent(q, q.key[2])
  BY <1>1, <1>2, VersionsBound DEF Recent
<1>4. Sound(q, delegations')
  BY <1>2, <1>3 DEF Sound
<1> QED BY <1>2, <1>4, OneSoundReading

LEMMA AdvancesSoundly ==
  ASSUME TypesInv, VersionInv, FreshInv, NEW r \in Readers, NEW q, Advances(r, q),
         \A e \in ToSet(delegations') : e \in ToSet(delegations) \/ Recent(e, e.key)
  PROVE  \A s \in Readers : reading'[s] # NotReading =>
            reading'[s] = reading[s] \/ Sound(reading'[s], delegations')
<1> DEFINE k == reading[r]
<1>1. k # NotReading /\ Reading(r, q) /\ Readable(q) /\ q.key = k.key
  BY DEF Advances
<1>2. Sound(k, delegations)
  BY <1>1 DEF FreshInv
<1>3. \/ q.excused
      \/ /\ ~k.excused
         /\ \/ q.v \in {k.v, version[q.key[2]]}
            \/ \E e \in ToSet(delegations) :
                 q.key[1] = "passport" /\ e.key = q.key[2] /\ ~e.excused /\ q.v = e.v
  BY DEF Advances
<1>4. q.key[2] \in Wallets
  BY <1>1 DEF Readable, Readings, Keys
<1> HIDE DEF k
<1>5. Recent(q, q.key[2])
  <2>1. CASE q.excused
    BY <2>1 DEF Recent
  <2>2. CASE ~k.excused /\ q.v \in {k.v, version[q.key[2]]}
    <3>1. k.v >= acked[q.key[2]]
      BY <1>1, <1>2, <2>2 DEF Sound, Recent
    <3> QED BY <1>4, <2>2, <3>1, VersionsBound DEF Recent
  <2>3. CASE /\ ~k.excused
             /\ \E e \in ToSet(delegations) :
                  q.key[1] = "passport" /\ e.key = q.key[2] /\ ~e.excused /\ q.v = e.v
    <3>1. PICK e \in ToSet(delegations) :
                  q.key[1] = "passport" /\ e.key = q.key[2] /\ ~e.excused /\ q.v = e.v
      BY <2>3
    <3>2. Recent(e, e.key)
      BY <1>1, <1>2, <2>3, <3>1 DEF Sound
    <3> QED BY <3>1, <3>2 DEF Recent
  <2> QED BY <1>3, <2>1, <2>2, <2>3
<1>6. ASSUME q.key[1] = "passport", ~q.excused, NEW e \in ToSet(delegations'), e.key = q.key[2]
      PROVE  Recent(e, e.key)
  <2>1. ~k.excused
    BY <1>3, <1>6
  <2>2. e \in ToSet(delegations) => Recent(e, e.key)
    BY <1>1, <1>2, <1>6, <2>1 DEF Sound
  <2> QED BY <2>2
<1>7. Sound(q, delegations')
  BY <1>5, <1>6, Zenon DEF Sound
<1> QED BY <1>1, <1>7, OneSoundReading

LEMMA GetStepsFresh ==
  ASSUME TypesInv, VersionInv, MapInv, FreshInv, NEW r \in Readers, GetStep(r)
  PROVE  FreshInv'
<1>1. UNCHANGED acked
  BY DEF GetStep, Get, GetDelegation, ChainAnswers, Walk, List, Fill, GetFails, historyVars
<1>2. CacheInv /\ ListsInv
  BY DEF MapInv
<1>3. \A e \in ToSet(delegations') : e \in ToSet(delegations) \/ Recent(e, e.key)
  <2>1. ListsFrom(r)
    BY <1>2, ListsSteps DEF GetStep
  <2>2. reading[r] # NotReading => Recent(reading[r], WalletOf(r))
    BY DEF FreshInv, Sound, WalletOf
  <2> QED BY <2>1, <2>2 DEF ListsFrom, Recent
<1>4. \A e \in ToSet(cache') : e \in ToSet(cache) \/ Recent(e, e.key[2])
  <2>1. ASSUME NEW key \in Keys, Get(r, key) PROVE ToSet(cache') \subseteq ToSet(cache)
    BY <1>2, <2>1, GetKeepsCacheInv
  <2>2. ASSUME Fill(r), NEW e \in ToSet(cache'), e \notin ToSet(cache) PROVE Recent(e, e.key[2])
    <3>1. /\ e.key = reading[r].key /\ e.v = reading[r].v
          /\ e.excused = reading[r].excused
      BY <1>2, <2>2, FillKeepsCacheInv
    <3>2. Reads(r, "idle") <=> reading[r] = NotReading
      BY StagesTell
    <3>3. Sound(reading[r], delegations)
      BY <2>2, <3>2 DEF FreshInv, Fill, FetchOver
    <3> QED BY <3>1, <3>3 DEF Sound, Recent
  <2>3. ~Fill(r) /\ ~(\E key \in Keys : Get(r, key)) => UNCHANGED cache
    BY DEF GetStep, GetDelegation, ChainAnswers, Walk, List, GetFails, caches
  <2> QED BY <2>1, <2>2, <2>3
<1>5. \A w \in Wallets : flight'[w] # NoFlight =>
        (flight[w] # NoFlight /\ flight'[w] = flight[w]) \/ Recent(flight'[w], w)
  <2>1. ASSUME NEW w \in Wallets, Starts(r, w), NEW x \in Wallets, flight'[x] # NoFlight
        PROVE  (flight[x] # NoFlight /\ flight'[x] = flight[x]) \/ Recent(flight'[x], x)
    <3>1. flight' = [y \in Wallets |-> IF y = w THEN Asking ELSE flight[y]]
      BY <2>1 DEF Starts, TypesInv, FlightInv
    <3>2. Recent(Asking, w)
      BY VersionsBound DEF Asking, Recent
    <3> QED BY <2>1, <3>1, <3>2
  <2>2. ASSUME UNCHANGED flight, NEW x \in Wallets, flight'[x] # NoFlight
        PROVE  flight[x] # NoFlight /\ flight'[x] = flight[x]
    BY <2>2
  <2>3. UNCHANGED flight \/ \E w \in Wallets : Starts(r, w)
    BY GetSteps DEF GetStep, Joins, Alone
  <2> QED BY <2>1, <2>2, <2>3
<1>6. \A s \in Readers : reading'[s] # NotReading =>
            reading'[s] = reading[s] \/ Sound(reading'[s], delegations')
  <2>1. ASSUME NEW key \in Keys, Get(r, key)
        PROVE  UNCHANGED reading \/ \E q : Begins(r, key, q)
    <3>1. CASE Hit(key)
      BY <3>1 DEF Hit
    <3>2. CASE Miss(r, key)
      <4>1. Reads(r, "idle") /\ key = <<key[1], key[2]>>
        BY <2>1 DEF Get, Keys
      <4>2. \/ key[1] = "score" /\ (Joins(r, key[2]) \/ Starts(r, key[2]))
            \/ Alone(r, key)
        BY <3>2, <4>1, MissBegins
      <4>3. key[1] = "score" => key = <<"score", key[2]>>
        BY <4>1
      <4> QED BY <4>2, <4>3 DEF Joins, Starts, Alone
    <3> QED BY <2>1, <3>1, <3>2 DEF Get
  <2>2. ASSUME NEW key \in Keys, Get(r, key), NEW q, Begins(r, key, q), key[1] = "passport"
        PROVE  \A e \in ToSet(delegations') : e.key # key[2]
    <3>1. CASE Miss(r, key)
      BY <1>2, <2>2, <3>1, PassportDropsItsList
    <3>2. CASE Hit(key)
      <4>1. reading' = reading /\ reading[r] = NotReading /\ Reading(r, q) /\ Readable(q)
        BY <2>2, <3>2 DEF Hit, Begins
      <4>2. reading'[r] = q
        BY <4>1, OneReadingKeepsReadInv DEF TypesInv
      <4> QED BY <4>1, <4>2 DEF Readable, Readings, NotReading
    <3> QED BY <2>2, <3>1, <3>2 DEF Get
  <2>3. CASE \E key \in Keys : Get(r, key)
    BY <2>1, <2>2, <2>3, BeginsSoundly
  <2>4. CASE \E w \in Wallets : GetDelegation(r, w)
    <3>1. PICK w \in Wallets : GetDelegation(r, w)
      BY <2>4
    <3>2. <<"delegation", w>> \in Keys
      BY <3>1 DEF GetDelegation, Keys
    <3>3. UNCHANGED reading \/ \E q : Begins(r, <<"delegation", w>>, q)
      BY <3>1, ListBegins DEF Alone
    <3> QED BY <3>2, <3>3, BeginsSoundly
  <2>5. ASSUME NEW q, Advances(r, q)
        PROVE  \A s \in Readers : reading'[s] # NotReading =>
                 reading'[s] = reading[s] \/ Sound(reading'[s], delegations')
    BY <1>3, <2>5, AdvancesSoundly
  <2>6. CASE Ends(r)
    BY <2>6, OneSoundReading DEF Ends
  <2> QED BY <2>3, <2>4, <2>5, <2>6, ChainAdvances, WalkAdvances, ListAdvances, FillEnds DEF GetStep
<1> QED BY <1>1, <1>3, <1>4, <1>5, <1>6, FreshKept

\* A flight that lands brings what is as recent as itself.
LEMMA LandsSoundly ==
  ASSUME TypesInv, VersionInv, FreshInv, NEW w \in Wallets, NEW v \in Seen, NEW excused \in BOOLEAN,
         reading' = Delivered(w, v, excused), flight' = Forgotten(w),
         excused \/ v >= acked[w], UNCHANGED <<cache, delegations, acked>>
  PROVE  FreshInv'
<1>1. /\ \A r \in Readers : Awaits(r, w) => Receives(r, w, v, excused)
      /\ \A r \in Readers : ~Awaits(r, w) => reading'[r] = reading[r]
  BY DeliveredIs
<1>2. ASSUME NEW r \in Readers, Awaits(r, w) PROVE Sound(reading'[r], delegations')
  <2> DEFINE k == reading[r]
             q == reading'[r]
  <2>1. k # NotReading /\ k.key[2] = w
    BY <1>2 DEF Awaits, WalletOf
  <2>2. Sound(k, delegations)
    BY <2>1 DEF FreshInv
  <2>3. q.key = k.key /\ q.v \in {k.v, v} /\ (q.excused <=> k.excused \/ excused)
    BY <1>1, <1>2 DEF Receives
  <2> HIDE DEF k, q
  <2>4. Sound(q, delegations')
    BY <2>1, <2>2, <2>3 DEF Sound, Recent
  <2> QED BY <2>4 DEF q
<1>3. \A x \in Wallets : flight'[x] # NoFlight => flight[x] # NoFlight /\ flight'[x] = flight[x]
  BY DEF Forgotten, TypesInv, FlightInv
<1> QED BY <1>1, <1>2, <1>3, FreshKept

LEMMA FlightStepsFresh ==
  ASSUME TypesInv, VersionInv, FreshInv, NEW w \in Wallets,
         AccountAnswers(w) \/ AccountArrives(w) \/ AccountFails(w)
  PROVE  FreshInv'
<1>1. flight[w] # NoFlight /\ flight[w] \in Flights
  <2>1. ~Flies(w, "none")
    BY DEF AccountAnswers, AccountArrives, AccountFails, Flies
  <2> QED BY <2>1, StagesTell DEF TypesInv, FlightInv, Fetchable
<1>2. CASE AccountAnswers(w)
  <2>1. ASSUME NEW x \in Wallets, flight'[x] # NoFlight
        PROVE  (flight[x] # NoFlight /\ flight'[x] = flight[x]) \/ Recent(flight'[x], x)
    <3>1. CASE x = w
      <4> DEFINE q == [flight[w] EXCEPT !.stage = "answered", !.v = version[w]]
      <4>1. flight'[w] = q
        BY <1>2 DEF AccountAnswers, TypesInv, FlightInv
      <4>2. q.v = version[w]
        BY <1>1 DEF Flights
      <4> HIDE DEF q
      <4> QED BY <3>1, <4>1, <4>2, VersionsBound DEF Recent
    <3>2. CASE x # w
      BY <1>2, <2>1, <3>2 DEF AccountAnswers, TypesInv, FlightInv
    <3> QED BY <3>1, <3>2
  <2>2. UNCHANGED <<reading, cache, delegations, acked>>
    BY <1>2 DEF AccountAnswers, caches, historyVars
  <2> QED BY <2>1, <2>2, FreshKept
<1>3. CASE AccountArrives(w)
  <2>1. flight[w].v \in Seen /\ flight[w].excused \in BOOLEAN
    BY <1>1 DEF Flights
  <2>2. flight[w].excused \/ flight[w].v >= acked[w]
    BY <1>1 DEF FreshInv, Recent
  <2> QED BY <1>3, <2>1, <2>2, LandsSoundly DEF AccountArrives, historyVars
<1>4. CASE AccountFails(w)
  <2>1. NoVersion \in Seen /\ NoVersion >= acked[w]
    BY VersionsBound, VersionsAreNumbers DEF Seen
  <2> QED BY <1>4, <2>1, LandsSoundly DEF AccountFails, caches, historyVars
<1> QED BY <1>2, <1>3, <1>4

\* An answered POST excuses whoever it overtakes, and leaves no document of what it
\* touched; the other wallets are acknowledged as before.
LEMMA OvertakingKeepsFresh ==
  ASSUME TypesInv, FreshInv, NEW touched, Overtaken(touched),
         \A e \in ToSet(cache') : e \in ToSet(cache) /\ e.key[2] \notin touched,
         \A e \in ToSet(cache) : e.key[2] \in Wallets,
         UNCHANGED delegations,
         \A w \in Wallets \ touched : acked'[w] = acked[w]
  PROVE  FreshInv'
<1>1. /\ \A r \in Readers :
           IF reading[r] = NotReading THEN reading'[r] = NotReading ELSE Excuses(r, touched)
      /\ \A w \in Wallets :
           IF flight[w] = NoFlight THEN flight'[w] = NoFlight ELSE ExcusesFlight(w, touched)
  BY OvertakenIs
<1>2. ASSUME NEW r \in Readers, reading'[r] # NotReading PROVE Sound(reading[r], delegations)'
  <2> DEFINE k == reading[r]
  <2>1. k # NotReading /\ Excuses(r, touched)
    BY <1>1, <1>2
  <2>2. CASE reading'[r].excused
    BY <2>2 DEF Sound, Recent
  <2>3. CASE k.key[2] \notin touched /\ reading'[r] = k
    <3>1. Sound(k, delegations)
      BY <2>1 DEF FreshInv
    <3>2. k.key[2] \in Wallets
      <4>1. ~Reads(r, "idle")
        BY <2>1, StagesTell
      <4> QED BY <4>1, ReadingIs DEF WalletOf
    <3>3. acked'[k.key[2]] = acked[k.key[2]]
      BY <2>3, <3>2
    <3> HIDE DEF k
    <3> QED BY <2>3, <3>1, <3>3 DEF Sound, Recent
  <2> QED BY <2>1, <2>2, <2>3 DEF Excuses
<1>3. ASSUME NEW w \in Wallets, flight'[w] # NoFlight PROVE Recent(flight[w], w)'
  BY <1>1, <1>3 DEF ExcusesFlight, Recent, FreshInv
<1>4. \A e \in ToSet(cache') : Recent(e, e.key[2])'
  BY DEF FreshInv, Recent
<1> QED BY <1>2, <1>3, <1>4 DEF FreshInv

-----------------------------------------------------------------------------
(***************************************************************************)
(* The invariant of the caches.                                            *)
(***************************************************************************)
CachesInv ==
  TypesInv /\ MapInv /\ VersionInv /\ FreshInv /\ SettleInv

LEMMA CachesBegin == Init => CachesInv
<1> SUFFICES ASSUME Init PROVE CachesInv
  OBVIOUS
<1>1. TypesInv
  BY BoundsAssumption
     DEF Init, TypesInv, ReadInv, FlightInv, WriteInv, ChainInv, Versions
<1>2. /\ Len(<<>>) = 0 /\ DOMAIN <<>> = {} /\ ToSet(<<>>) = {} /\ Distinct(<<>>)
      /\ \A R : <<>> \in Seq(R)
  BY DEF ToSet, Distinct
<1>3. \A R : IsCache(<<>>, R)
  BY <1>2, MaximumIsPositive DEF IsCache
<1>4. KeysOf(<<>>) = <<>>
  BY DEF KeysOf
<1>5. CacheInv /\ ListsInv /\ AccountsInv
  BY <1>3, <1>4 DEF Init, CacheInv, ListsInv, AccountsInv
<1>6. VersionInv
  BY DEF Init, VersionInv
<1>7. FreshInv /\ SettleInv
  BY <1>2 DEF Init, FreshInv, SettleInv, Awaits
<1> QED BY <1>1, <1>5, <1>6, <1>7 DEF CachesInv, MapInv

PostStep ==
  \/ \E p \in Writers, touched \in Touches : Submit(p, touched)
  \/ \E p \in Writers : Confirmed(p) \/ Acknowledge(p) \/ AnswerPending(p) \/ PostFails(p)
  \/ \E touched \in adrift : LandsLate(touched)

FlightStep == \E w \in Wallets : AccountAnswers(w) \/ AccountArrives(w) \/ AccountFails(w)

\* What is left alone keeps its part of the invariant.
LEMMA UnchangedKeeps ==
  ASSUME CachesInv
  PROVE  /\ UNCHANGED <<cache, recency>> => CacheInv'
         /\ UNCHANGED delegations => ListsInv'
         /\ UNCHANGED accounts => AccountsInv'
         /\ UNCHANGED <<version, acked, writing>> => VersionInv'
         /\ UNCHANGED <<reading, flight>> => ReadInv' /\ FlightInv' /\ SettleInv'
         /\ UNCHANGED <<reading, flight, delegations, cache, acked>> => FreshInv'
<1>1. UNCHANGED <<cache, recency>> => CacheInv'
  BY DEF CachesInv, MapInv, CacheInv
<1>2. /\ UNCHANGED delegations => ListsInv'
      /\ UNCHANGED accounts => AccountsInv'
  BY DEF CachesInv, MapInv, ListsInv, AccountsInv
<1>3. UNCHANGED <<version, acked, writing>> => VersionInv'
  BY DEF CachesInv, VersionInv
<1>4. UNCHANGED <<reading, flight>> => ReadInv' /\ FlightInv' /\ SettleInv'
  BY UnchangedKeepsTypes DEF CachesInv, SettleInv, Awaits, WalletOf
<1>5. UNCHANGED <<reading, flight, delegations, cache, acked>> => FreshInv'
  BY DEF CachesInv, FreshInv, Sound, Recent
<1> QED BY <1>1, <1>2, <1>3, <1>4, <1>5

LEMMA GetStepKeepsCaches ==
  ASSUME CachesInv, NEW r \in Readers, GetStep(r)
  PROVE  CachesInv'
<1> USE DEF CachesInv, MapInv
<1>1. MapInv
  OBVIOUS
<1>2. ReadInv' /\ FlightInv' /\ SettleInv'
  BY <1>1, GetStepsSettle DEF GetStep
<1>3. UNCHANGED <<now, writing, chainVars, acked>>
  BY DEF GetStep, Get, GetDelegation, ChainAnswers, Walk, List, Fill, GetFails, historyVars
<1>4. WriteInv' /\ ChainInv' /\ VersionInv'
  BY <1>3, UnchangedKeepsTypes, UnchangedKeeps DEF chainVars
<1>5. CacheInv'
  <2>1. ~Fill(r) /\ ~(\E key \in Keys : Get(r, key)) => UNCHANGED <<cache, recency>>
    BY DEF GetStep, GetDelegation, ChainAnswers, Walk, List, GetFails, caches, historyVars
  <2> QED BY <2>1, GetKeepsCacheInv, FillKeepsCacheInv, UnchangedKeeps
<1>6. ListsInv'
  BY ListsSteps DEF GetStep, ListsFrom
<1>7. AccountsInv'
  <2>1. ~(\E key \in Keys : Get(r, key)) => UNCHANGED accounts
    BY DEF GetStep, GetDelegation, ChainAnswers, Walk, List, Fill, GetFails, caches
  <2> QED BY <2>1, AccountsUsed, UnchangedKeeps
<1>8. FreshInv'
  BY <1>1, GetStepsFresh
<1> QED BY <1>2, <1>4, <1>5, <1>6, <1>7, <1>8 DEF TypesInv

LEMMA FlightStepKeepsCaches ==
  ASSUME CachesInv, FlightStep
  PROVE  CachesInv'
<1> USE DEF CachesInv, MapInv
<1>1. PICK w \in Wallets : AccountAnswers(w) \/ AccountArrives(w) \/ AccountFails(w)
  BY DEF FlightStep
<1>2. ReadInv' /\ FlightInv' /\ SettleInv' /\ FreshInv'
  BY <1>1, FlightSteps, FlightStepsFresh
<1>3. UNCHANGED <<cache, recency, delegations, now, writing, chainVars, acked>>
  BY <1>1 DEF AccountAnswers, AccountArrives, AccountFails, caches, historyVars
<1>4. WriteInv' /\ ChainInv' /\ VersionInv' /\ CacheInv' /\ ListsInv'
  BY <1>3, UnchangedKeepsTypes, UnchangedKeeps DEF chainVars
<1>5. AccountsInv'
  <2>1. ~AccountArrives(w) => UNCHANGED accounts
    BY <1>1 DEF AccountAnswers, AccountFails, caches
  <2> QED BY <2>1, AccountsSet, UnchangedKeeps
<1> QED BY <1>2, <1>4, <1>5 DEF TypesInv

LEMMA PostStepKeepsCaches ==
  ASSUME CachesInv, PostStep
  PROVE  CachesInv'
<1> USE DEF CachesInv, MapInv
<1>1. WriteInv' /\ ChainInv' /\ VersionInv'
  BY PostSteps DEF PostStep, PostInv
<1>2. ListsInv' /\ AccountsInv'
  <2>1. UNCHANGED <<delegations, accounts>>
    BY DEF PostStep, Submit, Confirmed, Acknowledge, AnswerPending, PostFails, LandsLate, caches
  <2> QED BY <2>1, UnchangedKeeps
<1>3. ASSUME NEW p \in Writers, Acknowledge(p) \/ AnswerPending(p)
      PROVE  CacheInv' /\ FreshInv' /\ ReadInv' /\ FlightInv' /\ SettleInv'
  <2> DEFINE touched == writing[p].touched
  <2>1. /\ cache' = Invalidated(touched) /\ recency' = StillCached(recency)
        /\ Overtaken(touched) /\ UNCHANGED delegations
        /\ \A w \in Wallets \ touched : acked'[w] = acked[w]
    BY <1>3 DEF Acknowledge, AnswerPending
  <2> HIDE DEF touched
  <2>2. /\ CacheInv'
        /\ \A e \in ToSet(cache') : e \in ToSet(cache) /\ e.key[2] \notin touched
    BY <2>1, AnswerKeepsCacheInv
  <2>3. \A e \in ToSet(cache) : e.key[2] \in Wallets
    <3>1. \A e \in ToSet(cache) : e \in Documents(Keys)
      BY DEF CacheInv, IsCache, ToSet
    <3> QED BY <3>1 DEF Documents, Keys
  <2>4. ReadInv' /\ FlightInv' /\ SettleInv'
    BY <2>1, OvertakingSettles
  <2>5. FreshInv'
    BY <2>1, <2>2, <2>3, OvertakingKeepsFresh
  <2> QED BY <2>2, <2>4, <2>5
<1>4. CASE ~(\E p \in Writers : Acknowledge(p) \/ AnswerPending(p))
  <2>1. UNCHANGED <<cache, recency, reading, flight, delegations, acked>>
    BY <1>4 DEF PostStep, Submit, Confirmed, PostFails, LandsLate, caches, historyVars
  <2> QED BY <1>1, <1>2, <2>1, UnchangedKeeps DEF TypesInv
<1> QED BY <1>1, <1>2, <1>3, <1>4 DEF TypesInv

LEMMA CachesStep == CachesInv /\ [Next]_vars => CachesInv'
<1> SUFFICES ASSUME CachesInv, [Next]_vars PROVE CachesInv'
  OBVIOUS
<1>1. CASE \E r \in Readers : GetStep(r)
  BY <1>1, GetStepKeepsCaches
<1>2. CASE FlightStep
  BY <1>2, FlightStepKeepsCaches
<1>3. CASE PostStep
  BY <1>3, PostStepKeepsCaches
<1>4. CASE Tick \/ UNCHANGED vars
  <2>1. UNCHANGED <<caches, flight, reading, writing, chainVars, historyVars>>
    BY <1>4 DEF Tick, vars
  <2>2. now' \in 0..MaxTime
    BY <1>4, BoundsAssumption DEF Tick, vars, CachesInv, TypesInv, ChainInv
  <2>3. WriteInv' /\ ChainInv'
    BY <2>1, <2>2, UnchangedKeepsTypes
       DEF CachesInv, TypesInv, ChainInv, chainVars, historyVars
  <2> QED BY <2>1, <2>3, UnchangedKeeps
          DEF caches, chainVars, historyVars, CachesInv, MapInv, TypesInv
<1>5. \/ \E r \in Readers : GetStep(r)
      \/ FlightStep \/ PostStep \/ Tick \/ UNCHANGED vars
  BY DEF Next, GetStep, FlightStep, PostStep
<1> QED BY <1>1, <1>2, <1>3, <1>4, <1>5

\* The caches are Maps within their maximum, whoever awaits an account awaits a
\* flight, and what an unexcused document is made of is as recent as the wallet's
\* newest acknowledgement, in every reachable state.
THEOREM CachesInvariance == Spec => []CachesInv
<1>1. Init => CachesInv
  BY CachesBegin
<1>2. CachesInv /\ [Next]_vars => CachesInv'
  BY CachesStep
<1> QED BY <1>1, <1>2, PTL DEF Spec

\* Every variable has its type.
THEOREM CachesTyped == Spec => []TypeOK
<1>1. CachesInv => TypeOK
  <2> SUFFICES ASSUME CachesInv PROVE TypeOK
    OBVIOUS
  <2>1. /\ cache \in Seq(Documents(Keys))
        /\ delegations \in Seq(Documents(Wallets))
        /\ accounts \in Seq(Accounts)
    BY DEF CachesInv, MapInv, CacheInv, ListsInv, AccountsInv, IsCache
  <2>2. recency \in Seq(Keys)
    BY <2>1, KeysOfIs, DocumentsHaveKeys DEF CachesInv, MapInv, CacheInv
  <2>3. flight \in [Wallets -> {NoFlight} \union Flights]
    BY DEF CachesInv, TypesInv, FlightInv, Fetchable
  <2>4. \A w \in Wallets : Flies(w, "answered") => flight[w].v # NoVersion
    <3> SUFFICES ASSUME NEW w \in Wallets, flight[w].stage = "answered"
                 PROVE  flight[w].v # NoVersion
      BY DEF Flies
    <3>1. flight[w] # NoFlight
      BY DEF NoFlight
    <3>2. flight[w].v \in Versions
      BY <3>1 DEF CachesInv, TypesInv, FlightInv, Fetchable
    <3> QED BY <3>2, VersionsAreNumbers
  <2>5. reading \in [Readers -> {NotReading} \union Readings]
    BY DEF CachesInv, TypesInv, ReadInv, Readable
  <2>6. \A p \in Writers : ~Writes(p, "idle") =>
          /\ writing[p].stage \in {"submitted", "confirmed"}
          /\ writing[p].touched \in Touches
          /\ writing[p].at \in [writing[p].touched -> Versions]
    BY PostIs DEF CachesInv, Writable
  <2> QED BY <2>1, <2>2, <2>3, <2>4, <2>5, <2>6 DEF TypeOK, CachesInv, TypesInv, ChainInv
<1> QED BY <1>1, CachesInvariance, PTL

\* No cache exceeds its maximum, none has two entries for a key, and the order in
\* which the response cache would evict is the order of last use.
THEOREM RecentlyUsedStay == Spec => []CacheKeepsTheRecent
<1>1. CachesInv => CacheKeepsTheRecent
  BY DEF CachesInv, MapInv, CacheInv, ListsInv, AccountsInv, IsCache, Distinct, KeysOf,
         CacheKeepsTheRecent
<1> QED BY <1>1, CachesInvariance, PTL

\* A cached document older than the newest confirmed POST about its wallet was being
\* made while that POST was answered, or was made of a cached account.
THEOREM OnlyRacesAreStale == Spec => []StaleOnlyFromARace
<1>1. CachesInv => StaleOnlyFromARace
  BY DEF CachesInv, FreshInv, Recent, StaleOnlyFromARace, ToSet
<1> QED BY <1>1, CachesInvariance, PTL

\* A score that awaits an account awaits a fetch under way, and no fetch is under
\* way for nobody.
THEOREM FlightsSettle == Spec => []JoinedFlightsSettle
<1>1. CachesInv => JoinedFlightsSettle
  BY StagesTell DEF CachesInv, SettleInv, Awaits, JoinedFlightsSettle
<1> QED BY <1>1, CachesInvariance, PTL
=============================================================================
