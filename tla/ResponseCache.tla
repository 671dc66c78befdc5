---------------------------- MODULE ResponseCache ----------------------------
(***************************************************************************)
(* The read caches and the writes that should invalidate them (src/app.ts, *)
(* src/delegation.ts, src/trust-score.ts).                                 *)
(*                                                                         *)
(*   cache        responseCache: GET /score, /passport and /verify keep    *)
(*                their documents in it, each under its own key;           *)
(*   delegations  delegationCache: the delegation lists of wallets, for    *)
(*                GET /delegation and for the walks of a passport;         *)
(*   accounts     accountInfoCache: what the node said of an account, for  *)
(*                GET /score, which joins a fetch that is under way.       *)
(*                                                                         *)
(* A GET misses, awaits the chain several times, and stores what it made   *)
(* of it.  A POST /delegate, /revoke or /reputation/record awaits its      *)
(* submission and the confirmation polls, and deletes the documents of the *)
(* wallets it touched from the response cache; nothing deletes their       *)
(* delegation lists or accounts.  What a wallet looks like on the chain    *)
(* (external) is a version that every accepted transaction about it        *)
(* increases, and a document is as old as the oldest of its reads.         *)
(***************************************************************************)
EXTENDS TTLCache

CONSTANTS
  Wallets,
  Endpoints,    \* of "score", "passport", "verify", "delegation"
  Readers,      \* GETs that may be in their handler at one time
  Writers,      \* POSTs that may be in their handler at one time
  Touches,      \* the sets of wallets that a POST is about
  MaxEntries,   \* maxEntries of every cache
  TTL,          \* ttlMs of every cache, in ticks
  MaxTime,      \* bound: the clock stops there
  MaxVersion    \* bound: transactions about one wallet

ASSUME TouchesAssumption == Touches \subseteq SUBSET Wallets
ASSUME BoundsAssumption ==
  MaxEntries \in Nat \ {0} /\ TTL \in Nat /\ MaxTime \in Nat /\ MaxVersion \in Nat

VARIABLES
  cache,        \* responseCache: [key, v, exp, excused], v the version it was made
                \* from, excused whether a POST was answered while it was made, or it
                \* was made from a cached account
  delegations,  \* delegationCache: [key, v, exp, excused]
  accounts,     \* accountInfoCache: [key, v, exp]
  flight,       \* inflightAccountInfo: flight[w] is the fetch for w under way
  now,          \* Date.now(), in ticks
  reading,      \* reading[r]: the GET in slot r
  writing,      \* writing[p]: the POST in slot p
  adrift,       \* transactions nobody waits for any more: sets of wallets
  version,      \* version[w]: what the chain says of w
  acked,        \* (history) acked[w]: the version of w that the newest POST answered
                \* as confirmed has brought about
  recency       \* (history) the keys of cache, least recently served or stored first

caches == <<cache, delegations, accounts>>
chainVars == <<adrift, version>>
historyVars == <<acked, recency>>
vars == <<caches, flight, now, reading, writing, chainVars, historyVars>>

Keys == Endpoints \X Wallets
Cached(key) == key[1] # "delegation"
NoVersion == MaxVersion + 1

NoFlight == [stage |-> "none"]
Flies(w, stage) == flight[w].stage = stage
NotReading == [stage |-> "idle"]
NotWriting == [stage |-> "idle"]
Reads(r, stage) == reading[r].stage = stage
Writes(p, stage) == writing[p].stage = stage
WalletOf(r) == reading[r].key[2]
IsPassport(r) == reading[r].key[1] = "passport"
IsScore(r) == reading[r].key[1] = "score"

Older(a, b) == IF a < b THEN a ELSE b

\* Recency, kept apart from the Map: the key used now goes to the end, and a key
\* that is no longer cached goes.
Used(key) == Append(Drop(recency, {key}), key)
StillCached(keys) == Drop(keys, {k \in ToSet(keys) : Keyed(cache', k) = {}})

(***************************************************************************)
(* A GET of a cached document.  A hit is answered at once; on a miss the   *)
(* reads begin, and each read's result is fixed at some moment before the  *)
(* handler goes on.                                                        *)
(***************************************************************************)
Begun(key, stage) == [stage |-> stage, key |-> key, v |-> NoVersion, excused |-> FALSE,
                      awaits |-> FALSE]

\* Mutant: a passport does not drop the wallet's delegation list first.
NothingDropped(key) == delegations

\* scoreDelegationFresh drops the wallet's own list; the other documents do not
\* come from delegation lists.
DelegationsDropped(key) ==
  IF key[1] = "passport" THEN Without(delegations, key[2]) ELSE delegations

Hit(key) ==
  /\ Found(cache, key, now) # {}
  /\ recency' = StillCached(Used(key))
  /\ UNCHANGED <<reading, delegations, accounts, flight>>

\* fetchAccountInfo, up to its first await: the fetch that is under way, the
\* cached account, or a fetch of its own.
JoinFlight(r, w) ==
  /\ ~Flies(w, "none")
  /\ reading' = [reading EXCEPT ![r] = [Begun(<<"score", w>>, "fetching") EXCEPT
                                         !.awaits = TRUE]]
  /\ UNCHANGED <<accounts, flight>>

BorrowAccount(r, w) ==
  /\ Flies(w, "none")
  /\ \E account \in Found(accounts, w, now) :
       reading' = [reading EXCEPT ![r] = [Begun(<<"score", w>>, "fetching") EXCEPT
                     !.v = account.v, !.excused = TRUE]]
  /\ accounts' = AfterGet(accounts, w, now)
  /\ UNCHANGED flight

StartFlight(r, w) ==
  /\ Flies(w, "none")
  /\ Found(accounts, w, now) = {}
  /\ reading' = [reading EXCEPT ![r] = [Begun(<<"score", w>>, "fetching") EXCEPT
                                         !.awaits = TRUE]]
  /\ accounts' = AfterGet(accounts, w, now)
  /\ flight' = [flight EXCEPT ![w] = [stage |-> "asking", v |-> NoVersion, excused |-> FALSE]]

fetchAccountInfo(r, w) == JoinFlight(r, w) \/ BorrowAccount(r, w) \/ StartFlight(r, w)

Miss(r, key) ==
  /\ Found(cache, key, now) = {}
  /\ recency' = StillCached(recency)
  /\ delegations' = DelegationsDropped(key)
  /\ IF key[1] = "score" THEN fetchAccountInfo(r, key[2])
     ELSE /\ reading' = [reading EXCEPT ![r] = Begun(key, "fetching")]
          /\ UNCHANGED <<accounts, flight>>

Get(r, key) ==
  /\ Reads(r, "idle")
  /\ Cached(key)
  /\ cache' = AfterGet(cache, key, now)
  /\ Hit(key) \/ Miss(r, key)
  /\ UNCHANGED <<now, writing, chainVars, acked>>

\* An upstream read: of the document itself (of a score, its history), or of the
\* delegation list.  One that fails and is made up for leaves its part out of the
\* document, which makes it no older than an answer does.
ChainAnswers(r) ==
  LET seen == version[WalletOf(r)]
  IN  /\ \/ /\ Reads(r, "fetching")
            /\ reading' = [reading EXCEPT ![r].stage = "fetched", ![r].v = Older(@, seen)]
         \/ /\ Reads(r, "listing")
            /\ reading' = [reading EXCEPT ![r].stage = "listed", ![r].v = Older(@, seen)]
      /\ UNCHANGED <<caches, flight, now, writing, chainVars, historyVars>>

(***************************************************************************)
(* fetchAccountInfoImpl: the account, then the status, then the cache.     *)
(* Its promise is forgotten as it settles.                                 *)
(***************************************************************************)
AccountAnswers(w) ==
  /\ Flies(w, "asking")
  /\ flight' = [flight EXCEPT ![w].stage = "answered", ![w].v = version[w]]
  /\ UNCHANGED <<caches, now, reading, writing, chainVars, historyVars>>

\* Every score that waits for the flight goes on with what it brought.
Delivered(w, v, excused) ==
  [r \in Readers |->
     IF ~Reads(r, "idle") /\ reading[r].key = <<"score", w>> /\ reading[r].awaits
     THEN [reading[r] EXCEPT !.awaits = FALSE, !.v = Older(@, v), !.excused = @ \/ excused]
     ELSE reading[r]]

\* Mutant: the settled fetch stays in the map, and the next score joins it.
ForgottenNever(w) == flight

Forgotten(w) == [flight EXCEPT ![w] = NoFlight]

AccountArrives(w) ==
  /\ Flies(w, "answered")
  /\ accounts' = AfterSet(accounts, [key |-> w, v |-> flight[w].v, exp |-> now + TTL],
                           MaxEntries)
  /\ reading' = Delivered(w, flight[w].v, flight[w].excused)
  /\ flight' = Forgotten(w)
  /\ UNCHANGED <<cache, delegations, now, writing, chainVars, historyVars>>

\* accountInformation or status failed or timed out: null, for all who wait.
AccountFails(w) ==
  /\ ~Flies(w, "none")
  /\ reading' = Delivered(w, NoVersion, FALSE)
  /\ flight' = Forgotten(w)
  /\ UNCHANGED <<caches, now, writing, chainVars, historyVars>>

(***************************************************************************)
(* fetchDelegationCached: the whole of GET /delegation as far as state is  *)
(* concerned, and a step of a passport's walk.                             *)
(***************************************************************************)
GetDelegation(r, w) ==
  /\ Reads(r, "idle")
  /\ "delegation" \in Endpoints
  /\ delegations' = AfterGet(delegations, w, now)
  /\ reading' = IF Found(delegations, w, now) # {} THEN reading
                ELSE [reading EXCEPT ![r] = Begun(<<"delegation", w>>, "listing")]
  /\ UNCHANGED <<cache, accounts, flight, now, writing, chainVars, historyVars>>

Walk(r) ==
  LET found == Found(delegations, WalletOf(r), now)
  IN  /\ Reads(r, "fetched")
      /\ IsPassport(r)
      /\ delegations' = AfterGet(delegations, WalletOf(r), now)
      /\ \/ /\ found = {}
            /\ reading' = [reading EXCEPT ![r].stage = "listing"]
         \/ \E entry \in found :
              reading' = [reading EXCEPT ![r].stage = "walked",
                                         ![r].v = Older(@, entry.v),
                                         ![r].excused = @ \/ entry.excused]
      /\ UNCHANGED <<cache, accounts, flight, now, writing, chainVars, historyVars>>

\* The list has arrived: it is cached, and a passport goes on with it.
List(r) ==
  LET entry == [key |-> WalletOf(r), v |-> reading[r].v, exp |-> now + TTL,
                excused |-> reading[r].excused]
  IN  /\ Reads(r, "listed")
      /\ delegations' = AfterSet(delegations, entry, MaxEntries)
      /\ reading' = IF IsPassport(r) THEN [reading EXCEPT ![r].stage = "walked"]
                    ELSE [reading EXCEPT ![r] = NotReading]
      /\ UNCHANGED <<cache, accounts, flight, now, writing, chainVars, historyVars>>

\* Mutant: the document is stored while its reads are under way (a missing await).
NotAwaited(r) == ~Reads(r, "idle")

\* Every upstream call of the document has returned.
FetchOver(r) ==
  /\ ~Reads(r, "idle")
  /\ Reads(r, IF IsPassport(r) THEN "walked" ELSE "fetched")
  /\ ~reading[r].awaits

Fill(r) ==
  /\ FetchOver(r)
  /\ cache' = AfterSet(cache, [key |-> reading[r].key, v |-> reading[r].v,
                               exp |-> now + TTL, excused |-> reading[r].excused], MaxEntries)
  /\ reading' = [reading EXCEPT ![r] = NotReading]
  /\ recency' = StillCached(Used(reading[r].key))
  /\ UNCHANGED <<delegations, accounts, flight, now, writing, chainVars, acked>>

\* The wallet is not found, or an await threw: 404, 500 or, for a verification, the
\* flag lookupFailed; nothing is stored.  A score's reads never throw.
GetFails(r) ==
  /\ ~Reads(r, "idle")
  /\ ~IsScore(r)
  /\ reading' = [reading EXCEPT ![r] = NotReading]
  /\ UNCHANGED <<caches, flight, now, writing, chainVars, historyVars>>

(***************************************************************************)
(* A POST.                                                                 *)
(***************************************************************************)
Room(touched) == \A w \in touched : version[w] < MaxVersion

\* Up to the submission.  (Bound: no more transactions on their way than versions.)
Submit(p, touched) ==
  /\ Writes(p, "idle")
  /\ Room(touched) /\ touched \notin adrift
  /\ writing' = [writing EXCEPT ![p] = [stage |-> "submitted", touched |-> touched,
                                        at |-> [w \in touched |-> 0]]]
  /\ UNCHANGED <<caches, flight, now, reading, chainVars, historyVars>>

Increased(touched) == [w \in Wallets |-> IF w \in touched THEN version[w] + 1 ELSE version[w]]

\* The transaction of a POST that is still waiting is in a block.
Confirmed(p) ==
  LET touched == writing[p].touched
  IN  /\ Writes(p, "submitted")
      /\ Room(touched)
      /\ version' = Increased(touched)
      /\ writing' = [writing EXCEPT ![p].stage = "confirmed",
                                    ![p].at = [w \in touched |-> version'[w]]]
      /\ UNCHANGED <<caches, flight, now, reading, adrift, historyVars>>

\* Every responseCache.delete of the three handlers.
Invalidated(touched) == Drop(cache, {entry \in ToSet(cache) : entry.key[2] \in touched})

\* The GETs and fetches about a touched wallet that are in flight now.
Overtaken(touched) ==
  /\ reading' = [r \in Readers |-> IF ~Reads(r, "idle") /\ reading[r].key[2] \in touched
                                   THEN [reading[r] EXCEPT !.excused = TRUE] ELSE reading[r]]
  /\ flight' = [w \in Wallets |-> IF ~Flies(w, "none") /\ w \in touched
                                  THEN [flight[w] EXCEPT !.excused = TRUE] ELSE flight[w]]

\* The answer, with status "confirmed".
Acknowledge(p) ==
  LET touched == writing[p].touched
  IN  /\ Writes(p, "confirmed")
      /\ cache' = Invalidated(touched)
      /\ recency' = StillCached(recency)
      /\ Overtaken(touched)
      /\ acked' = [w \in Wallets |->
                     IF w \in touched /\ writing[p].at[w] > acked[w]
                     THEN writing[p].at[w] ELSE acked[w]]
      /\ writing' = [writing EXCEPT ![p] = NotWriting]
      /\ UNCHANGED <<delegations, accounts, now, chainVars>>

\* The polls ran out: the answer has status "pending", and invalidates too.
AnswerPending(p) ==
  LET touched == writing[p].touched
  IN  /\ Writes(p, "submitted")
      /\ cache' = Invalidated(touched)
      /\ recency' = StillCached(recency)
      /\ Overtaken(touched)
      /\ adrift' = adrift \union {touched}
      /\ writing' = [writing EXCEPT ![p] = NotWriting]
      /\ UNCHANGED <<delegations, accounts, now, version, acked>>

\* A timeout gave up on a transaction that may still be accepted, or the node
\* refused it: 500 (or 400), and no key is deleted.
PostFails(p) ==
  /\ Writes(p, "submitted")
  /\ adrift' \in {adrift, adrift \union {writing[p].touched}}
  /\ writing' = [writing EXCEPT ![p] = NotWriting]
  /\ UNCHANGED <<caches, flight, now, reading, version, historyVars>>

\* A transaction that no handler waits for is in a block.
LandsLate(touched) ==
  /\ touched \in adrift
  /\ Room(touched)
  /\ version' = Increased(touched)
  /\ adrift' = adrift \ {touched}
  /\ UNCHANGED <<caches, flight, now, reading, writing, historyVars>>

Tick ==
  /\ now < MaxTime
  /\ now' = now + 1
  /\ UNCHANGED <<caches, flight, reading, writing, chainVars, historyVars>>

Init ==
  /\ cache = <<>>
  /\ delegations = <<>>
  /\ accounts = <<>>
  /\ flight = [w \in Wallets |-> NoFlight]
  /\ now = 0
  /\ reading = [r \in Readers |-> NotReading]
  /\ writing = [p \in Writers |-> NotWriting]
  /\ adrift = {}
  /\ version = [w \in Wallets |-> 0]
  /\ acked = [w \in Wallets |-> 0]
  /\ recency = <<>>

Next ==
  \/ \E r \in Readers, key \in Keys : Get(r, key)
  \/ \E r \in Readers, w \in Wallets : GetDelegation(r, w)
  \/ \E r \in Readers :
       ChainAnswers(r) \/ Walk(r) \/ List(r) \/ Fill(r) \/ GetFails(r)
  \/ \E w \in Wallets : AccountAnswers(w) \/ AccountArrives(w) \/ AccountFails(w)
  \/ \E p \in Writers, touched \in Touches : Submit(p, touched)
  \/ \E p \in Writers : Confirmed(p) \/ Acknowledge(p) \/ AnswerPending(p) \/ PostFails(p)
  \/ \E touched \in adrift : LandsLate(touched)
  \/ Tick

Spec == Init /\ [][Next]_vars

(***************************************************************************)
(* Properties.                                                             *)
(***************************************************************************)
Versions == 0..MaxVersion
Seen == Versions \union {NoVersion}
Accounts == [key : Wallets, v : Versions, exp : Nat]
Documents(keys) == [key : keys, v : Versions, exp : Nat, excused : BOOLEAN]
Readings == [stage : {"fetching", "fetched", "listing", "listed", "walked"}, key : Keys,
             v : Seen, excused : BOOLEAN, awaits : BOOLEAN]
Flights == [stage : {"asking", "answered"}, v : Seen, excused : BOOLEAN]

\* Every variable has its type.
TypeOK ==
  /\ cache \in Seq(Documents(Keys))
  /\ delegations \in Seq(Documents(Wallets))
  /\ accounts \in Seq(Accounts)
  /\ flight \in [Wallets -> {NoFlight} \union Flights]
  /\ \A w \in Wallets : Flies(w, "answered") => flight[w].v # NoVersion
  /\ now \in 0..MaxTime
  /\ reading \in [Readers -> {NotReading} \union Readings]
  /\ \A p \in Writers : ~Writes(p, "idle") =>
       /\ writing[p].stage \in {"submitted", "confirmed"}
       /\ writing[p].touched \in Touches
       /\ writing[p].at \in [writing[p].touched -> Versions]
  /\ adrift \subseteq Touches
  /\ version \in [Wallets -> Versions]
  /\ acked \in [Wallets -> Versions]
  /\ recency \in Seq(Keys)

\* No cache ever exceeds its maximum or has two entries for a key; and the Map's
\* insertion order, from whose front evictions are taken, is the order of last
\* use, whatever hits, refills, expiries and invalidations came before.
CacheKeepsTheRecent ==
  /\ \A c \in {cache, delegations, accounts} :
       /\ Len(c) <= MaxEntries
       /\ \A i, j \in DOMAIN c : c[i].key = c[j].key => i = j
  /\ [i \in DOMAIN cache |-> cache[i].key] = recency

\* A cached document that predates a POST answered as confirmed has a part that
\* was being fetched while that POST was answered, or was made from an account
\* cached before it.  A document begun after the answer is newer, even though
\* the delegation lists outlive the answer.
StaleOnlyFromARace ==
  \A i \in DOMAIN cache :
    ~cache[i].excused => cache[i].v >= acked[cache[i].key[2]]

\* Whoever waits for an account waits for a fetch that is under way, and a fetch is
\* under way for somebody: joining one leaves no score waiting for ever on a fetch
\* that has settled, and a settled one is not joined.
JoinedFlightsSettle ==
  \A w \in Wallets :
    (\E r \in Readers : ~Reads(r, "idle") /\ WalletOf(r) = w /\ reading[r].awaits)
      <=> ~Flies(w, "none")

\* "Caching: 60 s in responseCache. Invalidated on /delegate, /revoke,
\* /reputation/record for the affected wallet" (docs/api.md:95): no document that
\* would be served predates what a POST about it was answered as having confirmed.
FreshAfterAcknowledge ==
  \A i \in DOMAIN cache :
    cache[i].exp > now => cache[i].v >= acked[cache[i].key[2]]

\* "Call after new delegations are recorded" (src/delegation.ts:251, of
\* clearDelegationCache): once a delegation or revocation has been answered as
\* confirmed, no list from before it would be served, but for a fetch that raced it.
DelegationsClearedAfterRecording ==
  \A i \in DOMAIN delegations :
    delegations[i].exp > now /\ ~delegations[i].excused
      => delegations[i].v >= acked[delegations[i].key]
=============================================================================
