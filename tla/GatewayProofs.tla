---------------------------- MODULE GatewayProofs ----------------------------
(***************************************************************************)
(* Proofs about the way in, for every set of calls, every assignment of    *)
(* maxima, every window, every number of retries and of restarts: the rate *)
(* limit across restarts, the bound on payments, whose answers a call can  *)
(* get, and the refusal of POSTs without a key.                            *)
(***************************************************************************)
EXTENDS Gateway, CollectionProofs

-----------------------------------------------------------------------------
(* Arithmetic of the counter *)

LEMMA MultipleHasNoRemainder ==
  ASSUME NEW n \in Nat \ {0}, NEW q \in Int
  PROVE  (n * q) % n = 0
  BY Z3

LEMMA NextProduct ==
  ASSUME NEW n \in Int, NEW q \in Int
  PROVE  n * q + n = n * (q + 1) /\ n * q + 0 = n * q /\ n * q \in Int
  OBVIOUS

LEMMA DropZero ==
  ASSUME NEW x \in Int, NEW r, r = 0, NEW a, a = x + r
  PROVE  a = x
  OBVIOUS

\* The next multiple of n after a multiple of n is n further.
LEMMA NextMultiple ==
  ASSUME NEW n \in Nat \ {0}, NEW a \in Nat, a % n = 0
  PROVE  (a + n) % n = 0
<1> DEFINE r == a % n
           q == a \div n
<1>1. a = n * q + r /\ r \in 0 .. (n - 1) /\ q \in Int
  OBVIOUS
<1>2. r = 0
  OBVIOUS
<1> HIDE DEF q, r
<1>3. a = n * q
  BY <1>1, <1>2, NextProduct, DropZero
<1>4. a + n = n * (q + 1)
  BY <1>1, <1>3, NextProduct
<1>5. (n * (q + 1)) % n = 0
  BY <1>1, MultipleHasNoRemainder
<1> QED BY <1>4, <1>5

\* What is saved at every multiple of n was saved less than n ago.
LEMMA SavedRecently ==
  ASSUME NEW n \in Nat \ {0}, NEW a \in Nat, NEW k \in Nat,
         a % n = 0, k < a + n, (k + 1) % n # 0
  PROVE  k + 1 < a + n
<1>1. k + 1 # a + n
  BY NextMultiple
<1> QED BY <1>1

LEMMA OneMoreRestart ==
  ASSUME NEW k \in Nat, NEW n \in Nat \ {0}
  PROVE  /\ k * (n - 1) \in Nat
         /\ (k + 1) * (n - 1) = k * (n - 1) + (n - 1)
<1>1. n - 1 \in Nat
  OBVIOUS
<1>2. \A m \in Nat : k * m \in Nat /\ (k + 1) * m = k * m + m
  OBVIOUS
<1> QED BY <1>1, <1>2

-----------------------------------------------------------------------------
(***************************************************************************)
(* Calls.  A replayed answer can be anything the store holds, so a status  *)
(* has no type of its own: some set has it.                                *)
(***************************************************************************)
Phases == {"new", "ready", "waiting", "paying", "over"}
Sessions(S) ==
  [phase : Phases, intent : Intents, attempt : 0 .. Retries, begun : 0 .. MaxTime,
   signed : 0 .. MaxTime, sent : Nat, proof : BOOLEAN, payments : Nat, status : S]

CallsTyped == \E S : call \in [Calls -> Sessions(S)]

\* What a call may have sent and paid by now: `mid` is 1 once the request of the
\* present attempt, or the paid one that replaces it, is on its way.
Frugal(q) ==
  LET mid  == IF q.phase \in {"new", "ready"} THEN 0 ELSE 1
      paid == IF q.proof THEN 1 ELSE 0
  IN  /\ q.phase = "paying" => ~q.proof
      /\ q.intent.sdk = "ts" =>
           /\ q.sent <= 2 * q.attempt + paid + mid
           /\ q.payments <= q.attempt + paid
      /\ q.intent.sdk # "ts" =>
           /\ q.sent <= (IF q.proof THEN Retries + 1 ELSE 0) + q.attempt + mid
           /\ q.payments <= paid

\* Only what has a price is paid for, and nothing is answered before the end.
Orderly(q) ==
  /\ q.phase = "paying" \/ q.proof => q.intent.path \in Priced
  /\ q.phase # "over" => q.status = "none"

\* The numbers of a session: the same spent with the same proof.
Spent(q, k) ==
  /\ q.intent = k.intent /\ q.attempt = k.attempt /\ q.sent = k.sent
  /\ q.proof = k.proof /\ q.payments = k.payments

\* What an answer or an error makes of a session, its numbers apart.
Outcome(q, k, status) ==
  /\ q.intent = k.intent /\ q.sent = k.sent
  /\ q.phase \in {"ready", "paying", "over"}
  /\ q.status = IF q.phase = "over" THEN status ELSE k.status
  /\ q.phase = "over" => q.signed = k.signed
  /\ q.phase = "paying" => status = "402"
  /\ q.proof => k.proof

LEMMA EndIsFrugal ==
  ASSUME NEW S, NEW T, NEW k \in Sessions(S), NEW q \in Sessions(T),
         Spent(q, k), q.phase = "over"
  PROVE  /\ Frugal(k) => Frugal(q)
         /\ Frugal(k) /\ k.phase = "ready" => Frugal([q EXCEPT !.sent = @ + 1])
<1> DEFINE r == [q EXCEPT !.sent = @ + 1]
<1>1. /\ r.phase = "over" /\ r.sent = k.sent + 1 /\ r.intent = k.intent
      /\ r.attempt = k.attempt /\ r.proof = k.proof /\ r.payments = k.payments
  BY DEF Sessions, Spent
<1> HIDE DEF r
<1>2. /\ k.attempt \in Nat /\ k.sent \in Nat /\ k.payments \in Nat /\ k.proof \in BOOLEAN
      /\ Retries \in Nat
  BY BoundsAssumption DEF Sessions
<1>3. Frugal(k) => Frugal(q)
  BY <1>2 DEF Frugal, Spent
<1>4. Frugal(k) /\ k.phase = "ready" => Frugal(r)
  BY <1>1, <1>2 DEF Frugal
<1> QED BY <1>3, <1>4 DEF r

LEMMA NextAttemptIsFrugal ==
  ASSUME NEW S, NEW T, NEW k \in Sessions(S), NEW q \in Sessions(T),
         k.phase # "over", k.attempt # Retries,
         q.phase = "ready", q.intent = k.intent, q.attempt = k.attempt + 1,
         q.sent = k.sent, q.payments = k.payments,
         q.proof = (k.proof /\ ~(k.intent.sdk = "ts"))
  PROVE  /\ Frugal(k) => Frugal(q)
         /\ Frugal(k) /\ k.phase = "ready" => Frugal([q EXCEPT !.sent = @ + 1])
<1> DEFINE r == [q EXCEPT !.sent = @ + 1]
<1>1. /\ r.phase = "ready" /\ r.sent = k.sent + 1 /\ r.intent = k.intent
      /\ r.attempt = k.attempt + 1 /\ r.proof = q.proof /\ r.payments = k.payments
  BY DEF Sessions
<1> HIDE DEF r
<1>2. /\ k.attempt \in Nat /\ k.sent \in Nat /\ k.payments \in Nat /\ k.proof \in BOOLEAN
      /\ Retries \in Nat
  BY BoundsAssumption DEF Sessions
<1>3. Frugal(k) => Frugal(q)
  BY <1>2 DEF Frugal
<1>4. Frugal(k) /\ k.phase = "ready" => Frugal(r)
  BY <1>1, <1>2 DEF Frugal
<1> QED BY <1>3, <1>4 DEF r

LEMMA PayingIsFrugal ==
  ASSUME NEW S, NEW T, NEW k \in Sessions(S), NEW q \in Sessions(T),
         Spent(q, k), q.phase = "paying", ~k.proof
  PROVE  /\ Frugal(k) /\ k.phase = "waiting" => Frugal(q)
         /\ Frugal(k) /\ k.phase = "ready" => Frugal([q EXCEPT !.sent = @ + 1])
<1> DEFINE r == [q EXCEPT !.sent = @ + 1]
<1>1. /\ r.phase = "paying" /\ r.sent = k.sent + 1 /\ r.intent = k.intent
      /\ r.attempt = k.attempt /\ r.proof = k.proof /\ r.payments = k.payments
  BY DEF Sessions, Spent
<1> HIDE DEF r
<1>2. /\ k.attempt \in Nat /\ k.sent \in Nat /\ k.payments \in Nat /\ k.proof \in BOOLEAN
      /\ Retries \in Nat
  BY BoundsAssumption DEF Sessions
<1>3. Frugal(k) /\ k.phase = "waiting" => Frugal(q)
  BY <1>2 DEF Frugal, Spent
<1>4. Frugal(k) /\ k.phase = "ready" => Frugal(r)
  BY <1>1, <1>2 DEF Frugal
<1> QED BY <1>3, <1>4 DEF r

LEMMA AgainMoves ==
  ASSUME NEW S, NEW c \in Calls, NEW status, call \in [Calls -> Sessions(S)],
         call[c].phase # "over"
  PROVE  \E q \in Sessions(S \union {status}) :
           /\ Again(c, status) = [call EXCEPT ![c] = q]
           /\ Outcome(q, call[c], status)
           /\ Frugal(call[c]) => Frugal(q)
           /\ Frugal(call[c]) /\ call[c].phase = "ready" => Frugal([q EXCEPT !.sent = @ + 1])
<1> DEFINE k == call[c]
           again == [k EXCEPT !.phase = "ready", !.attempt = @ + 1, !.proof = @ /\ ~IsTs(c),
                              !.signed = k.begun]
           over == [k EXCEPT !.phase = "over", !.status = status]
<1>1. k \in Sessions(S)
  OBVIOUS
<1>2. CASE k.attempt = Retries
  <2>1. Again(c, status) = [call EXCEPT ![c] = over]
    BY <1>2 DEF Again, Ended
  <2>2. over \in Sessions(S \union {status})
    BY <1>1 DEF Sessions, Phases
  <2>3. /\ over.phase = "over" /\ over.status = status /\ over.signed = k.signed
        /\ over.intent = k.intent /\ over.attempt = k.attempt /\ over.sent = k.sent
        /\ over.proof = k.proof /\ over.payments = k.payments
    BY <1>1 DEF Sessions
  <2> HIDE DEF over
  <2>4. /\ Frugal(k) => Frugal(over)
        /\ Frugal(k) /\ k.phase = "ready" => Frugal([over EXCEPT !.sent = @ + 1])
    <3> HIDE DEF k
    <3>1. Spent(over, k)
      BY <2>3 DEF Spent
    <3> QED BY <1>1, <2>2, <2>3, <3>1, EndIsFrugal
  <2>5. Outcome(over, k, status)
    BY <2>3 DEF Outcome
  <2> QED BY <2>1, <2>2, <2>4, <2>5
<1>3. CASE k.attempt # Retries
  <2>1. Again(c, status) = [call EXCEPT ![c] = again]
    BY <1>3 DEF Again
  <2>2. k.attempt + 1 \in 0 .. Retries
    BY <1>1, <1>3, BoundsAssumption DEF Sessions
  <2>3. (k.proof /\ ~IsTs(c)) \in BOOLEAN
    BY <1>1 DEF Sessions
  <2>4. again \in Sessions(S \union {status})
    <3>1. k.begun \in 0 .. MaxTime
      BY <1>1 DEF Sessions
    <3> QED BY <1>1, <2>2, <2>3, <3>1 DEF Sessions, Phases
  <2>5. /\ again.phase = "ready" /\ again.attempt = k.attempt + 1
        /\ again.proof = (k.proof /\ ~IsTs(c))
    BY <1>1 DEF Sessions
  <2>6. /\ again.status = k.status /\ again.intent = k.intent
        /\ again.sent = k.sent /\ again.payments = k.payments
    BY <1>1 DEF Sessions
  <2>7. IsTs(c) <=> k.intent.sdk = "ts"
    BY DEF IsTs
  <2> HIDE DEF again
  <2>8. /\ Frugal(k) => Frugal(again)
        /\ Frugal(k) /\ k.phase = "ready" => Frugal([again EXCEPT !.sent = @ + 1])
    <3> HIDE DEF k
    <3>1. k.phase # "over"
      BY DEF k
    <3> QED BY <1>1, <1>3, <2>4, <2>5, <2>6, <2>7, <3>1, NextAttemptIsFrugal
  <2>9. Outcome(again, k, status)
    BY <2>5, <2>6 DEF Outcome
  <2> QED BY <2>1, <2>4, <2>8, <2>9
<1> QED BY <1>2, <1>3

LEMMA ReceivedMoves ==
  ASSUME NEW S, NEW c \in Calls, NEW status, call \in [Calls -> Sessions(S)],
         call[c].phase \in {"ready", "waiting"}
  PROVE  \E q \in Sessions(S \union {status}) :
           /\ Received(c, status) = [call EXCEPT ![c] = q]
           /\ Outcome(q, call[c], status)
           /\ Frugal(call[c]) /\ call[c].phase = "waiting" => Frugal(q)
           /\ Frugal(call[c]) /\ call[c].phase = "ready" => Frugal([q EXCEPT !.sent = @ + 1])
<1> DEFINE k == call[c]
           paying == [k EXCEPT !.phase = "paying"]
           over == [k EXCEPT !.phase = "over", !.status = status]
<1>1. k \in Sessions(S) /\ k.phase \in {"ready", "waiting"}
  OBVIOUS
<1>2. CASE status = "402" /\ MayPay(c)
  <2>1. Received(c, status) = [call EXCEPT ![c] = paying]
    BY <1>2 DEF Received
  <2>2. paying \in Sessions(S \union {status})
    BY <1>1 DEF Sessions, Phases
  <2>3. paying.phase = "paying" /\ paying.status = k.status /\ Spent(paying, k)
    BY <1>1 DEF Sessions, Spent
  <2>4. ~k.proof
    BY <1>2 DEF MayPay
  <2> HIDE DEF paying
  <2>5. /\ Frugal(k) /\ k.phase = "waiting" => Frugal(paying)
        /\ Frugal(k) /\ k.phase = "ready" => Frugal([paying EXCEPT !.sent = @ + 1])
    <3> HIDE DEF k
    <3> QED BY <1>1, <2>2, <2>3, <2>4, PayingIsFrugal
  <2>6. Outcome(paying, k, status)
    BY <1>2, <2>3 DEF Outcome, Spent
  <2> QED BY <2>1, <2>2, <2>5, <2>6
<1>3. CASE ~(status = "402" /\ MayPay(c)) /\ status \in Retryable
  <2>1. Received(c, status) = Again(c, status)
    BY <1>3 DEF Received
  <2>2. k.phase # "over"
    BY <1>1
  <2> QED BY <2>1, <2>2, AgainMoves
<1>4. CASE ~(status = "402" /\ MayPay(c)) /\ status \notin Retryable
  <2>1. Received(c, status) = [call EXCEPT ![c] = over]
    BY <1>4 DEF Received, Ended
  <2>2. over \in Sessions(S \union {status})
    BY <1>1 DEF Sessions, Phases
  <2>3. over.phase = "over" /\ over.status = status /\ over.signed = k.signed /\ Spent(over, k)
    BY <1>1 DEF Sessions, Spent
  <2> HIDE DEF over
  <2>4. /\ Frugal(k) => Frugal(over)
        /\ Frugal(k) /\ k.phase = "ready" => Frugal([over EXCEPT !.sent = @ + 1])
    <3> HIDE DEF k
    <3> QED BY <1>1, <2>2, <2>3, EndIsFrugal
  <2>5. Outcome(over, k, status)
    BY <2>3 DEF Outcome, Spent
  <2> QED BY <2>1, <2>2, <2>4, <2>5
<1> QED BY <1>2, <1>3, <1>4

-----------------------------------------------------------------------------
(***************************************************************************)
(* The invariant of the calls, the requests and the store.  A POST without *)
(* a key has no success of its own to receive, because no handler ever     *)
(* runs for it; what the store holds was answered to a signed call, whose  *)
(* intent no step changes.  Whether a request's signature is over the body *)
(* the service has depends on the call alone; whether it is late depends   *)
(* on the clock, and once it is late it stays so.                          *)
(***************************************************************************)
Bodies == {intent.body : intent \in Intents}
Requests == [call : Calls, n : Nat, body : Bodies \union {NoBody}, signed : 0..MaxTime,
             stage : {"verifying", "handling"}]
Records == [key : {intent.key : intent \in Intents} \ {NoKey},
            body : Bodies, answer : Posts, expiresAt : 0..(MaxTime + TTL)]

\* A request of d can be signed over the body the service has.
Admits(d) == Path(d) \in Signed => ~PaidUnparsed(d) /\ ~SignedOtherwise(d)

\* The body a request of c has once it is behind x402.
Given(c) == IF PaidUnparsed(c) THEN NoBody ELSE Body(c)

\* A signature made then can be refused now.
Excused(c, signed) == PaidUnparsed(c) \/ SignedOtherwise(c) \/ now - signed > SkewMs

\* Some call asked for it, and was let in.
Genuine(rec) ==
  \E d \in Calls : /\ Key(d) = rec.key /\ Body(d) = rec.body
                   /\ Path(d) = rec.answer /\ Admits(d)

StoreInv ==
  /\ now \in 0..MaxTime
  /\ store \in Seq(Records)
  /\ Distinct(store)
  /\ \A rec \in ToSet(store) : Genuine(rec)

\* c may be served by what d was answered; d's record is a conflict for c.
Serves(d, c) == d = c \/ (Key(c) # NoKey /\ Key(d) = Key(c) /\ Body(d) = Body(c))
Conflicts(d, c) ==
  d # c /\ Key(c) # NoKey /\ Key(d) = Key(c) /\ (Body(d) # Body(c) \/ PaidUnparsed(c))

ServedFrom(c, status) == \E d \in Calls : Serves(d, c) /\ Admits(d) /\ Path(d) = status
InConflict(c) == \E d \in Calls : Conflicts(d, c)

\* What a call may be answered, the time of its signature apart.
Fits(c, status) ==
  /\ status \in Statuses \union {"none"}
  /\ status \in DOMAIN MaxOf => ~InsistsOnKey(c) /\ ServedFrom(c, status)
  /\ status = "402" => Path(c) \in Priced
  /\ status = "409" => InConflict(c)

Sound(r) == r \in Requests /\ r.body = Given(r.call)

Admitted(r) ==
  /\ Sound(r)
  /\ r.stage = "verifying" => Path(r.call) \in Priced
  /\ r.stage = "handling" => ~InsistsOnKey(r.call) /\ Admits(r.call)

\* A request that is still waited for has the call's present signature.
Current(r) ==
  /\ r.n <= call[r.call].sent
  /\ Is(r.call, "waiting") /\ call[r.call].sent = r.n => r.signed = call[r.call].signed

SessionInv ==
  /\ CallsTyped
  /\ \A c \in Calls :
       /\ Frugal(call[c]) /\ Orderly(call[c])
       /\ Fits(c, call[c].status)
       /\ call[c].status = "401" => Excused(c, call[c].signed)
  /\ \A r \in serving : Admitted(r) /\ Current(r)
  /\ StoreInv

\* What every request that is sent, answered or given up does to its call.
Moves(c) ==
  \E S : \E q \in Sessions(S) :
    /\ call' = [call EXCEPT ![c] = q]
    /\ q.intent = call[c].intent
    /\ Frugal(q) /\ Orderly(q)
    /\ Fits(c, q.status)
    /\ q.status = "401" => Excused(c, q.signed)
    /\ q.sent >= call[c].sent
    /\ q.phase = "waiting" => q.sent > call[c].sent

\* What a step leaves in the store and in the service: requests that were there, and
\* new ones of calls that wait for them.
StoreKept ==
  /\ now' \in now..MaxTime
  /\ store' \in Seq(Records)
  /\ Distinct(store')
  /\ \A rec \in ToSet(store') : Genuine(rec)

ServiceKept ==
  /\ StoreKept
  /\ \A r \in serving' : Admitted(r) /\ (Current(r) \/ Current(r)')

LEMMA LaterStill ==
  ASSUME NEW a \in Int, NEW b \in Int, a <= b, NEW then \in Int, NEW skew \in Int,
         a - then > skew
  PROVE  b - then > skew
  OBVIOUS

LEMMA SameIntents ==
  ASSUME \A d \in Calls : call'[d].intent = call[d].intent
  PROVE  /\ \A c \in Calls : \A status : Fits(c, status)' <=> Fits(c, status)
         /\ \A c \in Calls : \A signed \in 0..MaxTime :
              now \in 0..MaxTime /\ now' \in now..MaxTime /\ Excused(c, signed) => Excused(c, signed)'
         /\ \A rec : Genuine(rec)' <=> Genuine(rec)
         /\ \A r : Admitted(r)' <=> Admitted(r)
<1>1. \A d \in Calls : /\ Path(d)' = Path(d) /\ Key(d)' = Key(d) /\ Body(d)' = Body(d)
                       /\ IsTs(d)' <=> IsTs(d)
  BY DEF Path, Key, Body, IsTs
<1>2. \A d \in Calls : /\ InsistsOnKey(d)' <=> InsistsOnKey(d)
                       /\ PaidUnparsed(d)' <=> PaidUnparsed(d)
                       /\ SignedOtherwise(d)' <=> SignedOtherwise(d)
  BY <1>1 DEF InsistsOnKey, PaidUnparsed, SignedOtherwise
<1>3. \A d \in Calls : (Admits(d)' <=> Admits(d)) /\ Given(d)' = Given(d)
  BY <1>1, <1>2 DEF Admits, Given
<1>4. \A c \in Calls : \A status : ServedFrom(c, status)' <=> ServedFrom(c, status)
  BY <1>1, <1>3 DEF ServedFrom, Serves
<1>5. \A c \in Calls : InConflict(c)' <=> InConflict(c)
  BY <1>1, <1>2 DEF InConflict, Conflicts
<1>6. \A c \in Calls : \A status : Fits(c, status)' <=> Fits(c, status)
  BY <1>1, <1>2, <1>4, <1>5 DEF Fits
<1>7. \A rec : Genuine(rec)' <=> Genuine(rec)
  BY <1>1, <1>3 DEF Genuine
<1>8. \A r : Admitted(r)' <=> Admitted(r)
  BY <1>1, <1>2, <1>3 DEF Admitted, Sound, Requests
<1>9. ASSUME NEW c \in Calls, NEW signed \in 0..MaxTime, now \in 0..MaxTime, now' \in now..MaxTime,
             Excused(c, signed)
      PROVE  Excused(c, signed)'
  <2>1. now - signed > SkewMs => now' - signed > SkewMs
    <3>1. now \in Int /\ now' \in Int /\ now <= now' /\ signed \in Int /\ SkewMs \in Int
      BY <1>9, BoundsAssumption
    <3> QED BY <3>1, LaterStill
  <2> QED BY <1>2, <1>9, <2>1 DEF Excused
<1> QED BY <1>6, <1>7, <1>8, <1>9

LEMMA StaysKeepSessionInv ==
  ASSUME SessionInv, UNCHANGED call, ServiceKept
  PROVE  SessionInv'
<1>1. /\ \A c \in Calls : \A status : Fits(c, status)' <=> Fits(c, status)
      /\ \A c \in Calls : \A signed \in 0..MaxTime :
           now \in 0..MaxTime /\ now' \in now..MaxTime /\ Excused(c, signed) => Excused(c, signed)'
      /\ \A rec : Genuine(rec)' <=> Genuine(rec)
      /\ \A r : Admitted(r)' <=> Admitted(r)
  BY SameIntents
<1>2. now \in 0..MaxTime /\ now' \in now..MaxTime
  BY DEF SessionInv, StoreInv, ServiceKept, StoreKept
<1>3. \A c \in Calls : call[c].signed \in 0..MaxTime
  BY DEF SessionInv, CallsTyped, Sessions
<1>4. \A c \in Calls : call[c].status = "401" => Excused(c, call[c].signed)'
  BY <1>1, <1>2, <1>3 DEF SessionInv
<1>5. CallsTyped' /\ \A c \in Calls : /\ Frugal(call[c])' /\ Orderly(call[c])'
                                      /\ Fits(c, call[c].status)'
                                      /\ (call[c].status = "401" => Excused(c, call[c].signed))'
  BY <1>1, <1>4 DEF SessionInv, CallsTyped, Frugal, Orderly
<1>6. \A r \in serving' : Admitted(r)' /\ Current(r)'
  BY <1>1 DEF ServiceKept, Current, Is
<1>7. StoreInv'
  BY <1>1, <1>2, BoundsAssumption DEF ServiceKept, StoreKept, StoreInv
<1> QED BY <1>5, <1>6, <1>7 DEF SessionInv

LEMMA MovesKeepSessionInv ==
  ASSUME SessionInv, NEW c \in Calls, Moves(c), ServiceKept
  PROVE  SessionInv'
<1>1. PICK S : call \in [Calls -> Sessions(S)]
  BY DEF SessionInv, CallsTyped
<1> DEFINE Good(q) == /\ call' = [call EXCEPT ![c] = q]
                      /\ q.intent = call[c].intent
                      /\ Frugal(q) /\ Orderly(q)
                      /\ Fits(c, q.status)
                      /\ q.status = "401" => Excused(c, q.signed)
                      /\ q.sent >= call[c].sent
                      /\ q.phase = "waiting" => q.sent > call[c].sent
<1>2. PICK T : \E q \in Sessions(T) : Good(q)
  BY DEF Moves
<1>3. PICK q \in Sessions(T) : Good(q)
  BY <1>2
<1>4. \A d \in Calls : call[d] \in Sessions(S \union T) /\ q \in Sessions(S \union T)
  <2>1. \A d \in Calls : call[d] \in Sessions(S)
    BY <1>1
  <2> QED BY <2>1 DEF Sessions
<1>5. CallsTyped'
  <2>1. call' \in [Calls -> Sessions(S \union T)]
    <3> DEFINE R == Sessions(S \union T)
    <3>1. call = [d \in Calls |-> call[d]]
      BY <1>1
    <3>2. \A d \in Calls : call[d] \in R /\ q \in R
      BY <1>4
    <3> HIDE DEF R
    <3>3. call \in [Calls -> R]
      BY <3>1, <3>2
    <3>4. q \in R
      BY <3>2
    <3>5. call' = [call EXCEPT ![c] = q]
      BY <1>3
    <3>6. call' \in [Calls -> R]
      BY <3>3, <3>4, <3>5
    <3> QED BY <3>6 DEF R
  <2> QED BY <2>1 DEF CallsTyped
<1>6. call'[c] = q /\ \A d \in Calls \ {c} : call'[d] = call[d]
  BY <1>1, <1>3
<1>7. \A d \in Calls : call'[d].intent = call[d].intent
  BY <1>3, <1>6
<1>8. /\ \A d \in Calls : \A status : Fits(d, status)' <=> Fits(d, status)
      /\ \A d \in Calls : \A signed \in 0..MaxTime :
           now \in 0..MaxTime /\ now' \in now..MaxTime /\ Excused(d, signed) => Excused(d, signed)'
      /\ \A rec : Genuine(rec)' <=> Genuine(rec)
      /\ \A r : Admitted(r)' <=> Admitted(r)
  BY <1>7, SameIntents
<1>9. now \in 0..MaxTime /\ now' \in now..MaxTime
  BY DEF SessionInv, StoreInv, ServiceKept, StoreKept
<1>10. ASSUME NEW d \in Calls
       PROVE  /\ Frugal(call[d])' /\ Orderly(call[d])' /\ Fits(d, call[d].status)'
              /\ (call[d].status = "401" => Excused(d, call[d].signed))'
  <2>1. CASE d = c
    <3>1. q.signed \in 0..MaxTime
      BY DEF Sessions
    <3>2. q.status = "401" => Excused(c, q.signed)'
      BY <1>3, <1>8, <1>9, <3>1
    <3> QED BY <1>3, <1>6, <1>8, <2>1, <3>2 DEF Frugal, Orderly
  <2>2. CASE d # c
    <3>1. call'[d] = call[d] /\ call[d].signed \in 0..MaxTime
      BY <1>1, <1>6, <2>2 DEF Sessions
    <3>2. call[d].status = "401" => Excused(d, call[d].signed)'
      BY <1>8, <1>9, <3>1 DEF SessionInv
    <3>3. /\ Frugal(call[d]) /\ Orderly(call[d]) /\ Fits(d, call[d].status)
      BY DEF SessionInv
    <3> QED BY <1>8, <3>1, <3>2, <3>3 DEF Frugal, Orderly
  <2> QED BY <2>1, <2>2
<1>11. ASSUME NEW r \in serving' PROVE Admitted(r)' /\ Current(r)'
  <2>1. Admitted(r) /\ (Current(r) \/ Current(r)')
    BY DEF ServiceKept
  <2>2. r.call \in Calls /\ r.n \in Nat
    BY <2>1 DEF Admitted, Sound, Requests
  <2>3. ASSUME Current(r), r.call = c PROVE Current(r)'
    <3>1. q.sent \in Nat /\ call[c].sent \in Nat
      BY <1>1 DEF Sessions
    <3>2. r.n <= q.sent /\ ~(q.phase = "waiting" /\ q.sent = r.n)
      BY <1>3, <2>2, <2>3, <3>1 DEF Current
    <3> QED BY <1>6, <2>3, <3>2 DEF Current, Is
  <2>4. ASSUME Current(r), r.call # c PROVE Current(r)'
    <3>1. call'[r.call] = call[r.call]
      BY <1>6, <2>2, <2>4
    <3> QED BY <2>4, <3>1 DEF Current, Is
  <2> QED BY <1>8, <2>1, <2>3, <2>4
<1>12. StoreInv'
  BY <1>8, <1>9, BoundsAssumption DEF ServiceKept, StoreKept, StoreInv
<1> QED BY <1>5, <1>10, <1>11, <1>12 DEF SessionInv

\* What any call may end with.
LEMMA PlainFits ==
  ASSUME NEW c, NEW status \in {"400", "429", "500", "error", "none"}
  PROVE  Fits(c, status)
  BY StatusesAssumption DEF Fits, Statuses

LEMMA PaymentRequiredFits ==
  ASSUME NEW c, Path(c) \in Priced
  PROVE  Fits(c, "402")
  BY StatusesAssumption DEF Fits, Statuses

\* An answer or an error that fits its call leaves an orderly session.
LEMMA FollowsIsOrderly ==
  ASSUME SessionInv, NEW c \in Calls, NEW status, NEW q, Outcome(q, call[c], status),
         call[c].phase # "over", Fits(c, status),
         status = "401" => Excused(c, call[c].signed)
  PROVE  /\ Orderly(q) /\ Fits(c, q.status)
         /\ q.status = "401" => Excused(c, q.signed)
         /\ q.phase # "waiting" /\ q.sent = call[c].sent
<1>1. Orderly(call[c]) /\ call[c].status = "none"
  BY DEF SessionInv, Orderly
<1>2. q.status = IF q.phase = "over" THEN status ELSE "none"
  BY <1>1 DEF Outcome
<1>3. Fits(c, q.status)
  BY <1>2, PlainFits
<1>4. q.status = "401" => Excused(c, q.signed)
  BY <1>2 DEF Outcome
<1>5. Orderly(q)
  <2>1. q.phase = "paying" => call[c].intent.path \in Priced
    BY DEF Outcome, Fits, Path
  <2> QED BY <1>1, <1>2, <2>1 DEF Orderly, Outcome
<1> QED BY <1>3, <1>4, <1>5 DEF Outcome

\* An answer of the service, or an error, that c takes.
LEMMA AgainIsAMove ==
  ASSUME SessionInv, NEW c \in Calls, call[c].phase # "over", call' = Again(c, "error")
  PROVE  Moves(c)
<1>1. PICK S : call \in [Calls -> Sessions(S)]
  BY DEF SessionInv, CallsTyped
<1>2. PICK q \in Sessions(S \union {"error"}) :
        /\ Again(c, "error") = [call EXCEPT ![c] = q]
        /\ Outcome(q, call[c], "error")
        /\ Frugal(call[c]) => Frugal(q)
  BY <1>1, AgainMoves
<1>3. /\ Orderly(q) /\ Fits(c, q.status)
      /\ q.status = "401" => Excused(c, q.signed)
      /\ q.phase # "waiting" /\ q.sent = call[c].sent
  BY <1>2, FollowsIsOrderly, PlainFits
<1>4. call[c].sent \in Nat
  BY <1>1 DEF Sessions
<1> QED BY <1>2, <1>3, <1>4 DEF Moves, SessionInv, Outcome

LEMMA ReceivedIsAMove ==
  ASSUME SessionInv, NEW c \in Calls, NEW status, call[c].phase = "waiting",
         Fits(c, status), status = "401" => Excused(c, call[c].signed),
         call' = Received(c, status)
  PROVE  Moves(c)
<1>1. PICK S : call \in [Calls -> Sessions(S)]
  BY DEF SessionInv, CallsTyped
<1>2. PICK q \in Sessions(S \union {status}) :
        /\ Received(c, status) = [call EXCEPT ![c] = q]
        /\ Outcome(q, call[c], status)
        /\ Frugal(call[c]) => Frugal(q)
  BY <1>1, ReceivedMoves
<1>3. /\ Orderly(q) /\ Fits(c, q.status)
      /\ q.status = "401" => Excused(c, q.signed)
      /\ q.phase # "waiting" /\ q.sent = call[c].sent
  BY <1>2, FollowsIsOrderly
<1>4. call[c].sent \in Nat
  BY <1>1 DEF Sessions
<1>5. Frugal(q) /\ q.intent = call[c].intent /\ q.sent >= call[c].sent
  BY <1>2, <1>3, <1>4 DEF SessionInv, Outcome
<1>6. call' = [call EXCEPT ![c] = q]
  BY <1>2
<1> QED BY <1>2, <1>3, <1>5, <1>6 DEF Moves

\* A request that is sent and answered at once, or lost on its way.
LEMMA AtOnceIsAMove ==
  ASSUME SessionInv, NEW c \in Calls, NEW status, call[c].phase = "ready",
         Fits(c, status), status = "401" => Excused(c, call[c].signed),
         \/ call' = AnsweredAtOnce(c, status)
         \/ status = "error" /\ call' = [Again(c, status) EXCEPT ![c].sent = @ + 1]
  PROVE  Moves(c)
<1>1. PICK S : call \in [Calls -> Sessions(S)]
  BY DEF SessionInv, CallsTyped
<1>2. PICK q \in Sessions(S \union {status}) :
        /\ call' = [[call EXCEPT ![c] = q] EXCEPT ![c].sent = call[c].sent + 1]
        /\ Outcome(q, call[c], status)
        /\ Frugal(call[c]) => Frugal([q EXCEPT !.sent = @ + 1])
  <2>1. CASE call' = AnsweredAtOnce(c, status)
    <3>1. call' = [Received(c, status) EXCEPT ![c].sent = call[c].sent + 1]
      BY <2>1 DEF AnsweredAtOnce, Sent
    <3> QED BY <1>1, <3>1, ReceivedMoves
  <2>2. CASE status = "error" /\ call' = [Again(c, status) EXCEPT ![c].sent = @ + 1]
    <3>1. PICK q \in Sessions(S \union {status}) :
            /\ Again(c, status) = [call EXCEPT ![c] = q]
            /\ Outcome(q, call[c], status)
            /\ Frugal(call[c]) => Frugal([q EXCEPT !.sent = @ + 1])
      BY <1>1, AgainMoves
    <3>2. call' = [[call EXCEPT ![c] = q] EXCEPT ![c].sent = call[c].sent + 1]
      BY <1>1, <2>2, <3>1 DEF Outcome
    <3> QED BY <3>1, <3>2
  <2> QED BY <2>1, <2>2
<1>3. /\ Orderly(q) /\ Fits(c, q.status)
      /\ q.status = "401" => Excused(c, q.signed)
      /\ q.phase # "waiting" /\ q.sent = call[c].sent
  BY <1>2, FollowsIsOrderly
<1> DEFINE r == [q EXCEPT !.sent = @ + 1]
<1>4. call' = [call EXCEPT ![c] = r]
  BY <1>1, <1>2, <1>3
<1>5. /\ r \in Sessions(S \union {status})
      /\ r.intent = q.intent /\ r.status = q.status /\ r.phase = q.phase /\ r.proof = q.proof
      /\ r.signed = q.signed /\ r.sent = q.sent + 1
  BY <1>2 DEF Sessions
<1>6. Frugal(r)
  BY <1>2 DEF SessionInv
<1>7. call[c].sent \in Nat
  BY <1>1 DEF Sessions
<1> HIDE DEF r
<1>8. Orderly(r) /\ r.sent >= call[c].sent /\ r.phase # "waiting"
  BY <1>3, <1>5, <1>7 DEF Orderly
<1> QED BY <1>2, <1>3, <1>4, <1>5, <1>6, <1>8 DEF Moves, Outcome

LEMMA SendIsAMove ==
  ASSUME SessionInv, NEW c \in Calls, call[c].phase = "ready", call' = Send(c)
  PROVE  /\ Moves(c)
         /\ call'[c].sent = Sent(c) /\ call'[c].signed = call[c].signed
<1>1. PICK S : call \in [Calls -> Sessions(S)]
  BY DEF SessionInv, CallsTyped
<1> DEFINE k == call[c]
           r == [k EXCEPT !.phase = "waiting", !.sent = k.sent + 1]
<1>2. call' = [call EXCEPT ![c] = r]
  BY <1>1 DEF Send, Sent
<1>3. k \in Sessions(S) /\ k.phase = "ready" /\ Frugal(k) /\ Orderly(k)
  BY <1>1 DEF SessionInv
<1>4. /\ r \in Sessions(S) /\ r.intent = k.intent /\ r.status = k.status
      /\ r.phase = "waiting" /\ r.sent = k.sent + 1 /\ r.attempt = k.attempt
      /\ r.proof = k.proof /\ r.payments = k.payments /\ r.signed = k.signed
  <2> HIDE DEF k
  <2>1. k.sent + 1 \in Nat
    BY <1>3 DEF Sessions
  <2>2. r \in Sessions(S)
    BY <1>3, <2>1 DEF Sessions, Phases
  <2>3. r.phase = "waiting" /\ r.sent = k.sent + 1
    BY <1>3 DEF Sessions
  <2>4. /\ r.intent = k.intent /\ r.status = k.status /\ r.attempt = k.attempt
        /\ r.proof = k.proof /\ r.payments = k.payments /\ r.signed = k.signed
    BY <1>3 DEF Sessions
  <2> QED BY <2>2, <2>3, <2>4
<1>5. r.status = "none" /\ Fits(c, r.status)
  BY <1>3, <1>4, PlainFits DEF Orderly
<1>6. Frugal(r) /\ Orderly(r) /\ r.sent > k.sent /\ r.sent >= k.sent
  <2> HIDE DEF r, k
  <2>1. /\ k.attempt \in Nat /\ k.sent \in Nat /\ k.payments \in Nat /\ k.proof \in BOOLEAN
        /\ Retries \in Nat
    BY <1>3, BoundsAssumption DEF Sessions
  <2>2. Frugal(r)
    BY <1>3, <1>4, <2>1 DEF Frugal
  <2>3. Orderly(r)
    BY <1>3, <1>4, <1>5 DEF Orderly
  <2> QED BY <1>4, <2>1, <2>2, <2>3
<1>7. call'[c] = r
  BY <1>1, <1>2
<1>8. r.sent = Sent(c)
  BY <1>4 DEF Sent
<1> HIDE DEF r
<1> QED BY <1>2, <1>4, <1>5, <1>6, <1>7, <1>8 DEF Moves

LEMMA StampIsATime ==
  ASSUME SessionInv, NEW c
  PROVE  Stamp(c) \in 0..MaxTime
  BY BoundsAssumption DEF SessionInv, StoreInv, Stamp

\* A method is called.
LEMMA BeginIsAMove ==
  ASSUME SessionInv, NEW c \in Calls, Begin(c)
  PROVE  Moves(c)
<1>1. PICK S : call \in [Calls -> Sessions(S)]
  BY DEF SessionInv, CallsTyped
<1> DEFINE k == call[c]
           r == [k EXCEPT !.phase = "ready", !.begun = Stamp(c), !.signed = Stamp(c)]
<1>2. call' = [call EXCEPT ![c] = r]
  BY <1>1 DEF Begin
<1>3. k \in Sessions(S) /\ k.phase = "new" /\ Frugal(k) /\ Orderly(k)
  BY <1>1 DEF SessionInv, Begin, Is
<1>4. /\ r \in Sessions(S) /\ r.intent = k.intent /\ r.status = k.status
      /\ r.phase = "ready" /\ r.sent = k.sent /\ r.attempt = k.attempt
      /\ r.proof = k.proof /\ r.payments = k.payments
  <2> HIDE DEF k
  <2>1. r \in Sessions(S)
    BY <1>3, StampIsATime DEF Sessions, Phases
  <2> QED BY <1>3, <2>1 DEF Sessions
<1>5. r.status = "none" /\ Fits(c, r.status)
  BY <1>3, <1>4, PlainFits DEF Orderly
<1>6. Frugal(r) /\ Orderly(r) /\ r.sent >= k.sent
  <2> HIDE DEF r, k
  <2>1. k.sent \in Nat
    BY <1>3 DEF Sessions
  <2> QED BY <1>3, <1>4, <1>5, <2>1 DEF Frugal, Orderly
<1> HIDE DEF r
<1> QED BY <1>2, <1>4, <1>5, <1>6 DEF Moves

LEMMA PayIsAMove ==
  ASSUME SessionInv, NEW c \in Calls, Pay(c)
  PROVE  Moves(c)
<1>1. PICK S : call \in [Calls -> Sessions(S)]
  BY DEF SessionInv, CallsTyped
<1> DEFINE k == call[c]
           a == IF IsTs(c) THEN k.attempt ELSE 0
           b == IF IsTs(c) THEN k.begun ELSE Stamp(c)
           r == [k EXCEPT !.phase = "ready", !.proof = TRUE, !.payments = @ + 1,
                          !.signed = Stamp(c), !.attempt = a, !.begun = b]
<1>2. call' = [call EXCEPT ![c] = r]
  BY <1>1 DEF Pay
<1>3. k \in Sessions(S) /\ k.phase = "paying" /\ Frugal(k) /\ Orderly(k)
  BY <1>1 DEF SessionInv, Pay, Is
<1>4. a \in 0 .. Retries /\ b \in 0..MaxTime /\ Stamp(c) \in 0..MaxTime
  BY <1>3, BoundsAssumption, StampIsATime DEF Sessions
<1>5. /\ r \in Sessions(S) /\ r.intent = k.intent /\ r.status = k.status
      /\ r.phase = "ready" /\ r.sent = k.sent /\ r.attempt = a
      /\ r.proof = TRUE /\ r.payments = k.payments + 1
  <2> HIDE DEF a, b, k
  <2>1. k.payments + 1 \in Nat
    BY <1>3 DEF Sessions
  <2>2. r \in Sessions(S)
    BY <1>3, <1>4, <2>1 DEF Sessions, Phases
  <2>3. r.phase = "ready" /\ r.attempt = a /\ r.proof = TRUE /\ r.payments = k.payments + 1
    BY <1>3, <1>4 DEF Sessions
  <2>4. r.intent = k.intent /\ r.status = k.status /\ r.sent = k.sent
    BY <1>3 DEF Sessions
  <2> QED BY <2>2, <2>3, <2>4
<1>6. r.status = "none" /\ Fits(c, r.status)
  BY <1>3, <1>5, PlainFits DEF Orderly
<1>7. a = IF k.intent.sdk = "ts" THEN k.attempt ELSE 0
  BY DEF IsTs
<1>8. Frugal(r) /\ Orderly(r) /\ r.sent >= k.sent
  <2> HIDE DEF r, k, a, b
  <2>1. /\ k.attempt \in 0 .. Retries /\ k.sent \in Nat /\ k.payments \in Nat /\ k.proof \in BOOLEAN
        /\ Retries \in Nat
    BY <1>3, BoundsAssumption DEF Sessions
  <2>2. Frugal(r)
    BY <1>3, <1>5, <1>7, <2>1 DEF Frugal
  <2>3. Orderly(r)
    BY <1>3, <1>5, <1>6 DEF Orderly
  <2> QED BY <1>5, <2>1, <2>2, <2>3
<1> HIDE DEF r
<1> QED BY <1>2, <1>5, <1>6, <1>8 DEF Moves

LEMMA PaymentEndIsAMove ==
  ASSUME SessionInv, NEW c \in Calls, call[c].phase = "paying", call' = Ended(c, "error")
  PROVE  Moves(c)
<1>1. PICK S : call \in [Calls -> Sessions(S)]
  BY DEF SessionInv, CallsTyped
<1> DEFINE k == call[c]
           over == [k EXCEPT !.phase = "over", !.status = "error"]
<1>2. call' = [call EXCEPT ![c] = over]
  BY <1>1 DEF Ended
<1>3. k \in Sessions(S) /\ k.sent \in Nat /\ Frugal(k) /\ Orderly(k)
  BY <1>1 DEF SessionInv, Sessions
<1>4. over \in Sessions(S \union {"error"})
  BY <1>3 DEF Sessions, Phases
<1>5. over.phase = "over" /\ over.status = "error" /\ Spent(over, k)
  BY <1>3 DEF Sessions, Spent
<1> HIDE DEF over
<1>6. Frugal(over) /\ Orderly(over) /\ over.intent = k.intent /\ over.sent >= k.sent
  <2> HIDE DEF k
  <2>1. Frugal(over)
    BY <1>3, <1>4, <1>5, EndIsFrugal
  <2> QED BY <1>3, <1>5, <2>1 DEF Orderly, Spent
<1> QED BY <1>2, <1>4, <1>5, <1>6, PlainFits DEF Moves

-----------------------------------------------------------------------------
(* The store, and what the middlewares answer from it *)

LEMMA StoreUnchanged ==
  ASSUME SessionInv, UNCHANGED <<store, now>>
  PROVE  StoreKept
  BY BoundsAssumption DEF SessionInv, StoreInv, StoreKept

\* The signature is refused for what its call is, or for its age.
LEMMA WhoIsRefused ==
  ASSUME SessionInv, NEW r, Sound(r)
  PROVE  /\ hmacAuth(r) => Admits(r.call)
         /\ ~hmacAuth(r) => Excused(r.call, r.signed)
<1> DEFINE c == r.call
<1>1. /\ c \in Calls /\ r.signed \in 0..MaxTime /\ now \in 0..MaxTime /\ SkewMs \in Nat
      /\ r.body = Given(c)
  BY BoundsAssumption DEF Sound, Requests, SessionInv, StoreInv
<1>2. Body(c) # NoBody
  <2>1. call[c].intent \in Intents
    BY <1>1 DEF SessionInv, CallsTyped, Sessions
  <2> QED BY <2>1, PathsAssumption DEF Body
<1>3. r.body = Body(c) <=> ~PaidUnparsed(c)
  BY <1>1, <1>2 DEF Given
<1>4. buildHeaders(c).body = Body(c) /\ canonicalJsonForAuth(r.body).body = r.body
  BY DEF buildHeaders, stringified, dumped, canonicalJsonForAuth
<1>5. ~SignedOtherwise(c) => buildHeaders(c) = canonicalJsonForAuth(Body(c))
  <2>1. CASE IsTs(c)
    BY <2>1 DEF buildHeaders, stringified, canonicalJsonForAuth
  <2>2. CASE Body(c) \notin WrittenOtherwise
    <3>1. (Body(c) \in WrittenOtherwise) = FALSE
      BY <2>2
    <3>2. dumped(c) = canonicalJsonForAuth(Body(c))
      BY <3>1, Zenon DEF dumped, canonicalJsonForAuth
    <3> QED BY <3>2 DEF buildHeaders, stringified, canonicalJsonForAuth
  <2> QED BY <2>1, <2>2 DEF SignedOtherwise
<1>6. SignedOtherwise(c) => buildHeaders(c) # canonicalJsonForAuth(r.body)
  <2> SUFFICES ASSUME SignedOtherwise(c) PROVE buildHeaders(c) # canonicalJsonForAuth(r.body)
    OBVIOUS
  <2>1. (Body(c) \in WrittenOtherwise) = TRUE /\ ~IsTs(c)
    BY DEF SignedOtherwise
  <2>2. buildHeaders(c).byDumps = TRUE
    BY <2>1 DEF buildHeaders, dumped
  <2>3. canonicalJsonForAuth(r.body).byDumps = FALSE
    BY DEF canonicalJsonForAuth
  <2> QED BY <2>2, <2>3
<1>7. buildHeaders(c) = canonicalJsonForAuth(r.body) <=> (Body(c) = r.body /\ ~SignedOtherwise(c))
  BY <1>4, <1>5, <1>6
<1>8. now - r.signed <= SkewMs \/ now - r.signed > SkewMs
  BY <1>1
<1>9. hmacAuth(r) => Admits(c)
  BY <1>3, <1>7 DEF hmacAuth, Admits
<1>10. ~hmacAuth(r) => Excused(c, r.signed)
  BY <1>3, <1>7, <1>8 DEF hmacAuth, Excused
<1> QED BY <1>9, <1>10

\* getIdempotencyRecord drops at most a record, and what enters is admitted.
LEMMA EnterKeepsService ==
  ASSUME SessionInv, NEW r, Sound(r), Current(r) \/ Current(r)' \/ Refusal(r) # {},
         NEW others, others \subseteq serving, Enter(r, others), UNCHANGED now
  PROVE  ServiceKept
<1> DEFINE c == r.call
<1>1. StoreKept
  <2>1. CASE Protected(c)
    <3>1. store' = StoreAfterGet(Key(c))
      BY <2>1 DEF Enter
    <3>2. now' \in now..MaxTime
      BY BoundsAssumption DEF SessionInv, StoreInv
    <3> QED BY <3>1, <3>2, DropKeepsDistinct DEF StoreAfterGet, SessionInv, StoreInv, StoreKept
  <2>2. CASE ~Protected(c)
    BY <2>2, StoreUnchanged DEF Enter
  <2> QED BY <2>1, <2>2
<1>2. \A q \in others : Admitted(q) /\ Current(q)
  BY DEF SessionInv
<1>3. CASE Refusal(r) = {}
  <2> DEFINE request == [r EXCEPT !.stage = "handling"]
  <2>1. ~InsistsOnKey(c) /\ hmacAuth(r)
    BY <1>3 DEF Refusal, MiddlewareAnswer
  <2>2. /\ request \in Requests /\ request.call = c /\ request.n = r.n /\ request.signed = r.signed
        /\ request.body = r.body /\ request.stage = "handling"
    BY DEF Admitted, Sound, Requests
  <2>3. Admitted(request)
    BY <2>1, <2>2, WhoIsRefused DEF Admitted, Sound
  <2>4. Current(request) \/ Current(request)'
    BY <1>3, <2>2 DEF Current
  <2>5. serving' = others \union {request}
    BY <1>3 DEF Enter
  <2> QED BY <1>1, <1>2, <2>3, <2>4, <2>5 DEF ServiceKept
<1>4. CASE Refusal(r) # {}
  BY <1>1, <1>2, <1>4 DEF Enter, ServiceKept
<1> QED BY <1>3, <1>4

\* A success in the handler, and the record of it.
LEMMA SucceedKeepsService ==
  ASSUME SessionInv, NEW r \in serving, Succeed(r)
  PROVE  ServiceKept
<1> DEFINE c == r.call
           rec == [key |-> Key(c), body |-> r.body, answer |-> Path(c), expiresAt |-> now + TTL]
<1>1. c \in Calls /\ Admits(c) /\ r.body = Given(c)
  BY DEF Succeed, SessionInv, Admitted, Sound, Requests
<1>2. \A q \in serving' : Admitted(q) /\ Current(q)
  BY DEF Succeed, SessionInv
<1>3. CASE Protected(c)
  <2>1. setIdempotencyRecord(Key(c), r.body, Path(c)) /\ UNCHANGED now
    BY <1>3 DEF Succeed
  <2>2. call[c].intent \in Intents
    BY <1>1 DEF SessionInv, CallsTyped, Sessions
  <2>3. now + TTL \in 0..(MaxTime + TTL) /\ now' \in now..MaxTime
    BY <2>1, BoundsAssumption DEF SessionInv, StoreInv
  <2>4. r.body = Body(c)
    <3>1. Path(c) \in Signed
      BY <1>3, <2>2, PathsAssumption DEF Protected, Path, Key
    <3> QED BY <1>1, <3>1 DEF Admits, Given
  <2>5. rec \in Records
    BY <1>3, <2>2, <2>3, <2>4 DEF Records, Bodies, Protected, Key, Body, Path
  <2>6. Genuine(rec)
    BY <1>1, <2>4 DEF Genuine
  <2>7. /\ store' \in Seq(Records) /\ Distinct(store')
        /\ ToSet(store') \subseteq ToSet(store) \cup {rec}
    <3>1. store' = Put(store, rec)
      BY <2>1 DEF setIdempotencyRecord, KeyIndex, Put
    <3> HIDE DEF rec
    <3> QED BY <2>5, <3>1, PutKeepsDistinct DEF SessionInv, StoreInv
  <2> HIDE DEF rec
  <2> QED BY <1>2, <2>3, <2>6, <2>7 DEF SessionInv, StoreInv, StoreKept, ServiceKept
<1>4. CASE ~Protected(c)
  BY <1>2, <1>4, StoreUnchanged DEF Succeed, ServiceKept
<1> QED BY <1>3, <1>4

\* A replayed record is one of the same key and body, a conflict another call's, and
\* an AuthenticationError the caller's own.
LEMMA RefusalFits ==
  ASSUME SessionInv, NEW r, Sound(r), NEW status \in Refusal(r)
  PROVE  /\ Fits(r.call, status)
         /\ status = "401" => Excused(r.call, r.signed)
<1> DEFINE c == r.call
<1>0. c \in Calls /\ r.body = Given(c)
  BY DEF Admitted, Sound, Requests
<1>1. CASE InsistsOnKey(c)
  <2>1. status = "400"
    BY <1>1 DEF Refusal, MiddlewareAnswer
  <2> QED BY <2>1, PlainFits
<1>2. CASE MiddlewareAnswer(r) = {} /\ ~hmacAuth(r)
  <2>1. status = "401"
    BY <1>2 DEF Refusal
  <2> QED BY <1>2, <2>1, WhoIsRefused, StatusesAssumption DEF Fits, Statuses
<1>3. CASE ~InsistsOnKey(c) /\ status \in MiddlewareAnswer(r)
  <2>1. /\ Protected(c)
        /\ status \in {IF rec.body = r.body THEN rec.answer ELSE "409" : rec \in LiveRecords(Key(c))}
    BY <1>3 DEF MiddlewareAnswer
  <2>2. PICK rec \in LiveRecords(Key(c)) : status = IF rec.body = r.body THEN rec.answer ELSE "409"
    BY <2>1
  <2>3. rec \in ToSet(store) /\ rec.key = Key(c)
    BY <2>2 DEF LiveRecords, KeyIndex, ToSet
  <2>4. PICK d \in Calls : /\ Key(d) = rec.key /\ Body(d) = rec.body
                          /\ Path(d) = rec.answer /\ Admits(d)
    BY <2>3 DEF SessionInv, StoreInv, Genuine
  <2>5. call[d].intent \in Intents
    BY DEF SessionInv, CallsTyped, Sessions
  <2>6. rec.answer \in DOMAIN MaxOf /\ rec.answer \in Posts /\ Key(c) # NoKey
    <3>1. rec \in Records
      BY <2>3 DEF SessionInv, StoreInv, ToSet
    <3> QED BY <2>1, <3>1, PathsAssumption DEF Records, Protected
  <2>7. ~PaidUnparsed(d) /\ Body(d) # NoBody
    <3>1. Path(d) \in Signed
      BY <2>3, <2>4, <2>5, <2>6, PathsAssumption DEF Path, Key
    <3> QED BY <2>4, <2>5, <3>1, PathsAssumption DEF Admits, Body
  <2>8. CASE rec.body = r.body
    <3>1. status = rec.answer
      BY <2>2, <2>8
    <3>2. Body(d) = Body(c)
      BY <1>0, <2>4, <2>7, <2>8 DEF Given
    <3>3. ServedFrom(c, status)
      BY <2>3, <2>4, <2>6, <3>1, <3>2 DEF ServedFrom, Serves
    <3> QED BY <1>3, <2>6, <3>1, <3>3, StatusesAssumption DEF Fits, Statuses
  <2>9. CASE rec.body # r.body
    <3>1. status = "409"
      BY <2>2, <2>9
    <3>2. Conflicts(d, c)
      BY <1>0, <2>3, <2>4, <2>6, <2>7, <2>9 DEF Conflicts, Given
    <3> QED BY <3>1, <3>2, StatusesAssumption DEF Fits, Statuses, InConflict
  <2> QED BY <2>8, <2>9
<1> QED BY <1>1, <1>2, <1>3 DEF Refusal

-----------------------------------------------------------------------------
(* The steps *)

\* What reaches the rest of the middlewares has the body the signature is held against.
LEMMA RequestIsSound ==
  ASSUME SessionInv, NEW c \in Calls, call[c].proof <=> Path(c) \in Priced
  PROVE  /\ Sound(Request(c))
         /\ Request(c).call = c /\ Request(c).n = Sent(c)
         /\ Request(c).signed = call[c].signed /\ Request(c).stage = "verifying"
<1>1. /\ call[c].intent \in Intents /\ call[c].signed \in 0..MaxTime /\ Sent(c) \in Nat
  BY DEF SessionInv, CallsTyped, Sessions, Sent
<1>2. Parsed(c) = Given(c)
  BY DEF Parsed, Given, PaidUnparsed
<1>3. Given(c) \in Bodies \union {NoBody}
  BY <1>1 DEF Given, Bodies, Body
<1> QED BY <1>1, <1>2, <1>3 DEF Request, Requests, Sound

LEMMA ArriveKeepsSessionInv ==
  ASSUME SessionInv, NEW c \in Calls, Arrive(c)
  PROVE  SessionInv'
<1>1. call[c].phase = "ready" /\ UNCHANGED now
  BY DEF Arrive, Is
<1>2. call[c].proof => Path(c) \in Priced
  BY DEF SessionInv, Orderly, Path
<1> PICK r : r = Request(c)
  OBVIOUS
<1>3. CASE /\ call' = AnsweredAtOnce(c, "429") \/ (call' = AnsweredAtOnce(c, "402") /\ Path(c) \in Priced)
           /\ UNCHANGED <<store, serving>>
  <2>1. Moves(c)
    BY <1>1, <1>3, AtOnceIsAMove, PlainFits, PaymentRequiredFits
  <2>2. ServiceKept
    BY <1>1, <1>3, StoreUnchanged DEF ServiceKept, SessionInv
  <2> QED BY <2>1, <2>2, MovesKeepSessionInv
<1>4. CASE /\ Path(c) \in Priced /\ call[c].proof
           /\ call' = Send(c)
           /\ serving' = serving \union {r}
           /\ UNCHANGED store
  <2>1. Moves(c) /\ call'[c].sent = Sent(c) /\ call'[c].signed = call[c].signed
    BY <1>1, <1>4, SendIsAMove
  <2>2. Sound(r) /\ r.call = c /\ r.n = Sent(c) /\ r.signed = call[c].signed /\ r.stage = "verifying"
    BY <1>4, RequestIsSound
  <2>3. Admitted(r)
    BY <1>4, <2>2 DEF Admitted
  <2>4. Current(r)'
    <3>1. Sent(c) \in Nat
      BY <2>2 DEF Sound, Requests
    <3> QED BY <2>1, <2>2, <3>1 DEF Current
  <2>5. ServiceKept
    BY <1>1, <1>4, <2>3, <2>4, StoreUnchanged DEF ServiceKept, SessionInv
  <2> QED BY <2>1, <2>5, MovesKeepSessionInv
<1>5. CASE /\ Path(c) \notin Priced
           /\ Enter(r, serving)
           /\ \/ Refusal(r) = {} /\ call' = Send(c)
              \/ \E status \in Refusal(r) : call' = AnsweredAtOnce(c, status)
  <2>1. Sound(r) /\ r.call = c /\ r.n = Sent(c) /\ r.signed = call[c].signed
    BY <1>2, <1>5, RequestIsSound
  <2>2. CASE Refusal(r) = {} /\ call' = Send(c)
    <3>1. Moves(c) /\ call'[c].sent = Sent(c) /\ call'[c].signed = call[c].signed
      BY <1>1, <2>2, SendIsAMove
    <3>2. Current(r)'
      <4>1. Sent(c) \in Nat
        BY <2>1 DEF Sound, Requests
      <4> QED BY <2>1, <3>1, <4>1 DEF Current
    <3>3. ServiceKept
      BY <1>1, <1>5, <2>1, <3>2, EnterKeepsService
    <3> QED BY <3>1, <3>3, MovesKeepSessionInv
  <2>3. CASE \E status \in Refusal(r) : call' = AnsweredAtOnce(c, status)
    <3>1. PICK status \in Refusal(r) : call' = AnsweredAtOnce(c, status)
      BY <2>3
    <3>2. Moves(c)
      BY <1>1, <2>1, <3>1, RefusalFits, AtOnceIsAMove
    <3>3. ServiceKept
      BY <1>1, <1>5, <2>1, <3>1, EnterKeepsService
    <3> QED BY <3>2, <3>3, MovesKeepSessionInv
  <2> QED BY <1>5, <2>2, <2>3
<1> QED BY <1>3, <1>4, <1>5 DEF Arrive

\* A request in the service is answered with a status its caller may have.
LEMMA AnswersKeepSessionInv ==
  ASSUME SessionInv, NEW r \in serving, NEW status, Answers(r.call, r.n, status),
         Fits(r.call, status), status = "401" => Excused(r.call, r.signed), ServiceKept
  PROVE  SessionInv'
<1>1. r.call \in Calls /\ Current(r)
  BY DEF SessionInv, Admitted, Sound, Requests
<1>2. CASE Is(r.call, "waiting") /\ call[r.call].sent = r.n /\ call' = Received(r.call, status)
  <2>1. status = "401" => Excused(r.call, call[r.call].signed)
    BY <1>1, <1>2 DEF Current
  <2> QED BY <1>1, <1>2, <2>1, ReceivedIsAMove, MovesKeepSessionInv DEF Is
<1>3. CASE UNCHANGED call
  BY <1>3, StaysKeepSessionInv
<1> QED BY <1>2, <1>3 DEF Answers

LEMMA VerifiedKeepsSessionInv ==
  ASSUME SessionInv, NEW r \in serving, Verified(r)
  PROVE  SessionInv'
<1>1. Sound(r) /\ Current(r)
  BY DEF SessionInv, Admitted
<1>2. Enter(r, serving \ {r}) /\ UNCHANGED now
  BY DEF Verified
<1>3. ServiceKept
  BY <1>1, <1>2, EnterKeepsService
<1>4. CASE UNCHANGED call
  BY <1>3, <1>4, StaysKeepSessionInv
<1>5. CASE \E status \in Refusal(r) : Answers(r.call, r.n, status)
  <2>1. PICK status \in Refusal(r) : Answers(r.call, r.n, status)
    BY <1>5
  <2> QED BY <1>1, <1>3, <2>1, RefusalFits, AnswersKeepSessionInv
<1> QED BY <1>4, <1>5 DEF Verified

LEMMA SucceedKeepsSessionInv ==
  ASSUME SessionInv, NEW r \in serving, Succeed(r)
  PROVE  SessionInv'
<1> DEFINE c == r.call
<1>1. c \in Calls /\ Admits(c) /\ ~InsistsOnKey(c)
  BY DEF Succeed, SessionInv, Admitted, Sound, Requests
<1>2. Path(c) \in DOMAIN MaxOf
  <2>1. call[c].intent \in Intents
    BY <1>1 DEF SessionInv, CallsTyped, Sessions
  <2> QED BY <2>1, PathsAssumption DEF Path
<1>3. ServedFrom(c, Path(c))
  BY <1>1 DEF ServedFrom, Serves
<1>4. Fits(c, Path(c)) /\ Path(c) # "401"
  BY <1>1, <1>2, <1>3, StatusesAssumption DEF Fits, Statuses
<1>5. Answers(c, r.n, Path(c))
  BY DEF Succeed
<1> QED BY <1>4, <1>5, SucceedKeepsService, AnswersKeepSessionInv

\* The timers, the clock and restarts.
LEMMA OthersKeepSessionInv ==
  ASSUME SessionInv, CleanupTimer \/ Sweep \/ Passes \/ Crash \/ UNCHANGED vars
  PROVE  SessionInv'
<1>1. UNCHANGED call /\ serving' \subseteq serving
  BY DEF CleanupTimer, Sweep, Passes, Crash, vars
<1>2. StoreKept
  <2>0. UNCHANGED now => now' \in now..MaxTime
    BY BoundsAssumption DEF SessionInv, StoreInv
  <2>1. CASE UNCHANGED <<store, now>>
    BY <2>1, StoreUnchanged
  <2>2. CASE Sweep
    <3> DEFINE kept == Drop(store, {rec \in ToSet(store) : Expired(rec)})
               overflow == IF Len(kept) > MaxStoreSize THEN Len(kept) - MaxStoreSize ELSE 0
    <3>1. kept \in Seq(Records) /\ Distinct(kept) /\ ToSet(kept) \subseteq ToSet(store)
      BY DropKeepsDistinct DEF SessionInv, StoreInv
    <3>2. store' = SubSeq(kept, overflow + 1, Len(kept)) /\ UNCHANGED now
      BY <2>2 DEF Sweep, SweepTimer, SweptAndTrimmed, Swept
    <3> HIDE DEF kept
    <3>3. overflow \in 0..Len(kept)
      BY <3>1, BoundsAssumption
    <3> HIDE DEF overflow
    <3>4. store' \in Seq(Records) /\ Distinct(store') /\ ToSet(store') \subseteq ToSet(store)
      BY <3>1, <3>2, <3>3, SuffixKeepsDistinct
    <3> QED BY <2>0, <3>2, <3>4 DEF SessionInv, StoreInv, StoreKept
  <2>3. CASE Passes
    <3>1. now' \in now..MaxTime /\ UNCHANGED store
      BY <2>3, BoundsAssumption DEF Passes, Tick, SessionInv, StoreInv
    <3> QED BY <3>1 DEF SessionInv, StoreInv, StoreKept
  <2>4. CASE Crash
    <3>1. store' = <<>> /\ UNCHANGED now
      BY <2>4 DEF Crash, StoreLost
    <3> QED BY <2>0, <3>1 DEF SessionInv, StoreInv, StoreKept, Distinct, ToSet
  <2> QED BY <2>1, <2>2, <2>3, <2>4 DEF CleanupTimer, vars
<1>3. ServiceKept
  BY <1>1, <1>2 DEF ServiceKept, SessionInv
<1> QED BY <1>1, <1>3, StaysKeepSessionInv

LEMMA SessionStep ==
  ASSUME SessionInv, [Next]_vars
  PROVE  SessionInv'
<1>1. ASSUME UNCHANGED <<store, now>>, serving' \subseteq serving PROVE ServiceKept
  BY <1>1, StoreUnchanged DEF ServiceKept, SessionInv
<1>2. ASSUME NEW c \in Calls, Arrive(c) PROVE SessionInv'
  BY <1>2, ArriveKeepsSessionInv
<1>3. ASSUME NEW c \in Calls, Unreachable(c) PROVE SessionInv'
  <2>1. Moves(c) /\ UNCHANGED <<store, now, serving>>
    BY <1>3, AtOnceIsAMove, PlainFits DEF Unreachable, Is
  <2> QED BY <1>1, <2>1, MovesKeepSessionInv
<1>4. ASSUME NEW c \in Calls, GiveUp(c) PROVE SessionInv'
  <2>1. Moves(c) /\ UNCHANGED <<store, now, serving>>
    BY <1>4, AgainIsAMove DEF GiveUp, Is
  <2> QED BY <1>1, <2>1, MovesKeepSessionInv
<1>5. ASSUME NEW c \in Calls, Pay(c) PROVE SessionInv'
  <2>1. Moves(c) /\ UNCHANGED <<store, now, serving>>
    BY <1>5, PayIsAMove DEF Pay
  <2> QED BY <1>1, <2>1, MovesKeepSessionInv
<1>6. ASSUME NEW c \in Calls, PaymentThrows(c) PROVE SessionInv'
  <2>1. Moves(c) /\ UNCHANGED <<store, now, serving>>
    BY <1>6, AgainIsAMove, PaymentEndIsAMove DEF PaymentThrows, Is
  <2> QED BY <1>1, <2>1, MovesKeepSessionInv
<1>7. ASSUME NEW r \in serving, Verified(r) PROVE SessionInv'
  BY <1>7, VerifiedKeepsSessionInv
<1>8. ASSUME NEW r \in serving, NotVerified(r) PROVE SessionInv'
  <2>1. Path(r.call) \in Priced
    BY <1>8 DEF NotVerified, SessionInv, Admitted
  <2> QED BY <1>1, <1>8, <2>1, AnswersKeepSessionInv, PaymentRequiredFits DEF NotVerified
<1>9. ASSUME NEW r \in serving, Succeed(r) PROVE SessionInv'
  BY <1>9, SucceedKeepsSessionInv
<1>10. ASSUME NEW r \in serving, Fail(r) PROVE SessionInv'
  BY <1>1, <1>10, AnswersKeepSessionInv, PlainFits DEF Fail
<1>11. ASSUME CleanupTimer \/ Sweep \/ Passes \/ Crash \/ UNCHANGED vars PROVE SessionInv'
  BY <1>11, OthersKeepSessionInv
<1>12. ASSUME NEW c \in Calls, Begin(c) PROVE SessionInv'
  <2>1. Moves(c) /\ UNCHANGED <<store, now, serving>>
    BY <1>12, BeginIsAMove DEF Begin
  <2> QED BY <1>1, <2>1, MovesKeepSessionInv
<1> QED BY <1>2, <1>3, <1>4, <1>5, <1>6, <1>7, <1>8, <1>9, <1>10, <1>11, <1>12 DEF Next

LEMMA SessionInit == Init => SessionInv
<1> SUFFICES ASSUME Init PROVE SessionInv
  OBVIOUS
<1>1. PICK intents \in Mixes :
        call = [c \in Calls |-> [phase |-> "new", intent |-> intents[c], attempt |-> 0,
                                 begun |-> 0, signed |-> 0, sent |-> 0, proof |-> FALSE, payments |-> 0, status |-> "none"]]
  BY DEF Init
<1>2. \A c \in Calls : intents[c] \in Intents
  BY PathsAssumption
<1>3. \A c \in Calls : call[c] \in Sessions({"none"})
  BY <1>1, <1>2, BoundsAssumption DEF Sessions, Phases
<1>4. CallsTyped
  BY <1>1, <1>3 DEF CallsTyped
<1>5. \A c \in Calls : Frugal(call[c]) /\ Orderly(call[c])
  BY <1>1, BoundsAssumption DEF Frugal, Orderly
<1>6. \A c \in Calls : Fits(c, call[c].status) /\ call[c].status # "401"
  BY <1>1, PlainFits
<1>7. \A r \in serving : Admitted(r) /\ Current(r)
  BY DEF Init
<1>8. StoreInv
  BY BoundsAssumption DEF Init, IdempotencyInit, StoreInv, Distinct, ToSet
<1> QED BY <1>4, <1>5, <1>6, <1>7, <1>8 DEF SessionInv

THEOREM SessionsAreFrugal == Spec => []SessionInv
  BY SessionInit, SessionStep, PTL DEF Spec

\* Whatever is retried, paid, refused or timed out: at most 2 * (Retries + 1)
\* requests, and one payment an attempt (TypeScript) or a call (Python).
THEOREM PaymentsStayBounded == Spec => []PaymentsBounded
<1>1. SessionInv => PaymentsBounded
  <2> SUFFICES ASSUME SessionInv, NEW c \in Calls
               PROVE  /\ call[c].sent <= 2 * (Retries + 1)
                      /\ call[c].payments <= IF IsTs(c) THEN call[c].attempt + 1 ELSE 1
    BY DEF PaymentsBounded
  <2> DEFINE k == call[c]
  <2>1. PICK S : call \in [Calls -> Sessions(S)]
    BY DEF SessionInv, CallsTyped
  <2>2. /\ k.attempt \in 0 .. Retries /\ k.sent \in Nat /\ k.payments \in Nat
        /\ k.proof \in BOOLEAN /\ Retries \in Nat
    BY <2>1, BoundsAssumption DEF Sessions
  <2>3. Frugal(k) /\ (IsTs(c) <=> k.intent.sdk = "ts")
    BY DEF SessionInv, IsTs
  <2> HIDE DEF k
  <2>4. /\ k.sent <= 2 * (Retries + 1)
        /\ k.payments <= IF IsTs(c) THEN k.attempt + 1 ELSE 1
    BY <2>2, <2>3 DEF Frugal
  <2> QED BY <2>4 DEF k
<1> QED BY <1>1, SessionsAreFrugal, PTL

\* A POST without an Idempotency-Key never succeeds, paid for or not.
THEOREM KeylessNeverSucceed == Spec => []KeylessPostsRefused
<1>1. SessionInv => KeylessPostsRefused
  BY DEF SessionInv, KeylessPostsRefused, Fits, InsistsOnKey
<1> QED BY <1>1, SessionsAreFrugal, PTL

LEMMA WhatIsThrown ==
  ASSUME NEW c
  PROVE  /\ Throws(c, "IdempotencyError") => call[c].status = "409"
         /\ Throws(c, "AuthenticationError") => call[c].status = "401"
  BY DEF Throws, errorFromResponse

\* A call is answered on its own signature, or from the record of a signed call with
\* its key and body; a conflict is another call's doing, an AuthenticationError its
\* own client's: for what it serialises or leaves out, or for its age.
THEOREM AnswersAreOnesOwn == Spec => []AnswersAreOwn
<1>1. SessionInv => AnswersAreOwn
  <2> SUFFICES ASSUME SessionInv
               PROVE  \A c \in Calls :
                        /\ call[c].status \in DOMAIN MaxOf =>
                             \/ call[c].status = Path(c) /\ Admits(c)
                             \/ \E d \in Calls \ {c} :
                                  /\ Key(c) # NoKey /\ Key(d) = Key(c) /\ Body(d) = Body(c)
                                  /\ Admits(d) /\ Path(d) = call[c].status
                        /\ Throws(c, "IdempotencyError") =>
                             \E d \in Calls \ {c} :
                               /\ Key(c) # NoKey /\ Key(d) = Key(c)
                               /\ Body(d) # Body(c) \/ PaidUnparsed(c)
                        /\ Throws(c, "AuthenticationError") => Excused(c, call[c].signed)
    BY DEF AnswersAreOwn, Admits, Excused
  <2> TAKE c \in Calls
  <2> DEFINE Own == \/ call[c].status = Path(c) /\ Admits(c)
                    \/ \E d \in Calls \ {c} :
                         /\ Key(c) # NoKey /\ Key(d) = Key(c) /\ Body(d) = Body(c)
                         /\ Admits(d) /\ Path(d) = call[c].status
             Clash == \E d \in Calls \ {c} :
                        /\ Key(c) # NoKey /\ Key(d) = Key(c)
                        /\ Body(d) # Body(c) \/ PaidUnparsed(c)
  <2>1. Fits(c, call[c].status) /\ (call[c].status = "401" => Excused(c, call[c].signed))
    BY DEF SessionInv
  <2>2. call[c].status \in DOMAIN MaxOf => Own
    <3> SUFFICES ASSUME call[c].status \in DOMAIN MaxOf PROVE Own
      OBVIOUS
    <3>1. PICK d \in Calls : Serves(d, c) /\ Admits(d) /\ Path(d) = call[c].status
      BY <2>1 DEF Fits, ServedFrom
    <3>2. CASE d = c
      BY <3>1, <3>2
    <3>3. CASE d # c
      BY <3>1, <3>3 DEF Serves
    <3> QED BY <3>2, <3>3
  <2>3. Throws(c, "IdempotencyError") => Clash
    BY <2>1, WhatIsThrown DEF Fits, InConflict, Conflicts
  <2>4. Throws(c, "AuthenticationError") => Excused(c, call[c].signed)
    BY <2>1, WhatIsThrown
  <2> QED BY <2>2, <2>3, <2>4
<1> QED BY <1>1, SessionsAreFrugal, PTL

-----------------------------------------------------------------------------
(***************************************************************************)
(* The rate limiter.  What a restart forgets is less than SaveEvery, since *)
(* the entry of the running process is either that young or was saved less *)
(* than SaveEvery ago.  As long as the history goes on, it is behind what  *)
(* the runs before the present one allowed and what was forgotten, or the  *)
(* present run is the entry of the limiter and it is behind its count too. *)
(***************************************************************************)
Entries == [count : Nat, resetAt : 0..(MaxTime + WindowMs), max : Maxima]
Forgotten == crashes * (SaveEvery - 1)

SameWindow(e, f) == e.resetAt = f.resetAt /\ e.max = f.max

SavedInTime ==
  limit # NoEntry =>
    \/ limit.count < SaveEvery
    \/ saved # NoEntry /\ SameWindow(saved, limit) /\ limit.count < saved.count + SaveEvery

\* What the maxima of the runs before the present one allowed.
Prior(h) == h.allowed - h.max

Accounted ==
  Ongoing =>
    \/ passed.count <= Prior(passed) + Forgotten
    \/ /\ limit # NoEntry /\ SameWindow(passed, limit)
       /\ passed.count <= Prior(passed) + limit.count + Forgotten

WindowInv ==
  /\ now \in 0..MaxTime /\ crashes \in 0..MaxCrashes
  /\ limit \in Entries \union {NoEntry}
  /\ saved \in Entries \union {NoEntry}
  /\ passed \in Histories
  /\ saved # NoEntry => saved.count % SaveEvery = 0
  /\ SavedInTime
  /\ Accounted
  /\ WindowHolds

LEMMA MaximaArePositive == \A max \in Maxima : max \in Nat \ {0}
  BY BoundsAssumption DEF Maxima

LEMMA EntriesAreEntries == \A e \in Entries : e # NoEntry
<1> SUFFICES ASSUME NEW e \in Entries, e = NoEntry PROVE FALSE
  OBVIOUS
<1>1. "max" \in DOMAIN e
  BY DEF Entries
<1>2. "max" \notin DOMAIN NoEntry
  BY DEF NoEntry
<1> QED BY <1>1, <1>2

LEMMA HistoryNumbers ==
  ASSUME passed \in Histories, passed # NoEntry
  PROVE  /\ passed.count \in Nat /\ passed.resetAt \in Nat /\ passed.max \in Nat
         /\ passed.allowed \in Nat /\ Prior(passed) \in Int
         /\ passed = [count |-> passed.count, resetAt |-> passed.resetAt,
                      max |-> passed.max, allowed |-> passed.allowed]
<1>1. passed \in [count : Nat, resetAt : 0..(MaxTime + WindowMs),
                  max : Maxima \union {0}, allowed : Nat]
  BY DEF Histories
<1>2. passed.max \in Nat
  BY <1>1, MaximaArePositive
<1> QED BY <1>1, <1>2 DEF Prior

LEMMA ForgottenIsNat ==
  ASSUME crashes \in Nat
  PROVE  Forgotten \in Nat
  BY OneMoreRestart, BoundsAssumption DEF Forgotten

\* One more request in the entry, and what is on file then.
LEMMA CountedKeepsSaved ==
  ASSUME WindowInv, NEW max \in Maxima, limit' = Counted(limit, max), SavedAt(limit')
  PROVE  /\ limit' \in Entries /\ limit'.max = max /\ limit'.count >= 1
         /\ OutOfWindow(limit, max) => limit'.count = 1
         /\ ~OutOfWindow(limit, max) =>
              limit # NoEntry /\ SameWindow(limit', limit) /\ limit'.count = limit.count + 1
         /\ saved' \in Entries \union {NoEntry}
         /\ saved' # NoEntry => saved'.count % SaveEvery = 0
         /\ SavedInTime'
<1>1. /\ now \in 0..MaxTime /\ WindowMs \in Nat /\ MaxTime \in Nat /\ SaveEvery \in Nat \ {0}
      /\ limit \in Entries \union {NoEntry} /\ saved \in Entries \union {NoEntry}
  BY BoundsAssumption DEF WindowInv
<1>2. CASE OutOfWindow(limit, max)
  <2>1. limit' = [count |-> 1, resetAt |-> now + WindowMs, max |-> max]
    BY <1>2 DEF Counted
  <2>2. limit' \in Entries /\ limit'.max = max /\ limit'.count = 1
    BY <1>1, <2>1 DEF Entries
  <2>3. CASE 1 % SaveEvery = 0
    <3>1. saved' = limit'
      BY <2>2, <2>3 DEF SavedAt
    <3> QED BY <1>1, <1>2, <2>2, <2>3, <3>1, EntriesAreEntries DEF SavedInTime, SameWindow, Entries
  <2>4. CASE 1 % SaveEvery # 0
    <3>1. saved' = saved
      BY <2>2, <2>4 DEF SavedAt
    <3>2. SaveEvery # 1
      BY <1>1, <2>4
    <3> QED BY <1>1, <1>2, <2>2, <3>1, <3>2 DEF SavedInTime, WindowInv
  <2> QED BY <2>3, <2>4
<1>3. CASE ~OutOfWindow(limit, max)
  <2>1. limit # NoEntry /\ limit \in Entries /\ limit.max = max
    BY <1>1, <1>3 DEF OutOfWindow
  <2>2. limit' = [limit EXCEPT !.count = @ + 1]
    BY <1>3 DEF Counted
  <2>3. limit' \in Entries /\ limit'.max = max /\ limit'.count = limit.count + 1
        /\ limit'.resetAt = limit.resetAt
    BY <2>1, <2>2 DEF Entries
  <2>4. limit.count \in Nat
    BY <2>1 DEF Entries
  <2>5. CASE limit'.count % SaveEvery = 0
    <3>1. saved' = limit'
      BY <2>5 DEF SavedAt
    <3> QED BY <1>1, <1>3, <2>1, <2>3, <2>4, <2>5, <3>1, EntriesAreEntries DEF SavedInTime, SameWindow
  <2>6. CASE limit'.count % SaveEvery # 0
    <3>1. saved' = saved
      BY <2>6 DEF SavedAt
    <3>2. CASE limit.count < SaveEvery
      <4>1. 0 % SaveEvery = 0
        BY <1>1
      <4>2. limit'.count < 0 + SaveEvery
        BY <1>1, <2>3, <2>4, <2>6, <3>2, <4>1, SavedRecently
      <4> QED BY <1>1, <1>3, <2>1, <2>3, <2>4, <3>1, <4>2 DEF SavedInTime, SameWindow, WindowInv
    <3>3. CASE saved # NoEntry /\ SameWindow(saved, limit) /\ limit.count < saved.count + SaveEvery
      <4>1. saved \in Entries /\ saved.count \in Nat /\ saved.count % SaveEvery = 0
        BY <1>1, <3>3 DEF WindowInv, Entries
      <4>2. limit'.count < saved.count + SaveEvery
        BY <1>1, <2>3, <2>4, <2>6, <3>3, <4>1, SavedRecently
      <4> QED BY <1>1, <1>3, <2>1, <2>3, <2>4, <3>1, <3>3, <4>1, <4>2 DEF SavedInTime, SameWindow
    <3> QED BY <2>1, <3>2, <3>3 DEF WindowInv, SavedInTime
  <2> QED BY <2>5, <2>6
<1> QED BY <1>2, <1>3

LEMMA LetPastKeepsWindowInv ==
  ASSUME WindowInv, NEW path \in DOMAIN MaxOf, LetPast(path), UNCHANGED <<now, crashes>>
  PROVE  WindowInv'
<1> DEFINE max == MaxOf[path]
<1>1. max \in Nat \ {0} /\ max \in Maxima
  BY BoundsAssumption DEF Maxima
<1> DEFINE past == IF Ongoing THEN passed.count ELSE 0
           granted == (IF Ongoing THEN passed.allowed ELSE 0) + Allowance(max)
<1>2. /\ limit' = Counted(limit, max) /\ SavedAt(limit') /\ ~Over(limit')
      /\ passed' = [count |-> past + 1, resetAt |-> limit'.resetAt, max |-> max, allowed |-> granted]
  BY DEF LetPast
<1>3. /\ limit' \in Entries /\ limit'.max = max /\ limit'.count >= 1
      /\ OutOfWindow(limit, max) => limit'.count = 1
      /\ ~OutOfWindow(limit, max) =>
           limit # NoEntry /\ SameWindow(limit', limit) /\ limit'.count = limit.count + 1
      /\ saved' \in Entries \union {NoEntry}
      /\ saved' # NoEntry => saved'.count % SaveEvery = 0
      /\ SavedInTime'
  BY <1>1, <1>2, CountedKeepsSaved
<1>4. Forgotten \in Nat /\ Forgotten' = Forgotten
  BY ForgottenIsNat DEF Forgotten, WindowInv
<1>5. limit'.count \in Nat /\ limit'.count <= max /\ limit' # NoEntry
  BY <1>1, <1>2, <1>3, EntriesAreEntries DEF Over, Entries
<1>6. past \in Nat
  BY HistoryNumbers DEF Ongoing, WindowInv
<1>7. Ongoing => passed.allowed \in Nat
  BY HistoryNumbers DEF Ongoing, WindowInv
\* The runs before this one, and with what they allowed the history is accounted for.
<1>8. granted \in Nat /\ past + 1 <= (granted - max) + limit'.count + Forgotten
  <2>1. CASE ~Ongoing
    <3>1. past = 0 /\ granted = max
      BY <1>1, <2>1 DEF Allowance
    <3> HIDE DEF past, granted, max
    <3> QED BY <1>1, <1>3, <1>4, <1>5, <3>1
  <2>2. CASE Ongoing /\ passed.max # max
    <3>1. past = passed.count /\ granted = passed.allowed + max
      BY <1>1, <2>2 DEF Allowance
    <3>2. passed.count <= passed.allowed + Forgotten
      BY <2>2 DEF WindowInv, WindowHolds, Forgotten, Ongoing
    <3> HIDE DEF past, granted, max
    <3> QED BY <1>1, <1>3, <1>4, <1>5, <1>6, <1>7, <2>2, <3>1, <3>2
  <2>3. CASE Ongoing /\ passed.max = max
    <3>1. past = passed.count /\ granted = passed.allowed
      BY <1>7, <2>3 DEF Allowance
    <3>2. passed # NoEntry /\ now <= passed.resetAt
      BY <2>3 DEF Ongoing
    <3>3. now \in Nat /\ passed.resetAt \in Nat /\ Prior(passed) = passed.allowed - max
      BY <2>3, <3>2, HistoryNumbers DEF WindowInv, Prior
    <3>4. CASE passed.count <= Prior(passed) + Forgotten
      <4> HIDE DEF past, granted, max
      <4> QED BY <1>1, <1>3, <1>4, <1>5, <1>6, <1>7, <2>3, <3>1, <3>3, <3>4
    <3>5. CASE /\ limit # NoEntry /\ SameWindow(passed, limit)
               /\ passed.count <= Prior(passed) + limit.count + Forgotten
      <4>1. limit \in Entries
        BY <3>5 DEF WindowInv
      <4>2. ~OutOfWindow(limit, max)
        BY <2>3, <3>2, <3>3, <3>5 DEF OutOfWindow, SameWindow
      <4>3. limit'.count = limit.count + 1 /\ limit.count \in Nat
        BY <1>3, <4>1, <4>2 DEF Entries
      <4> HIDE DEF past, granted, max
      <4> QED BY <1>1, <1>4, <1>5, <1>6, <1>7, <2>3, <3>1, <3>3, <3>5, <4>3
    <3> QED BY <2>3, <3>4, <3>5 DEF WindowInv, Accounted
  <2> QED BY <2>1, <2>2, <2>3
<1> HIDE DEF past, granted, max
<1>9. passed' = [count |-> past + 1, resetAt |-> limit'.resetAt, max |-> max, allowed |-> granted]
  BY <1>2
<1>10. /\ passed'.count = past + 1 /\ passed'.max = max /\ passed'.allowed = granted
       /\ passed'.resetAt = limit'.resetAt
  BY <1>9
<1>11. passed' \in Histories
  BY <1>1, <1>3, <1>6, <1>8, <1>9 DEF Histories, Entries
<1>12. Accounted'
  BY <1>3, <1>4, <1>5, <1>8, <1>10 DEF Accounted, SameWindow, Prior
<1>13. WindowHolds'
  <2>1. past + 1 <= granted + Forgotten
    BY <1>1, <1>4, <1>5, <1>6, <1>8
  <2> QED BY <1>4, <1>10, <2>1 DEF WindowHolds, Forgotten
<1> QED BY <1>3, <1>11, <1>12, <1>13 DEF WindowInv

LEMMA LimitedKeepsWindowInv ==
  ASSUME WindowInv, NEW path \in DOMAIN MaxOf, Limited(path), UNCHANGED <<now, crashes>>
  PROVE  WindowInv'
<1> DEFINE max == MaxOf[path]
<1>1. max \in Nat \ {0} /\ max \in Maxima
  BY BoundsAssumption DEF Maxima
<1>2. limit' = Counted(limit, max) /\ SavedAt(limit') /\ Over(limit') /\ UNCHANGED passed
  BY DEF Limited
<1> HIDE DEF max
<1>3. /\ limit' \in Entries /\ limit'.max = max
      /\ OutOfWindow(limit, max) => limit'.count = 1
      /\ ~OutOfWindow(limit, max) =>
           limit # NoEntry /\ SameWindow(limit', limit) /\ limit'.count = limit.count + 1
      /\ saved' \in Entries \union {NoEntry}
      /\ saved' # NoEntry => saved'.count % SaveEvery = 0
      /\ SavedInTime'
  BY <1>1, <1>2, CountedKeepsSaved
<1>4. ~OutOfWindow(limit, max)
  BY <1>1, <1>2, <1>3 DEF Over
<1>5. limit \in Entries /\ limit.count \in Nat /\ limit' # NoEntry
  BY <1>3, <1>4, EntriesAreEntries DEF WindowInv, Entries
<1>6. Forgotten \in Nat /\ Forgotten' = Forgotten
  BY ForgottenIsNat DEF Forgotten, WindowInv
<1>7. Accounted'
  <2> SUFFICES ASSUME Ongoing
               PROVE  \/ passed.count <= Prior(passed) + Forgotten
                      \/ limit' # NoEntry /\ SameWindow(passed, limit')
                         /\ passed.count <= Prior(passed) + limit'.count + Forgotten
    BY <1>2, <1>6 DEF Accounted, Ongoing, Prior
  <2>1. passed.count \in Nat /\ Prior(passed) \in Int
    BY HistoryNumbers DEF WindowInv, Ongoing
  <2>2. limit'.count = limit.count + 1 /\ SameWindow(limit', limit)
    BY <1>3, <1>4
  <2> QED BY <1>5, <1>6, <2>1, <2>2 DEF WindowInv, Accounted, SameWindow
<1>8. WindowHolds'
  BY <1>2 DEF WindowInv, WindowHolds
<1> QED BY <1>2, <1>3, <1>7, <1>8 DEF WindowInv

LEMMA CrashKeepsWindowInv ==
  ASSUME WindowInv, Crash
  PROVE  WindowInv'
<1>1. /\ limit' = Loaded /\ crashes' = crashes + 1
      /\ UNCHANGED <<saved, now>>
      /\ passed' = IF passed # NoEntry /\ now = passed.resetAt THEN [passed EXCEPT !.max = 0]
                   ELSE passed
  BY DEF Crash, StoreLost
<1>2. /\ now \in Nat /\ crashes \in Nat /\ SaveEvery \in Nat \ {0}
      /\ limit \in Entries \union {NoEntry} /\ saved \in Entries \union {NoEntry}
      /\ passed \in Histories
  BY BoundsAssumption DEF WindowInv
<1>3. /\ Forgotten \in Nat /\ Forgotten' = Forgotten + (SaveEvery - 1)
      /\ Forgotten' \in Nat /\ Forgotten <= Forgotten'
  <2>1. Forgotten \in Nat /\ Forgotten' = Forgotten + (SaveEvery - 1)
    BY <1>1, <1>2, OneMoreRestart DEF Forgotten
  <2> HIDE DEF Forgotten
  <2> QED BY <1>2, <2>1
<1>4. /\ limit' = NoEntry \/ (limit' = saved /\ saved # NoEntry)
      /\ saved # NoEntry /\ now < saved.resetAt => limit' = saved
  <2>1. saved # NoEntry => saved.resetAt \in Nat
    BY <1>2 DEF Entries
  <2> QED BY <1>1, <1>2, <2>1 DEF Loaded
<1>5. SavedInTime'
  <2> SUFFICES ASSUME limit' # NoEntry
               PROVE  SameWindow(saved, limit') /\ limit'.count < saved.count + SaveEvery
    BY <1>1, <1>4 DEF SavedInTime
  <2>1. limit' = saved /\ saved.count \in Nat
    BY <1>2, <1>4 DEF Entries
  <2> QED BY <1>2, <2>1 DEF SameWindow
\* The history keeps its counts; in the last instant of its window its run ends.
<1>6. /\ passed' \in Histories /\ (passed' # NoEntry => passed # NoEntry)
      /\ passed # NoEntry => passed'.count = passed.count /\ passed'.allowed = passed.allowed
                             /\ passed'.resetAt = passed.resetAt
      /\ passed # NoEntry /\ now = passed.resetAt => passed'.max = 0
      /\ passed # NoEntry /\ now # passed.resetAt => passed' = passed
  <2>1. CASE passed # NoEntry /\ now = passed.resetAt
    <3>1. passed \in [count : Nat, resetAt : 0..(MaxTime + WindowMs),
                      max : Maxima \union {0}, allowed : Nat]
      BY <1>2, <2>1 DEF Histories
    <3>2. passed' = [passed EXCEPT !.max = 0]
      BY <1>1, <2>1
    <3> QED BY <2>1, <3>1, <3>2 DEF Histories
  <2>2. CASE ~(passed # NoEntry /\ now = passed.resetAt)
    BY <1>1, <1>2, <2>2
  <2> QED BY <2>1, <2>2
<1>7. ASSUME passed # NoEntry
      PROVE  /\ passed.count \in Nat /\ passed.resetAt \in Nat /\ passed.allowed \in Nat
             /\ Prior(passed) \in Int /\ passed.count <= passed.allowed + Forgotten
  BY <1>2, <1>7, HistoryNumbers DEF WindowInv, WindowHolds, Forgotten
<1>8. Accounted'
  <2> SUFFICES ASSUME Ongoing'
               PROVE  \/ passed'.count <= Prior(passed') + Forgotten'
                      \/ limit' # NoEntry /\ SameWindow(passed', limit')
                         /\ passed'.count <= Prior(passed') + limit'.count + Forgotten'
    BY DEF Accounted
  <2>1. passed # NoEntry /\ now <= passed.resetAt
    BY <1>1, <1>6 DEF Ongoing
  <2>2. CASE now = passed.resetAt
    <3>1. Prior(passed') = passed.allowed - 0 /\ passed'.count = passed.count
      BY <1>6, <2>1, <2>2 DEF Prior
    <3> HIDE DEF Forgotten
    <3> QED BY <1>3, <1>7, <2>1, <3>1
  <2>3. CASE now # passed.resetAt
    <3>1. passed' = passed
      BY <1>6, <2>1, <2>3
    <3>2. CASE passed.count <= Prior(passed) + Forgotten
      <4> HIDE DEF Forgotten
      <4>1. passed.count <= Prior(passed) + Forgotten'
        BY <1>3, <1>7, <2>1, <3>2
      <4> QED BY <3>1, <4>1
    <3>3. CASE /\ limit # NoEntry /\ SameWindow(passed, limit)
               /\ passed.count <= Prior(passed) + limit.count + Forgotten
      <4>1. limit.count \in Nat
        BY <1>2, <3>3 DEF Entries
      <4>2. CASE limit.count < SaveEvery
        <5> HIDE DEF Forgotten
        <5>1. passed.count <= Prior(passed) + Forgotten'
          BY <1>2, <1>3, <1>7, <2>1, <3>3, <4>1, <4>2
        <5> QED BY <3>1, <5>1
      <4>3. CASE saved # NoEntry /\ SameWindow(saved, limit) /\ limit.count < saved.count + SaveEvery
        <5>1. saved.count \in Nat /\ now < saved.resetAt /\ SameWindow(passed, saved)
          BY <1>2, <1>7, <2>1, <2>3, <3>3, <4>3 DEF Entries, SameWindow
        <5>2. limit' = saved
          BY <1>4, <4>3, <5>1
        <5> HIDE DEF Forgotten
        <5>3. passed.count <= Prior(passed) + saved.count + Forgotten'
          BY <1>2, <1>3, <1>7, <2>1, <3>3, <4>1, <4>3, <5>1
        <5> QED BY <3>1, <4>3, <5>1, <5>2, <5>3
      <4> QED BY <3>3, <4>2, <4>3 DEF WindowInv, SavedInTime
    <3> QED BY <2>1, <3>2, <3>3 DEF WindowInv, Accounted, Ongoing
  <2> QED BY <2>2, <2>3
<1>9. WindowHolds'
  <2> SUFFICES ASSUME passed' # NoEntry PROVE passed'.count <= passed'.allowed + Forgotten'
    BY DEF WindowHolds, Forgotten
  <2> HIDE DEF Forgotten
  <2>1. passed.count <= passed.allowed + Forgotten'
    BY <1>3, <1>6, <1>7
  <2> QED BY <1>6, <2>1
<1>10. limit' \in Entries \union {NoEntry} /\ crashes' \in 0..MaxCrashes
  BY <1>1, <1>2, <1>4, BoundsAssumption DEF WindowInv, Crash
<1> QED BY <1>1, <1>5, <1>6, <1>8, <1>9, <1>10 DEF WindowInv

LEMMA CleanupKeepsWindowInv ==
  ASSUME WindowInv, CleanupTimer
  PROVE  WindowInv'
<1>1. /\ limit' = NoEntry /\ saved' = NoEntry /\ now > limit.resetAt
      /\ UNCHANGED <<now, passed, crashes>>
  BY DEF CleanupTimer
<1>2. SavedInTime'
  BY <1>1 DEF SavedInTime
<1>3. Accounted'
  <2> SUFFICES ASSUME Ongoing PROVE passed.count <= Prior(passed) + Forgotten
    BY <1>1 DEF Accounted, Ongoing, Forgotten
  <2>1. limit # NoEntry => now \in Nat /\ limit.resetAt \in Nat
    BY DEF WindowInv, Entries
  <2>2. limit # NoEntry => ~SameWindow(passed, limit)
    BY <1>1, <2>1 DEF Ongoing, SameWindow
  <2> QED BY <2>2 DEF WindowInv, Accounted
<1> QED BY <1>1, <1>2, <1>3 DEF WindowInv, WindowHolds

LEMMA PassesKeepsWindowInv ==
  ASSUME WindowInv, Passes
  PROVE  WindowInv'
<1>1. /\ now' = now + 1 /\ UNCHANGED <<limit, saved, passed, crashes>>
      /\ now \in 0..MaxTime /\ now' \in 0..MaxTime
  BY BoundsAssumption DEF Passes, Tick, limiterVars, WindowInv
<1>2. Ongoing' => Ongoing
  BY <1>1, HistoryNumbers DEF Ongoing, WindowInv
<1>3. Accounted'
  BY <1>1, <1>2 DEF WindowInv, Accounted, Forgotten
<1> QED BY <1>1, <1>3 DEF WindowInv, SavedInTime, WindowHolds

LEMMA WindowStep ==
  ASSUME SessionInv, WindowInv, [Next]_vars
  PROVE  WindowInv'
<1>1. ASSUME UNCHANGED <<now, limiterVars, crashes>> PROVE WindowInv'
  BY <1>1 DEF limiterVars, WindowInv, SavedInTime, Accounted, Ongoing, WindowHolds, Forgotten
<1>2. ASSUME NEW c \in Calls, Arrive(c) PROVE WindowInv'
  <2>1. Path(c) \in DOMAIN MaxOf
    <3>1. PICK S : call \in [Calls -> Sessions(S)]
      BY DEF SessionInv, CallsTyped
    <3>2. call[c].intent \in Intents
      BY <3>1 DEF Sessions
    <3> QED BY <3>2, PathsAssumption DEF Path
  <2>2. UNCHANGED <<now, crashes>>
    BY <1>2 DEF Arrive
  <2>3. Limited(Path(c)) \/ UNCHANGED limiterVars \/ LetPast(Path(c))
    BY <1>2 DEF Arrive
  <2> QED BY <1>1, <2>1, <2>2, <2>3, LimitedKeepsWindowInv, LetPastKeepsWindowInv
<1>3. ASSUME NEW c \in Calls,
             Begin(c) \/ Unreachable(c) \/ GiveUp(c) \/ Pay(c) \/ PaymentThrows(c)
      PROVE  WindowInv'
  BY <1>1, <1>3 DEF Begin, Unreachable, GiveUp, Pay, PaymentThrows
<1>4. ASSUME NEW r \in serving, Verified(r) \/ NotVerified(r) \/ Succeed(r) \/ Fail(r)
      PROVE  WindowInv'
  BY <1>1, <1>4 DEF Verified, NotVerified, Succeed, Fail
<1>5. ASSUME Sweep \/ UNCHANGED vars PROVE WindowInv'
  BY <1>1, <1>5 DEF Sweep, SweepTimer, vars
<1> QED BY <1>2, <1>3, <1>4, <1>5, CleanupKeepsWindowInv, PassesKeepsWindowInv,
           CrashKeepsWindowInv DEF Next

LEMMA WindowInit == Init => WindowInv
<1> SUFFICES ASSUME Init PROVE WindowInv
  OBVIOUS
<1>1. /\ limit = NoEntry /\ saved = NoEntry /\ passed = NoEntry
      /\ now = 0 /\ crashes = 0
  BY DEF Init, IdempotencyInit
<1> QED BY <1>1, BoundsAssumption DEF WindowInv, SavedInTime, Accounted, Ongoing, WindowHolds, Histories

\* The limiter keeps what the maxima of the runs of requests allow, as long as windows
\* follow each other without a gap, up to SaveEvery - 1 requests for each restart,
\* however windows, maxima, saves and restarts fall.
THEOREM WindowNeverOverrun == Spec => []WindowHolds
<1>1. SessionInv /\ WindowInv /\ [Next]_vars => SessionInv' /\ WindowInv'
  BY SessionStep, WindowStep
<1>2. WindowInv => WindowHolds
  BY DEF WindowInv
<1> QED BY <1>1, <1>2, SessionInit, WindowInit, PTL DEF Spec

-----------------------------------------------------------------------------
\* The type invariant, with the store a Map.
THEOREM WellTyped == Spec => []TypeOK
<1>1. SessionInv /\ WindowInv /\ [Next]_vars => SessionInv' /\ WindowInv'
  BY SessionStep, WindowStep
<1>2. SessionInv /\ WindowInv => TypeOK
  <2> SUFFICES ASSUME SessionInv, WindowInv PROVE TypeOK
    OBVIOUS
  <2>1. store \in Seq(Records) /\ Distinct(store) /\ now \in 0..MaxTime
    BY DEF SessionInv, StoreInv
  <2>2. IsInjective([i \in DOMAIN store |-> store[i].key])
    BY <2>1 DEF IsInjective, Distinct
  <2>3. {limit, saved} \subseteq Windows /\ passed \in Histories
    BY DEF WindowInv, Entries, Windows
  <2>4. call \in [Calls -> Sessions(Statuses \union {"none"})]
    <3>1. PICK S : call \in [Calls -> Sessions(S)]
      BY DEF SessionInv, CallsTyped
    <3>2. \A c \in Calls : call[c].status \in Statuses \union {"none"}
      BY DEF SessionInv, Fits
    <3>3. \A c \in Calls : call[c] \in Sessions(Statuses \union {"none"})
      BY <3>1, <3>2 DEF Sessions
    <3>4. call = [c \in Calls |-> call[c]]
      BY <3>1
    <3> HIDE DEF Sessions
    <3> QED BY <3>3, <3>4
  <2>5. serving \subseteq Requests /\ crashes \in 0..MaxCrashes
    BY DEF SessionInv, Admitted, Sound, WindowInv
  <2> QED BY <2>1, <2>2, <2>3, <2>4, <2>5 DEF TypeOK, Records, Bodies, Requests, Sessions, Phases
<1> QED BY <1>1, <1>2, SessionInit, WindowInit, PTL DEF Spec
=============================================================================
