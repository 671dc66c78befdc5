------------------------------- MODULE Gateway -------------------------------
(***************************************************************************)
(* A request on its way in: the middlewares in the order src/app.ts mounts *)
(* them (rate limiter, x402, idempotency, HMAC), the handler, and the two  *)
(* SDKs that call it, with retries and payments.                           *)
(*                                                                         *)
(* A request waits twice: for the facilitator to verify a payment, and in  *)
(* its handler.  Everything between is one synchronous stretch.  All calls *)
(* come from one address, which is one entry of the rate limiter.  Clients *)
(* and service read one clock: a signature is late, never early.           *)
(***************************************************************************)
EXTENDS Idempotency, FiniteSets

CONSTANTS
  Calls,       \* calls of SDK methods
  Intents,     \* what they may ask: [path, key, body, sdk]
  Mixes,       \* what they may ask together: functions from Calls to Intents
  NoKey,       \* the call sends no Idempotency-Key
  NoBody,      \* the parsed body of a request whose Content-Type is not JSON
  Posts,       \* paths of mutating methods
  Priced,      \* paths in X402_PRICING
  Signed,      \* paths that HMAC_BYPASS_PATHS does not name
  WrittenOtherwise, \* bodies json.dumps writes otherwise: 100.0, a letter outside ASCII
  Bypass,      \* paths the rate limiter lets through uncounted
  MaxOf,       \* MaxOf[path]: the rate limiter's maximum there
  WindowMs,    \* windowMs, in ticks
  SkewMs,      \* skewMs, in ticks
  SaveEvery,   \* the limiter saves at every multiple of this count
  Retries,     \* retries of both SDKs
  MaxCrashes   \* bound: restarts of the service

ASSUME PathsAssumption ==
  /\ Mixes \subseteq [Calls -> Intents]
  /\ \A intent \in Intents : intent.path \in DOMAIN MaxOf /\ intent.sdk \in {"ts", "python"}
  /\ Posts \union Priced \union Signed \union Bypass \subseteq DOMAIN MaxOf
  \* The methods that take a key are those that HMAC_BYPASS_PATHS leaves out.
  /\ \A intent \in Intents :
       /\ intent.path \in Posts /\ intent.key # NoKey => intent.path \in Signed
       /\ intent.body # NoBody
ASSUME StatusesAssumption ==
  {"400", "401", "402", "409", "429", "500", "error", "none"} \cap DOMAIN MaxOf = {}
ASSUME BoundsAssumption ==
  /\ TTL \in Nat \ {0} /\ MaxStoreSize \in Nat \ {0} /\ MaxTime \in Nat
  /\ \A path \in DOMAIN MaxOf : MaxOf[path] \in Nat \ {0}
  /\ WindowMs \in Nat /\ SkewMs \in Nat /\ SaveEvery \in Nat \ {0} /\ Retries \in Nat /\ MaxCrashes \in Nat

VARIABLES
  limit,     \* the address's entry in globalClients: [count, resetAt, max]
  saved,     \* the entry in the limiter's file
  call,      \* call[c]: the SDK's loop
  serving,   \* requests in the service: [call, n, body, signed, stage]
  crashes,   \* restarts so far
  passed     \* (history) requests let past since no window was open, and what the
             \* maxima they were let past under allow: [count, resetAt, max, allowed]

limiterVars == <<limit, saved, passed>>
vars == <<store, now, limiterVars, call, serving, crashes>>

NoEntry == [count |-> 0]
Path(c) == call[c].intent.path
Key(c) == call[c].intent.key
Body(c) == call[c].intent.body
IsTs(c) == call[c].intent.sdk = "ts"

(***************************************************************************)
(* The SDKs.  Both try Retries + 1 times and pay when asked to.  The       *)
(* TypeScript client sends the proof with one request and is unpaid again  *)
(* in its next attempt; the Python client starts over with the proof and   *)
(* all its attempts.                                                       *)
(*                                                                         *)
(* The headers, and with them the signature's time, are built once for all *)
(* attempts, and anew for a proof.  What the TypeScript client builds for  *)
(* a proof lacks the Content-Type it gave the others: express.json leaves  *)
(* the body of that request unparsed.                                      *)
(***************************************************************************)
Is(c, phase) == call[c].phase = phase

\* X-Auth-Timestamp, of the paths where it is looked at.
Stamp(c) == IF Path(c) \in Signed THEN now ELSE 0

\* A method is called: the headers are built.
Begin(c) ==
  /\ Is(c, "new")
  /\ call' = [call EXCEPT ![c].phase = "ready", ![c].begun = Stamp(c), ![c].signed = Stamp(c)]
  /\ UNCHANGED <<store, now, limiterVars, serving, crashes>>

Ended(c, status) == [call EXCEPT ![c].phase = "over", ![c].status = status]

\* After an answer or an error that may be retried.
Again(c, status) ==
  IF call[c].attempt = Retries THEN Ended(c, status)
  ELSE [call EXCEPT ![c].phase = "ready", ![c].attempt = @ + 1,
                    ![c].proof = @ /\ ~IsTs(c), ![c].signed = call[c].begun]

\* Mutant: an answer of 402 is paid whether or not the request was.
AsksAgain(c) == TRUE

\* A client that has paid for this request does not pay for it again.
MayPay(c) == ~call[c].proof

Retryable == {"429", "500", "error"}

\* What a call that ends with this status throws.
errorFromResponse ==
  {<<"400", "ValidationError">>, <<"401", "AuthenticationError">>,
   <<"402", "PaymentRequiredError">>, <<"409", "IdempotencyError">>,
   <<"429", "RateLimitError">>, <<"500", "ServerError">>, <<"error", "ConnectionError">>}

Throws(c, error) == <<call[c].status, error>> \in errorFromResponse

Received(c, status) ==
  IF status = "402" /\ MayPay(c) THEN [call EXCEPT ![c].phase = "paying"]
  ELSE IF status \in Retryable THEN Again(c, status)
  ELSE Ended(c, status)

\* onPaymentRequired returned a proof.
Pay(c) ==
  /\ Is(c, "paying")
  /\ call' = [call EXCEPT ![c].phase = "ready", ![c].proof = TRUE,
                          ![c].payments = @ + 1, ![c].signed = Stamp(c),
                          ![c].attempt = IF IsTs(c) THEN @ ELSE 0,
                          ![c].begun = IF IsTs(c) THEN @ ELSE Stamp(c)]
  /\ UNCHANGED <<store, now, limiterVars, serving, crashes>>

\* It threw: the TypeScript client takes that for a lost connection.
PaymentThrows(c) ==
  /\ Is(c, "paying")
  /\ call' = IF IsTs(c) THEN Again(c, "error") ELSE Ended(c, "error")
  /\ UNCHANGED <<store, now, limiterVars, serving, crashes>>

\* The attempt's timer fires, or the connection is gone.
GiveUp(c) ==
  /\ Is(c, "waiting")
  /\ call' = Again(c, "error")
  /\ UNCHANGED <<store, now, limiterVars, serving, crashes>>

\* An answer to request n of a call: received if the client still waits for it
\* and it is not lost.
Answers(c, n, status) ==
  \/ Is(c, "waiting") /\ call[c].sent = n /\ call' = Received(c, status)
  \/ UNCHANGED call

(***************************************************************************)
(* rateLimiter.                                                            *)
(***************************************************************************)
OutOfWindow(entry, max) ==
  entry = NoEntry \/ now > entry.resetAt \/ entry.max # max

Counted(entry, max) ==
  IF OutOfWindow(entry, max) THEN [count |-> 1, resetAt |-> now + WindowMs, max |-> max]
  ELSE [entry EXCEPT !.count = @ + 1]

Over(entry) == entry.count > entry.max

\* saveRateLimitState, if this count calls for it.  The queued write runs before
\* the next request; SystemExposure is about writes that fail.
SavedAt(entry) == saved' = IF entry.count % SaveEvery = 0 THEN entry ELSE saved

\* The history goes on while the window of the last request let past is open.
Ongoing == passed # NoEntry /\ now <= passed.resetAt

\* What it allows on top for a request under this maximum: nothing, unless the
\* maximum is another than the last one's.
Allowance(max) == IF Ongoing /\ passed.max = max THEN 0 ELSE max

\* The request is counted, and let past or not.
LetPast(path) ==
  /\ limit' = Counted(limit, MaxOf[path])
  /\ ~Over(limit')
  /\ SavedAt(limit')
  /\ passed' = [count |-> (IF Ongoing THEN passed.count ELSE 0) + 1,
                resetAt |-> limit'.resetAt,
                max |-> MaxOf[path],
                allowed |-> (IF Ongoing THEN passed.allowed ELSE 0) + Allowance(MaxOf[path])]

Limited(path) ==
  /\ limit' = Counted(limit, MaxOf[path])
  /\ Over(limit')
  /\ SavedAt(limit')
  /\ UNCHANGED passed

\* The timer of five minutes, more than the minute it leaves between its saves.
CleanupTimer ==
  /\ limit # NoEntry
  /\ now > limit.resetAt
  /\ limit' = NoEntry
  /\ saved' = NoEntry
  /\ UNCHANGED <<store, now, passed, call, serving, crashes>>

(***************************************************************************)
(* idempotencyMiddleware and the handler behind it.  A 2xx is written as   *)
(* the path whose handler gave it; the refusals that are neither retried   *)
(* nor told apart are all "400".                                           *)
(***************************************************************************)
\* Mutant: a key is made up for a request that has none.
InsistsNever(c) == FALSE

InsistsOnKey(c) == Path(c) \in Posts /\ Key(c) = NoKey

Protected(c) == Path(c) \in Posts /\ Key(c) # NoKey

\* Mutant: a record answers for its key whatever the body.
ReplaysAny(r) ==
  IF InsistsOnKey(r.call) THEN {"400"}
  ELSE IF ~Protected(r.call) THEN {} ELSE {rec.answer : rec \in LiveRecords(Key(r.call))}

\* What the middleware answers by itself: a set of one status, or none.
MiddlewareAnswer(r) ==
  IF InsistsOnKey(r.call) THEN {"400"}
  ELSE IF ~Protected(r.call) THEN {}
  ELSE {IF rec.body = r.body THEN rec.answer ELSE "409" : rec \in LiveRecords(Key(r.call))}

(***************************************************************************)
(* hmacAuth, mounted behind the idempotency keys.  Both sides hash the     *)
(* body's JSON with sorted keys: the client the body it has, the service   *)
(* the one it parsed.  JSON.stringify writes both alike; json.dumps writes *)
(* 100.0 where the service has 100, and escapes letters outside ASCII.     *)
(***************************************************************************)
stringified(c) == [body |-> Body(c), byDumps |-> FALSE]

dumped(c) == [body |-> Body(c), byDumps |-> Body(c) \in WrittenOtherwise]

\* What X-Auth-Signature is made over: canonicalJson's text, or json.dumps's.
buildHeaders(c) == IF IsTs(c) THEN stringified(c) ELSE dumped(c)

canonicalJsonForAuth(body) == [body |-> body, byDumps |-> FALSE]

\* The signature is in time, and over the body the service has.
hmacAuth(r) ==
  \/ Path(r.call) \notin Signed
  \/ now - r.signed <= SkewMs /\ buildHeaders(r.call) = canonicalJsonForAuth(r.body)

\* What is answered before any handler runs: a set of one status, or none.
Refusal(r) ==
  IF MiddlewareAnswer(r) = {} /\ ~hmacAuth(r) THEN {"401"} ELSE MiddlewareAnswer(r)

\* settlementVerificationMiddleware, between x402Middleware and the keys, passes
\* this on; a proof that x402Middleware has not verified it would have verified.
SettledOrFree(c, x402Verified) ==
  x402Verified \/ ~call[c].proof \/ Path(c) \notin Priced

\* From idempotencyMiddleware to the handler's first await.
Enter(r, others) ==
  /\ store' = IF Protected(r.call) THEN StoreAfterGet(Key(r.call)) ELSE store
  /\ serving' = IF Refusal(r) = {} THEN others \union {[r EXCEPT !.stage = "handling"]}
                ELSE others

Sent(c) == call[c].sent + 1

\* What express.json leaves in req.body.
Parsed(c) == IF IsTs(c) /\ call[c].proof /\ Path(c) \in Posts THEN NoBody ELSE Body(c)

Request(c) == [call |-> c, n |-> Sent(c), body |-> Parsed(c), signed |-> call[c].signed,
               stage |-> "verifying"]

Send(c) == [call EXCEPT ![c].phase = "waiting", ![c].sent = Sent(c)]

\* A request answered without an await.
AnsweredAtOnce(c, status) == [Received(c, status) EXCEPT ![c].sent = Sent(c)]

\* A request and what the service does with it at once: rateLimiter,
\* x402Middleware, and what is behind them.
Arrive(c) ==
  /\ Is(c, "ready")
  /\ \/ /\ Path(c) \notin Bypass
        /\ Limited(Path(c))
        /\ call' = AnsweredAtOnce(c, "429")
        /\ UNCHANGED <<store, serving>>
     \/ /\ IF Path(c) \in Bypass THEN UNCHANGED limiterVars ELSE LetPast(Path(c))
        /\ \/ /\ Path(c) \in Priced /\ ~call[c].proof
              /\ call' = AnsweredAtOnce(c, "402")
              /\ UNCHANGED <<store, serving>>
           \/ /\ Path(c) \in Priced /\ call[c].proof
              /\ call' = Send(c)
              /\ serving' = serving \union {Request(c)}
              /\ UNCHANGED store
           \/ /\ Path(c) \notin Priced
              /\ SettledOrFree(c, FALSE)
              /\ Enter(Request(c), serving)
              /\ \/ Refusal(Request(c)) = {} /\ call' = Send(c)
                 \/ \E status \in Refusal(Request(c)) : call' = AnsweredAtOnce(c, status)
  /\ UNCHANGED <<now, crashes>>

\* The request or its immediate answer never got there.
Unreachable(c) ==
  /\ Is(c, "ready")
  /\ call' = [Again(c, "error") EXCEPT ![c].sent = @ + 1]
  /\ UNCHANGED <<store, now, limiterVars, serving, crashes>>

\* The facilitator calls the payment valid: on to the rest of the middlewares.
Verified(r) ==
  LET answer == Refusal(r)
  IN  /\ r.stage = "verifying"
      /\ SettledOrFree(r.call, TRUE)
      /\ Enter(r, serving \ {r})
      /\ IF answer = {} THEN UNCHANGED call
         ELSE \E status \in answer : Answers(r.call, r.n, status)
      /\ UNCHANGED <<now, limiterVars, crashes>>

\* It calls it invalid, fails, or takes longer than five seconds.
NotVerified(r) ==
  /\ r.stage = "verifying"
  /\ serving' = serving \ {r}
  /\ Answers(r.call, r.n, "402")
  /\ UNCHANGED <<store, now, limiterVars, crashes>>

\* The handler answers 2xx, which the wrapped res.json records.
Succeed(r) ==
  /\ r.stage = "handling"
  /\ serving' = serving \ {r}
  /\ IF Protected(r.call)
     THEN setIdempotencyRecord(Key(r.call), r.body, Path(r.call))
     ELSE UNCHANGED store
  /\ Answers(r.call, r.n, Path(r.call))
  /\ UNCHANGED <<now, limiterVars, crashes>>

\* The handler refuses the request, or fails.
Fail(r) ==
  /\ r.stage = "handling"
  /\ serving' = serving \ {r}
  /\ \E status \in {"400", "500"} : Answers(r.call, r.n, status)
  /\ UNCHANGED <<store, now, limiterVars, crashes>>

(***************************************************************************)
(* Time and restarts.                                                      *)
(***************************************************************************)
Passes == Tick /\ UNCHANGED <<limiterVars, call, serving, crashes>>

Sweep == SweepTimer /\ store # <<>> /\ UNCHANGED <<limiterVars, call, serving, crashes>>

\* Mutant: a restart takes up the window but not its count.
LoadedAnew ==
  IF saved # NoEntry /\ saved.resetAt > now THEN [saved EXCEPT !.count = 0] ELSE NoEntry

\* loadRateLimitState.  It drops the window in its last instant, in which the limiter
\* still counts: the history allows the next request another maximum.
Loaded == IF saved # NoEntry /\ saved.resetAt > now THEN saved ELSE NoEntry

Crash ==
  /\ crashes < MaxCrashes
  /\ crashes' = crashes + 1
  /\ StoreLost
  /\ limit' = Loaded
  /\ serving' = {}
  /\ passed' = IF passed # NoEntry /\ now = passed.resetAt THEN [passed EXCEPT !.max = 0]
               ELSE passed
  /\ UNCHANGED <<saved, call>>

Init ==
  /\ IdempotencyInit
  /\ limit = NoEntry /\ saved = NoEntry /\ passed = NoEntry
  /\ \E intents \in Mixes :
       call = [c \in Calls |-> [phase |-> "new", intent |-> intents[c], attempt |-> 0,
                                begun |-> 0, signed |-> 0, sent |-> 0, proof |-> FALSE, payments |-> 0,
                                status |-> "none"]]
  /\ serving = {}
  /\ crashes = 0

Next ==
  \/ \E c \in Calls : Begin(c) \/ Arrive(c) \/ Unreachable(c) \/ GiveUp(c) \/ Pay(c) \/ PaymentThrows(c)
  \/ \E r \in serving : Verified(r) \/ NotVerified(r) \/ Succeed(r) \/ Fail(r)
  \/ CleanupTimer \/ Sweep \/ Passes \/ Crash

Spec == Init /\ [][Next]_vars

(***************************************************************************)
(* Properties.                                                             *)
(***************************************************************************)
Statuses == {"400", "401", "402", "409", "429", "500", "error"} \union DOMAIN MaxOf
Maxima == {MaxOf[path] : path \in DOMAIN MaxOf}
Windows == {NoEntry} \union [count : Nat, resetAt : 0..(MaxTime + WindowMs), max : Maxima]
Histories == {NoEntry} \union [count : Nat, resetAt : 0..(MaxTime + WindowMs),
                              max : Maxima \union {0}, allowed : Nat]

\* Every variable has its type; the store is a Map, no key of which has two records,
\* whichever requests under it finish in whichever order.
TypeOK ==
  /\ store \in Seq([key : {intent.key : intent \in Intents} \ {NoKey},
                    body : {intent.body : intent \in Intents},
                    answer : Posts, expiresAt : 0..(MaxTime + TTL)])
  /\ IsInjective([i \in DOMAIN store |-> store[i].key])
  /\ now \in 0..MaxTime
  /\ {limit, saved} \subseteq Windows
  /\ passed \in Histories
  /\ call \in [Calls -> [phase : {"new", "ready", "waiting", "paying", "over"}, intent : Intents,
                         attempt : 0..Retries, begun : 0..MaxTime, signed : 0..MaxTime, sent : Nat, proof : BOOLEAN,
                         payments : Nat, status : Statuses \union {"none"}]]
  /\ serving \subseteq [call : Calls, n : Nat,
                       body : {intent.body : intent \in Intents} \union {NoBody},
                       signed : 0..MaxTime, stage : {"verifying", "handling"}]
  /\ crashes \in 0..MaxCrashes

\* As long as windows follow each other without a gap, the limiter lets past no more
\* requests than the maximum of each run of requests under one maximum, and fewer
\* than SaveEvery more for each restart, whichever entry of whichever window and
\* maximum the restart found in the file.  A change of the maximum starts the count
\* over, and so does a restart in the last instant of a window.
WindowHolds ==
  passed # NoEntry => passed.count <= passed.allowed + crashes * (SaveEvery - 1)

\* However retries, payments, refused payments and timeouts fall, a call sends at
\* most 2 * (Retries + 1) requests; the TypeScript client pays at most once an
\* attempt, the Python client at most once.
PaymentsBounded ==
  \A c \in Calls :
    /\ call[c].sent <= 2 * (Retries + 1)
    /\ call[c].payments <= IF IsTs(c) THEN call[c].attempt + 1 ELSE 1

(***************************************************************************)
(* A call that succeeds was served on its own signature or, since the      *)
(* store knows no path and comes before the signature is looked at, got    *)
(* what was recorded of a signed call with the same key and body; never an *)
(* answer to another body, however the two raced.                          *)
(* It throws IdempotencyError only if another call used its key, for       *)
(* another body or before this TypeScript call paid; AuthenticationError   *)
(* only from Python, for an amount like 100.0, from TypeScript, for a POST *)
(* with a price, or once the signature it repeats has become too old.      *)
(***************************************************************************)
PaidUnparsed(c) == IsTs(c) /\ Path(c) \in Posts \cap Priced

SignedOtherwise(c) == ~IsTs(c) /\ Body(c) \in WrittenOtherwise

AnswersAreOwn ==
  \A c \in Calls :
    LET SameKey(d) == Key(c) # NoKey /\ Key(d) = Key(c)
        Admits(d) == Path(d) \in Signed => ~PaidUnparsed(d) /\ ~SignedOtherwise(d)
    IN  /\ call[c].status \in DOMAIN MaxOf =>
             \/ call[c].status = Path(c) /\ Admits(c)
             \/ \E d \in Calls \ {c} : /\ SameKey(d) /\ Body(d) = Body(c)
                                     /\ Admits(d) /\ Path(d) = call[c].status
        /\ Throws(c, "IdempotencyError") =>
             \E d \in Calls \ {c} : SameKey(d) /\ (Body(d) # Body(c) \/ PaidUnparsed(c))
        /\ Throws(c, "AuthenticationError") =>
             PaidUnparsed(c) \/ SignedOtherwise(c) \/ now - call[c].signed > SkewMs

\* The SDKs send some POSTs without an Idempotency-Key (checkCounterparty,
\* estimateCredit, and the writes whose caller gives none).  None of them ever
\* succeeds, paid for or not.
KeylessPostsRefused ==
  \A c \in Calls : Path(c) \in Posts /\ Key(c) = NoKey => call[c].status \notin DOMAIN MaxOf
=============================================================================
