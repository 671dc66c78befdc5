------------------------------ MODULE WritePath ------------------------------
(***************************************************************************)
(* A mutating call from end to end.                                        *)
(*                                                                         *)
(*   client   request() of sdk/src/index.ts: one key, one body, a timeout  *)
(*            per attempt and a bounded number of retries;                 *)
(*   server   idempotencyMiddleware, then hmacAuth, then the POST          *)
(*            /delegate or POST /revoke handler of src/app.ts over         *)
(*            delegate() and revoke() of src/registry.ts;                  *)
(*   wallet   submitApplicationCall of src/lib/operator-wallet.ts, whose   *)
(*            timeouts do not cancel what they gave up on;                 *)
(*   chain    external: a node accepts a transaction at most once.         *)
(*                                                                         *)
(* The middleware looks a key up when a request arrives and records its    *)
(* answer when the handler ends, several awaits later.  In between the     *)
(* client may time out and send the same key again, another client may use *)
(* the key for another body, records may expire or be evicted, and the     *)
(* process may die.                                                        *)
(***************************************************************************)
EXTENDS Idempotency, FiniteSets

CONSTANTS
  Calls,       \* calls of the SDK's users
  KeyOf,       \* KeyOf[c]: the Idempotency-Key of call c
  BodyOf,      \* BodyOf[c]: its body, the sponsor, agent and amount
  OpOf,        \* OpOf[c]: its endpoint, "delegate" or "revoke"
  SkewMs,      \* how long the HMAC signature of a call is accepted, in ticks
  Retries,     \* Retries[c]: the retries option of the client that makes c
  NoTx,        \* "no transaction", in answers that carry none
  MaxRound,    \* bound: the chain's rounds
  MaxCrashes   \* bound: restarts of the service

VARIABLES
  call,      \* call[c]: [phase, attempt, signedAt, answer], the client's side
  inbox,     \* requests sent and not yet arrived: <<call, attempt>>
  serving,   \* serving[r]: stage and transaction of a request in its handler
  wire,      \* transactions on the way to the node: [req, tx]
  accepted,  \* transactions the node accepted
  round,     \* the chain's round
  crashes,   \* restarts so far
  ackUntil   \* (history) until when the newest 2xx given out under a key
             \* is on record; 0 when it never was or was legitimately dropped

ASSUME ClientsAssumption ==
  /\ OpOf \in [Calls -> {"delegate", "revoke"}]
  /\ Retries \in [Calls -> Nat]
ASSUME BoundsAssumption ==
  /\ TTL \in Nat /\ MaxStoreSize \in Nat \ {0} /\ MaxTime \in Nat
  /\ SkewMs \in Nat /\ MaxRound \in Nat /\ MaxCrashes \in Nat

clientVars == <<call, inbox>>
chainVars == <<wire, accepted, round>>
vars == <<idempotencyVars, clientVars, serving, chainVars, crashes, ackUntil>>

Keys == {KeyOf[c] : c \in Calls}
Bodies == {BodyOf[c] : c \in Calls}
Requests == UNION {{c} \X (0..Retries[c]) : c \in Calls}
Txs == [op : {"delegate", "revoke"}, body : Bodies, round : 0..MaxRound]
Answers == [status : {200, 201, 401, 409, 500}, tx : Txs \union {NoTx}]

Submitted(tx) == [status |-> IF tx.op = "delegate" THEN 201 ELSE 200, tx |-> tx]
Conflict == [status |-> 409, tx |-> NoTx]
Unauthorized == [status |-> 401, tx |-> NoTx]
ServerError == [status |-> 500, tx |-> NoTx]
NoAnswer == [status |-> 0, tx |-> NoTx]

Success(answer) == answer.status \in 200..299
Retryable(answer) == answer.status \in {408, 429, 500, 502, 503, 504}

(***************************************************************************)
(* The client.  The headers, with the key and the HMAC timestamp, are      *)
(* built once; a failed attempt is sent again with the same headers until  *)
(* the attempts are used up.                                               *)
(***************************************************************************)
Send(c) ==
  LET first == call[c].phase = "idle"
      attempt == IF first THEN 0 ELSE call[c].attempt + 1
  IN  /\ call[c].phase \in {"idle", "backoff"}
      /\ call' = [call EXCEPT ![c].phase = "waiting",
                              ![c].attempt = attempt,
                              ![c].signedAt = IF first THEN now ELSE @]
      /\ inbox' = inbox \union {<<c, attempt>>}
      /\ UNCHANGED <<idempotencyVars, serving, chainVars, crashes, ackUntil>>

\* Mutant: one attempt too many.
RetryOnceMore(c) ==
  [call[c] EXCEPT !.phase = IF call[c].attempt <= Retries[c] THEN "backoff" ELSE "threw"]

\* Mutant: the attempts are not counted.
RetryForever(c) == [call[c] EXCEPT !.phase = "backoff", !.attempt = 0]

\* The catch branch: sleep and go round again, or throw the last error.
RetryOrThrow(c) ==
  [call[c] EXCEPT !.phase = IF call[c].attempt < Retries[c] THEN "backoff" ELSE "threw"]

\* The client has read an answer to the attempt it is waiting on.
Received(c, answer) ==
  IF Success(answer) THEN [call[c] EXCEPT !.phase = "returned", !.answer = answer]
  ELSE IF Retryable(answer) THEN RetryOrThrow(c)
  ELSE [call[c] EXCEPT !.phase = "threw", !.answer = answer]

\* The timeout aborts the fetch, or the connection broke.  The server is not
\* told: it goes on with the request if it has it, and the request may still
\* arrive if it has not.
AttemptFails(c) ==
  /\ call[c].phase = "waiting"
  /\ call' = [call EXCEPT ![c] = RetryOrThrow(c)]
  /\ UNCHANGED <<idempotencyVars, inbox, serving, chainVars, crashes, ackUntil>>

(***************************************************************************)
(* The answer to request r reaches the client if it still waits on that    *)
(* attempt, whole or with its body cut off, or it is lost.  The client     *)
(* takes a body it cannot read for {} and goes by the status alone.        *)
(***************************************************************************)
Answer(r, answer) ==
  LET c == r[1]
  IN  \/ /\ call[c].phase = "waiting" /\ call[c].attempt = r[2]
         /\ \E read \in {answer, [answer EXCEPT !.tx = NoTx]} :
              call' = [call EXCEPT ![c] = Received(c, read)]
      \/ UNCHANGED call

(***************************************************************************)
(* Arrival: idempotencyMiddleware; on a miss hmacAuth; then the handler up *)
(* to its first await, the wallet's getTransactionParams.                  *)
(***************************************************************************)
Idle == [stage |-> "none", tx |-> NoTx]

\* Mutant: the body hash is not compared.
ReplayAny(r) ==
  \E rec \in LiveRecords(KeyOf[r[1]]) :
    /\ Answer(r, rec.answer)
    /\ UNCHANGED serving

Replay(r) ==
  \E rec \in LiveRecords(KeyOf[r[1]]) :
    /\ rec.body = BodyOf[r[1]]
    /\ Answer(r, rec.answer)
    /\ UNCHANGED serving

Refuse(r) ==
  \E rec \in LiveRecords(KeyOf[r[1]]) :
    /\ rec.body # BodyOf[r[1]]
    /\ Answer(r, Conflict)
    /\ UNCHANGED serving

\* Every attempt of a call carries the timestamp of the first.
Authorized(r) == now - call[r[1]].signedAt <= SkewMs

\* The signature is too old: 401, which the client does not retry.
Reject(r) ==
  /\ LiveRecords(KeyOf[r[1]]) = {}
  /\ ~Authorized(r)
  /\ Answer(r, Unauthorized)
  /\ UNCHANGED serving

\* Mutant: the key is not looked up.
ExecuteAlways(r) ==
  /\ serving' = [serving EXCEPT ![r] = [stage |-> "params", tx |-> NoTx]]
  /\ UNCHANGED call

Execute(r) ==
  /\ LiveRecords(KeyOf[r[1]]) = {}
  /\ Authorized(r)
  /\ serving' = [serving EXCEPT ![r] = [stage |-> "params", tx |-> NoTx]]
  /\ UNCHANGED call

Arrive(r) ==
  /\ r \in inbox
  /\ inbox' = inbox \ {r}
  /\ store' = StoreAfterGet(KeyOf[r[1]])
  /\ Replay(r) \/ Refuse(r) \/ Reject(r) \/ Execute(r)
  /\ UNCHANGED <<now, chainVars, crashes, ackUntil>>

(***************************************************************************)
(* submitApplicationCall.                                                  *)
(***************************************************************************)
At(r, stage) == serving[r].stage = stage

\* The parameters are in: sign, and hand the transaction to sendRawTransaction.
\* The signed bytes depend on the arguments and on the round of the parameters.
SignAndSend(r) ==
  LET tx == [op |-> OpOf[r[1]], body |-> BodyOf[r[1]], round |-> round]
  IN  /\ At(r, "params")
      /\ serving' = [serving EXCEPT ![r] = [stage |-> "sending", tx |-> tx]]
      /\ wire' = wire \union {[req |-> r, tx |-> tx]}
      /\ UNCHANGED <<idempotencyVars, clientVars, accepted, round, crashes, ackUntil>>

\* The node has the transaction; its answer is on the way or the wallet polls
\* for confirmation.  The polls change nothing but the answer's status field,
\* "confirmed" or "pending".
NodeHasIt(r) == At(r, "taken")

(***************************************************************************)
(* The end of the handler.  res.json was wrapped by the middleware: a 2xx  *)
(* is recorded under the key before it is sent.                            *)
(***************************************************************************)
Finish(r) ==
  LET key == KeyOf[r[1]]
      answer == Submitted(serving[r].tx)
  IN  /\ NodeHasIt(r)
      /\ serving' = [serving EXCEPT ![r] = Idle]
      /\ setIdempotencyRecord(key, BodyOf[r[1]], answer)
      /\ ackUntil' = [ackUntil EXCEPT ![key] = now + TTL]
      /\ Answer(r, answer)
      /\ UNCHANGED <<now, inbox, chainVars, crashes>>

\* Where the wallet may give up: a withTimeout fires or algod throws.
GivesUpAt(r) == \E stage \in {"params", "sending", "taken", "rejected"} : At(r, stage)

\* The wallet returns null, delegate() throws and the handler answers 500,
\* which is not recorded.  What sendRawTransaction had under way stays on the
\* wire.
Fail(r) ==
  /\ GivesUpAt(r)
  /\ serving' = [serving EXCEPT ![r] = Idle]
  /\ Answer(r, ServerError)
  /\ UNCHANGED <<idempotencyVars, inbox, chainVars, crashes, ackUntil>>

(***************************************************************************)
(* The chain (external).  A node refuses a transaction it already has.     *)
(***************************************************************************)
Land(m) ==
  LET fresh == m.tx \notin accepted
      waiting == At(m.req, "sending") /\ serving[m.req].tx = m.tx
  IN  /\ m \in wire
      /\ wire' = wire \ {m}
      /\ accepted' = accepted \union {m.tx}
      /\ serving' = IF waiting
                    THEN [serving EXCEPT ![m.req].stage = IF fresh THEN "taken" ELSE "rejected"]
                    ELSE serving
      /\ UNCHANGED <<idempotencyVars, clientVars, round, crashes, ackUntil>>

NewRound ==
  /\ round < MaxRound
  /\ round' = round + 1
  /\ UNCHANGED <<idempotencyVars, clientVars, serving, wire, accepted, crashes, ackUntil>>

(***************************************************************************)
(* Time, the sweep, and restarts.                                          *)
(***************************************************************************)
Passes ==
  /\ Tick
  /\ UNCHANGED <<clientVars, serving, chainVars, crashes, ackUntil>>

\* A live record that the overflow eviction drops is gone before its time.
Sweep ==
  /\ SweepTimer
  /\ ackUntil' = [k \in Keys |-> IF \E i \in DOMAIN store' : store'[i].key = k
                                 THEN ackUntil[k] ELSE 0]
  /\ UNCHANGED <<clientVars, serving, chainVars, crashes>>

Crash ==
  /\ crashes < MaxCrashes
  /\ crashes' = crashes + 1
  /\ StoreLost
  /\ serving' = [r \in Requests |-> Idle]
  /\ ackUntil' = [k \in Keys |-> 0]
  /\ UNCHANGED <<clientVars, chainVars>>

Init ==
  /\ IdempotencyInit
  /\ call = [c \in Calls |-> [phase |-> "idle", attempt |-> 0,
                            signedAt |-> 0, answer |-> NoAnswer]]
  /\ inbox = {}
  /\ serving = [r \in Requests |-> Idle]
  /\ wire = {}
  /\ accepted = {}
  /\ round = 0
  /\ crashes = 0
  /\ ackUntil = [k \in Keys |-> 0]

ServerStep(r) == SignAndSend(r) \/ Finish(r) \/ Fail(r)

Next ==
  \/ \E c \in Calls : Send(c) \/ AttemptFails(c)
  \/ \E r \in Requests : Arrive(r)
  \/ \E r \in Requests : SignAndSend(r) \/ Finish(r) \/ Fail(r)
  \/ \E m \in wire : Land(m)
  \/ NewRound \/ Passes \/ Sweep \/ Crash

Spec == Init /\ [][Next]_vars

(***************************************************************************)
(* The client's timers fire, and the wallet's timeouts and polls do; the   *)
(* network and the chain owe nothing.                                      *)
(***************************************************************************)
Fairness ==
  /\ \A c \in Calls : WF_vars(call[c].phase = "backoff" /\ Send(c)) /\ WF_vars(AttemptFails(c))
  /\ \A r \in Requests : WF_vars(ServerStep(r))

FairSpec == Spec /\ Fairness

(***************************************************************************)
(* Properties.                                                             *)
(***************************************************************************)
Records == [key : Keys, body : Bodies, answer : Answers, expiresAt : Nat]

\* Every variable has its type.
TypeOK ==
  /\ store \in Seq(Records)
  /\ now \in 0..MaxTime
  /\ call \in [Calls -> [phase   : {"idle", "waiting", "backoff", "returned", "threw"},
                         attempt : Nat, signedAt : 0..MaxTime,
                         answer  : Answers \union {NoAnswer}]]
  /\ \A c \in Calls : call[c].attempt <= Retries[c]
  /\ inbox \subseteq Requests
  /\ serving \in [Requests -> [stage : {"none", "params", "sending", "taken",
                                        "rejected"},
                               tx    : Txs \union {NoTx}]]
  /\ wire \subseteq [req : Requests, tx : Txs]
  /\ accepted \subseteq Txs
  /\ round \in 0..MaxRound
  /\ crashes \in 0..MaxCrashes
  /\ ackUntil \in [Keys -> Nat]

\* A call that returned with a body, freshly executed or replayed, names a
\* transaction that the chain accepted and that carries this call's own body,
\* even when another body raced it under the same key.  The store knows no
\* endpoint, so the transaction may be what another call with the same key and
\* body asked for at the other endpoint, and nothing else.
SuccessIsGenuine ==
  \A c \in Calls :
    LET tx == call[c].answer.tx
    IN  call[c].phase = "returned" /\ tx # NoTx =>
          /\ tx \in accepted
          /\ tx.body = BodyOf[c]
          /\ \E d \in Calls : KeyOf[d] = KeyOf[c] /\ BodyOf[d] = BodyOf[c] /\ OpOf[d] = tx.op

\* Once a 2xx has been given out under a key, no request with that key reaches
\* the wallet again until the record expires, is evicted by the overflow trim or
\* is lost in a restart, however many requests were in flight before it.
NoReexecutionOnRecord ==
  [][\A r \in Requests :
       At(r, "none") /\ serving'[r].stage # "none" => now >= ackUntil[KeyOf[r[1]]]]_vars

\* Every call ends, with an answer or with an error after its last attempt; and no
\* request stays in its handler for ever, whatever algod does, with every await of
\* the wallet under withTimeout.
CallsAndHandlersEnd ==
  /\ \A c \in Calls : call[c].phase = "waiting" ~> call[c].phase \in {"returned", "threw"}
  /\ \A r \in Requests : ~At(r, "none") ~> At(r, "none")

\* "The Idempotency-Key middleware makes mutating calls safe to retry"
\* (docs/operations.md:186): the attempts of one call put at most one
\* transaction on the chain.
SafeToRetry ==
  \A c \in Calls :
    (\A d \in Calls \ {c} : BodyOf[d] # BodyOf[c])
      => Cardinality({tx \in accepted : tx.body = BodyOf[c]}) <= 1
=============================================================================
