--------------------------- MODULE WritePathProofs ---------------------------
(***************************************************************************)
(* Proofs about a mutating call, for any calls, keys, bodies, numbers of   *)
(* retries, times to live and restarts.                                    *)
(*                                                                         *)
(* What a call is answered with comes out of the store or out of a         *)
(* handler, so both must only hold what the chain accepted: a handler gets *)
(* to its end only with a transaction of its own that landed, and what it  *)
(* records is that.  A key is not executed again for as long as its        *)
(* newest record lives, because the operations of the store leave it there.*)
(***************************************************************************)
EXTENDS WritePath, CollectionProofs

Phases == {"idle", "waiting", "backoff", "returned", "threw"}
ClientTypes == [phase : Phases, attempt : Nat, signedAt : 0..MaxTime,
                answer : Answers \cup {NoAnswer}]
Stages == {"none", "params", "sending", "taken", "rejected"}
HandlerTypes == [stage : Stages, tx : Txs \cup {NoTx}]

\* What the chain has of a call, under its key.
AskedFor(key, body, op) == \E d \in Calls : KeyOf[d] = key /\ BodyOf[d] = body /\ OpOf[d] = op

Bears(key, body, tx) ==
  tx \in accepted /\ tx.body = body /\ AskedFor(key, body, tx.op)

ClientInv ==
  /\ call \in [Calls -> ClientTypes]
  /\ \A c \in Calls : call[c].attempt <= Retries[c]
  /\ \A c \in Calls : call[c].phase = "backoff" => call[c].attempt < Retries[c]
  /\ \A c \in Calls : call[c].phase = "returned" /\ call[c].answer.tx # NoTx =>
       Bears(KeyOf[c], BodyOf[c], call[c].answer.tx)

Own(r, tx) == tx \in Txs /\ tx.op = OpOf[r[1]] /\ tx.body = BodyOf[r[1]]

HandlerInv ==
  /\ serving \in [Requests -> HandlerTypes]
  /\ wire \subseteq [req : Requests, tx : Txs]
  /\ \A m \in wire : Own(m.req, m.tx)
  /\ \A r \in Requests : serving[r].stage \in {"sending", "taken", "rejected"} =>
       Own(r, serving[r].tx)
  /\ \A r \in Requests : At(r, "taken") => serving[r].tx \in accepted

Genuine(rec) ==
  rec.answer = Submitted(rec.answer.tx) /\ Bears(rec.key, rec.body, rec.answer.tx)

StoreInv ==
  /\ store \in Seq(Records)
  /\ Distinct(store)
  /\ \A rec \in ToSet(store) : Genuine(rec)

\* The newest 2xx given out under a key is on record for as long as it should be.
AckInv ==
  /\ ackUntil \in [Keys -> Nat]
  /\ \A k \in Keys : now < ackUntil[k] =>
       \E rec \in ToSet(store) : rec.key = k /\ rec.expiresAt = ackUntil[k]

BoundsInv ==
  /\ now \in 0..MaxTime
  /\ inbox \subseteq Requests
  /\ accepted \subseteq Txs
  /\ round \in 0..MaxRound
  /\ crashes \in 0..MaxCrashes

WInv == ClientInv /\ HandlerInv /\ StoreInv /\ AckInv /\ BoundsInv

-----------------------------------------------------------------------------
(* Calls and answers *)

LEMMA RequestsAre ==
  ASSUME NEW r \in Requests
  PROVE  /\ r[1] \in Calls /\ r[2] \in 0..Retries[r[1]]
         /\ KeyOf[r[1]] \in Keys /\ BodyOf[r[1]] \in Bodies
BY DEF Requests, Keys, Bodies

LEMMA RequestOf ==
  ASSUME NEW c \in Calls, NEW attempt \in 0..Retries[c]
  PROVE  <<c, attempt>> \in Requests
BY DEF Requests

LEMMA AnswersAre ==
  /\ Conflict \in Answers /\ ~Success(Conflict)
  /\ Unauthorized \in Answers /\ ~Success(Unauthorized)
  /\ ServerError \in Answers /\ ~Success(ServerError)
  /\ \A tx \in Txs : Submitted(tx) \in Answers /\ Submitted(tx).tx = tx
BY DEF Conflict, Unauthorized, ServerError, Answers, Success, Submitted

\* An answer keeps the client's promises if it is true, whole or cut off.
LEMMA AnswerKeepsClientInv ==
  ASSUME ClientInv, NEW r \in Requests, NEW answer \in Answers,
         Success(answer) /\ answer.tx # NoTx => Bears(KeyOf[r[1]], BodyOf[r[1]], answer.tx),
         Answer(r, answer), accepted' = accepted
  PROVE  ClientInv'
<1> DEFINE c == r[1]
<1>1. c \in Calls
  BY RequestsAre
<1>2. \A key, body, tx : Bears(key, body, tx)' <=> Bears(key, body, tx)
  BY DEF Bears, AskedFor
<1>3. CASE UNCHANGED call
  BY <1>2, <1>3 DEF ClientInv
<1>4. CASE call[c].phase = "waiting" /\ \E read \in {answer, [answer EXCEPT !.tx = NoTx]} :
             call' = [call EXCEPT ![c] = Received(c, read)]
  <2>1. PICK read \in {answer, [answer EXCEPT !.tx = NoTx]} :
          call' = [call EXCEPT ![c] = Received(c, read)]
    BY <1>4
  <2>2. read \in Answers /\ read.status = answer.status
    BY DEF Answers
  <2>3. Success(read) /\ read.tx # NoTx => Bears(KeyOf[c], BodyOf[c], read.tx)
    BY <2>2 DEF Success, Answers
  <2>4. call[c] \in ClientTypes /\ call[c].attempt <= Retries[c] /\ Retries[c] \in Nat
    BY <1>1, ClientsAssumption DEF ClientInv
  <2>5. /\ RetryOrThrow(c) \in ClientTypes
        /\ RetryOrThrow(c).attempt = call[c].attempt
        /\ RetryOrThrow(c).phase \in {"backoff", "threw"}
        /\ RetryOrThrow(c).phase = "backoff" => call[c].attempt < Retries[c]
    BY <2>4 DEF RetryOrThrow, ClientTypes, Phases
  <2>6. /\ Received(c, read) \in ClientTypes
        /\ Received(c, read).attempt = call[c].attempt
        /\ Received(c, read).phase = "backoff" => call[c].attempt < Retries[c]
        /\ Received(c, read).phase = "returned" =>
             Success(read) /\ Received(c, read).answer = read
    <3>1. CASE Success(read)
      BY <2>2, <2>4, <3>1 DEF Received, ClientTypes, Phases
    <3>2. CASE ~Success(read) /\ Retryable(read)
      BY <2>5, <3>2 DEF Received
    <3>3. CASE ~Success(read) /\ ~Retryable(read)
      BY <2>2, <2>4, <3>3 DEF Received, ClientTypes, Phases
    <3> QED BY <3>1, <3>2, <3>3
  <2>7. /\ call' \in [Calls -> ClientTypes]
        /\ call'[c] = Received(c, read)
        /\ \A d \in Calls : d # c => call'[d] = call[d]
    BY <1>1, <2>1, <2>6 DEF ClientInv
  <2>8. \A d \in Calls : call'[d].attempt <= Retries[d]
    BY <2>4, <2>6, <2>7 DEF ClientInv
  <2>9. \A d \in Calls : call'[d].phase = "backoff" => call'[d].attempt < Retries[d]
    BY <2>6, <2>7 DEF ClientInv
  <2>10. \A d \in Calls : call'[d].phase = "returned" /\ call'[d].answer.tx # NoTx =>
           Bears(KeyOf[d], BodyOf[d], call'[d].answer.tx)
    BY <2>3, <2>6, <2>7 DEF ClientInv
  <2> QED BY <1>2, <2>7, <2>8, <2>9, <2>10 DEF ClientInv
<1> QED BY <1>3, <1>4 DEF Answer

\* What the chain has, it keeps: a client that does nothing keeps its promises.
LEMMA QuietClient ==
  ASSUME ClientInv, UNCHANGED call, accepted \subseteq accepted'
  PROVE  ClientInv'
<1>1. \A key, body, tx : Bears(key, body, tx) => Bears(key, body, tx)'
  BY DEF Bears, AskedFor
<1> QED BY <1>1 DEF ClientInv

LEMMA QuietStore ==
  ASSUME StoreInv, accepted \subseteq accepted', ToSet(store') \subseteq ToSet(store),
         store' \in Seq(Records), Distinct(store')
  PROVE  StoreInv'
<1>1. \A key, body, tx : Bears(key, body, tx) => Bears(key, body, tx)'
  BY DEF Bears, AskedFor
<1>2. \A rec : Genuine(rec) => Genuine(rec)'
  BY <1>1 DEF Genuine, Submitted
<1> QED BY <1>2 DEF StoreInv, Distinct

LEMMA QuietHandlers ==
  ASSUME HandlerInv, UNCHANGED <<serving, wire>>, accepted \subseteq accepted'
  PROVE  HandlerInv'
BY DEF HandlerInv, Own, At

-----------------------------------------------------------------------------
(* The client's steps *)

LEMMA SendKeepsWInv ==
  ASSUME WInv, NEW c \in Calls, Send(c)
  PROVE  WInv'
<1> DEFINE first == call[c].phase = "idle"
           attempt == IF first THEN 0 ELSE call[c].attempt + 1
<1>1. call[c] \in ClientTypes /\ call[c].attempt <= Retries[c] /\ Retries[c] \in Nat
  BY ClientsAssumption DEF WInv, ClientInv
<1>2. attempt \in 0..Retries[c]
  <2>1. CASE first
    BY <1>1, <2>1
  <2>2. CASE call[c].phase = "backoff"
    BY <1>1, <2>2 DEF WInv, ClientInv, ClientTypes
  <2> QED BY <2>1, <2>2 DEF Send
<1>3. /\ call' = [call EXCEPT ![c].phase = "waiting", ![c].attempt = attempt,
                            ![c].signedAt = IF first THEN now ELSE @]
      /\ inbox' = inbox \cup {<<c, attempt>>}
      /\ UNCHANGED <<store, now, serving, wire, accepted, round, crashes, ackUntil>>
  BY DEF Send, idempotencyVars, chainVars
<1> HIDE DEF attempt, first
<1>4. now \in 0..MaxTime /\ call \in [Calls -> ClientTypes]
  BY DEF WInv, BoundsInv, ClientInv
<1> DEFINE new == [call[c] EXCEPT !.phase = "waiting", !.attempt = attempt,
                                  !.signedAt = IF first THEN now ELSE @]
<1>5. /\ call' \in [Calls -> ClientTypes]
      /\ call'[c].attempt = attempt /\ call'[c].phase = "waiting"
      /\ \A d \in Calls : d # c => call'[d] = call[d]
  <2>1. /\ new \in ClientTypes /\ new.attempt = attempt /\ new.phase = "waiting"
    <3> DEFINE at == IF first THEN now ELSE call[c].signedAt
    <3>1. at \in 0..MaxTime /\ attempt \in Nat
      BY <1>1, <1>2, <1>4 DEF ClientTypes
    <3>2. new = [call[c] EXCEPT !.phase = "waiting", !.attempt = attempt, !.signedAt = at]
      OBVIOUS
    <3> HIDE DEF at, new
    <3> QED BY <1>1, <3>1, <3>2 DEF ClientTypes, Phases
  <2>2. call' = [call EXCEPT ![c] = new]
    BY <1>3
  <2> HIDE DEF new
  <2> QED BY <1>4, <2>1, <2>2
<1> HIDE DEF new
<1>6. \A key, body, tx : Bears(key, body, tx)' <=> Bears(key, body, tx)
  BY <1>3 DEF Bears, AskedFor
<1>7. ClientInv'
  BY <1>2, <1>5, <1>6 DEF WInv, ClientInv
<1>8. inbox' \subseteq Requests
  BY <1>2, <1>3, RequestOf DEF WInv, BoundsInv
<1>9. HandlerInv' /\ StoreInv'
  BY <1>3, QuietHandlers, QuietStore DEF WInv, StoreInv, Distinct
<1> QED BY <1>3, <1>7, <1>8, <1>9 DEF WInv, AckInv, BoundsInv

LEMMA AttemptFailsKeepsWInv ==
  ASSUME WInv, NEW c \in Calls, AttemptFails(c)
  PROVE  WInv'
<1>1. /\ call[c] \in ClientTypes /\ call[c].attempt <= Retries[c] /\ Retries[c] \in Nat
      /\ call \in [Calls -> ClientTypes]
  BY ClientsAssumption DEF WInv, ClientInv
<1>2. /\ RetryOrThrow(c) \in ClientTypes
      /\ RetryOrThrow(c).attempt = call[c].attempt
      /\ RetryOrThrow(c).phase \in {"backoff", "threw"}
      /\ RetryOrThrow(c).phase = "backoff" => call[c].attempt < Retries[c]
  BY <1>1 DEF RetryOrThrow, ClientTypes, Phases
<1>3. /\ call' = [call EXCEPT ![c] = RetryOrThrow(c)]
      /\ UNCHANGED <<store, now, inbox, serving, wire, accepted, round, crashes, ackUntil>>
  BY DEF AttemptFails, idempotencyVars, chainVars
<1>4. /\ call' \in [Calls -> ClientTypes] /\ call'[c] = RetryOrThrow(c)
      /\ \A d \in Calls : d # c => call'[d] = call[d]
  BY <1>1, <1>2, <1>3
<1>5. \A key, body, tx : Bears(key, body, tx)' <=> Bears(key, body, tx)
  BY <1>3 DEF Bears, AskedFor
<1>6. ClientInv'
  BY <1>2, <1>4, <1>5 DEF WInv, ClientInv
<1>7. HandlerInv' /\ StoreInv'
  BY <1>3, QuietHandlers, QuietStore DEF WInv, StoreInv, Distinct
<1> QED BY <1>3, <1>6, <1>7 DEF WInv, AckInv, BoundsInv

-----------------------------------------------------------------------------
(* The service's steps *)

\* What the store replays is true.
LEMMA ReplayIsTrue ==
  ASSUME StoreInv, NEW rec \in ToSet(store)
  PROVE  /\ rec \in Records /\ rec.answer \in Answers
         /\ Bears(rec.key, rec.body, rec.answer.tx)
<1>1. rec \in Records
  BY DEF StoreInv, ToSet
<1> QED BY <1>1 DEF StoreInv, Genuine, Records

LEMMA LiveAre ==
  ASSUME NEW key, NEW rec \in LiveRecords(key)
  PROVE  rec \in ToSet(store) /\ rec.key = key /\ ~Expired(rec)
BY DEF LiveRecords, KeyIndex, ToSet

LEMMA NoneLive ==
  ASSUME NEW key, LiveRecords(key) = {}, NEW rec \in ToSet(store), rec.key = key
  PROVE  Expired(rec)
BY DEF LiveRecords, KeyIndex, ToSet

LEMMA ArriveKeepsWInv ==
  ASSUME WInv, NEW r \in Requests, Arrive(r)
  PROVE  WInv'
<1> DEFINE key == KeyOf[r[1]]
<1>1. /\ inbox' = inbox \ {r} /\ store' = StoreAfterGet(key)
      /\ UNCHANGED <<now, wire, accepted, round, crashes, ackUntil>>
  BY DEF Arrive, chainVars
<1>2. /\ store' \in Seq(Records) /\ Distinct(store')
      /\ ToSet(store') \subseteq ToSet(store)
      /\ \A rec \in ToSet(store) : ~Expired(rec) => rec \in ToSet(store')
  <2> DEFINE dropped == {rec \in ToSet(store) : rec.key = key /\ Expired(rec)}
  <2>1. \A rec \in ToSet(store) : ~Expired(rec) => rec \in ToSet(store) \ dropped
    OBVIOUS
  <2>2. store' = Drop(store, dropped)
    BY <1>1 DEF StoreAfterGet
  <2> HIDE DEF dropped
  <2> QED BY <2>1, <2>2, DropKeepsDistinct DEF WInv, StoreInv
<1>3. StoreInv'
  BY <1>1, <1>2, QuietStore DEF WInv
<1>4. AckInv'
  <2> SUFFICES ASSUME NEW k \in Keys, now < ackUntil[k]
               PROVE  \E rec \in ToSet(store') : rec.key = k /\ rec.expiresAt = ackUntil[k]
    BY <1>1 DEF WInv, AckInv
  <2>1. PICK rec \in ToSet(store) : rec.key = k /\ rec.expiresAt = ackUntil[k]
    BY DEF WInv, AckInv
  <2>2. ~Expired(rec)
    BY <2>1 DEF Expired, WInv, AckInv, BoundsInv
  <2> QED BY <1>2, <2>1, <2>2
<1>5. ClientInv' /\ HandlerInv'
  <2>1. r[1] \in Calls
    BY RequestsAre
  <2>2. CASE Replay(r)
    <3>1. PICK rec \in LiveRecords(key) :
            rec.body = BodyOf[r[1]] /\ Answer(r, rec.answer) /\ UNCHANGED serving
      BY <2>2 DEF Replay
    <3>2. rec.key = key /\ rec.answer \in Answers /\ Bears(key, BodyOf[r[1]], rec.answer.tx)
      BY <3>1, LiveAre, ReplayIsTrue DEF WInv
    <3>3. ClientInv'
      BY <1>1, <3>1, <3>2, AnswerKeepsClientInv DEF WInv
    <3> QED BY <1>1, <3>1, <3>3, QuietHandlers DEF WInv
  <2>3. CASE Refuse(r)
    <3>1. Answer(r, Conflict) /\ UNCHANGED serving
      BY <2>3 DEF Refuse
    <3>2. ClientInv'
      BY <1>1, <3>1, AnswersAre, AnswerKeepsClientInv DEF WInv
    <3> QED BY <1>1, <3>1, <3>2, QuietHandlers DEF WInv
  <2>4. CASE Reject(r)
    <3>1. Answer(r, Unauthorized) /\ UNCHANGED serving
      BY <2>4 DEF Reject
    <3>2. ClientInv'
      BY <1>1, <3>1, AnswersAre, AnswerKeepsClientInv DEF WInv
    <3> QED BY <1>1, <3>1, <3>2, QuietHandlers DEF WInv
  <2>5. CASE Execute(r)
    <3>1. serving' = [serving EXCEPT ![r] = [stage |-> "params", tx |-> NoTx]] /\ UNCHANGED call
      BY <2>5 DEF Execute
    <3>2. ClientInv'
      BY <1>1, <3>1, QuietClient DEF WInv
    <3>3. /\ serving' \in [Requests -> HandlerTypes] /\ serving'[r].stage = "params"
          /\ \A q \in Requests : q # r => serving'[q] = serving[q]
      BY <3>1 DEF WInv, HandlerInv, HandlerTypes, Stages
    <3>4. HandlerInv'
      BY <1>1, <3>3 DEF WInv, HandlerInv, Own, At
    <3> QED BY <3>2, <3>4
  <2> QED BY <2>2, <2>3, <2>4, <2>5 DEF Arrive
<1>6. BoundsInv'
  BY <1>1 DEF WInv, BoundsInv
<1> QED BY <1>3, <1>4, <1>5, <1>6 DEF WInv

LEMMA SignAndSendKeepsWInv ==
  ASSUME WInv, NEW r \in Requests, SignAndSend(r)
  PROVE  WInv'
<1> DEFINE tx == [op |-> OpOf[r[1]], body |-> BodyOf[r[1]], round |-> round]
<1>1. /\ serving' = [serving EXCEPT ![r] = [stage |-> "sending", tx |-> tx]]
      /\ wire' = wire \cup {[req |-> r, tx |-> tx]}
      /\ UNCHANGED <<store, now, call, inbox, accepted, round, crashes, ackUntil>>
  BY DEF SignAndSend, idempotencyVars, clientVars
<1>2. tx \in Txs
  BY RequestsAre, ClientsAssumption DEF Txs, WInv, BoundsInv
<1>3. Own(r, tx)
  BY <1>2 DEF Own
<1> HIDE DEF tx
<1>4. /\ serving' \in [Requests -> HandlerTypes]
      /\ serving'[r] = [stage |-> "sending", tx |-> tx]
      /\ \A q \in Requests : q # r => serving'[q] = serving[q]
  BY <1>1, <1>2 DEF WInv, HandlerInv, HandlerTypes, Stages
<1>5. HandlerInv'
  BY <1>1, <1>2, <1>3, <1>4 DEF WInv, HandlerInv, Own, At
<1>6. ClientInv' /\ StoreInv'
  BY <1>1, QuietClient, QuietStore DEF WInv, StoreInv, Distinct
<1> QED BY <1>1, <1>5, <1>6 DEF WInv, AckInv, BoundsInv

LEMMA FinishKeepsWInv ==
  ASSUME WInv, NEW r \in Requests, Finish(r)
  PROVE  WInv'
<1> DEFINE key == KeyOf[r[1]]
           body == BodyOf[r[1]]
           answer == Submitted(serving[r].tx)
           new == [key |-> key, body |-> body, answer |-> answer, expiresAt |-> now + TTL]
<1>1. /\ At(r, "taken")
      /\ serving' = [serving EXCEPT ![r] = Idle]
      /\ setIdempotencyRecord(key, body, answer)
      /\ ackUntil' = [ackUntil EXCEPT ![key] = now + TTL]
      /\ Answer(r, answer)
      /\ UNCHANGED <<now, inbox, wire, accepted, round, crashes>>
  BY DEF Finish, NodeHasIt, chainVars
<1>2. /\ key \in Keys /\ body \in Bodies /\ r[1] \in Calls
      /\ Own(r, serving[r].tx) /\ serving[r].tx \in accepted
      /\ now \in Nat /\ TTL \in Nat
  BY <1>1, RequestsAre, BoundsAssumption DEF WInv, HandlerInv, BoundsInv, At
<1>3. answer \in Answers /\ answer.tx = serving[r].tx /\ Bears(key, body, answer.tx)
  BY <1>2, AnswersAre DEF Own, Bears, AskedFor
<1>4. answer = Submitted(answer.tx)
  BY <1>3
<1> HIDE DEF answer
<1>5. ClientInv'
  BY <1>1, <1>3, AnswerKeepsClientInv DEF WInv
<1>6. new \in Records /\ new.key = key /\ new.expiresAt = now + TTL /\ Genuine(new)
  BY <1>2, <1>3, <1>4 DEF Records, Genuine
<1>7. /\ store' \in Seq(Records) /\ Distinct(store')
      /\ new \in ToSet(store')
      /\ \A rec \in ToSet(store) : rec.key # key => rec \in ToSet(store')
      /\ ToSet(store') \subseteq ToSet(store) \cup {new}
  <2>1. store' = Put(store, new)
    BY <1>1 DEF setIdempotencyRecord, KeyIndex, Put
  <2> HIDE DEF new
  <2> QED BY <1>6, <2>1, PutKeepsDistinct DEF WInv, StoreInv
<1> HIDE DEF new
<1>8. StoreInv'
  <2>1. \A rec : Genuine(rec)' <=> Genuine(rec)
    BY <1>1 DEF Genuine, Bears, AskedFor, Submitted
  <2>2. \A rec \in ToSet(store') : Genuine(rec)
    BY <1>6, <1>7 DEF WInv, StoreInv
  <2> QED BY <1>7, <2>1, <2>2 DEF StoreInv, Distinct
<1>9. AckInv'
  <2>1. /\ ackUntil' \in [Keys -> Nat] /\ ackUntil'[key] = now + TTL
        /\ \A k \in Keys : k # key => ackUntil'[k] = ackUntil[k]
    BY <1>1, <1>2 DEF WInv, AckInv
  <2>2. ASSUME NEW k \in Keys, now < ackUntil'[k]
        PROVE  \E rec \in ToSet(store') : rec.key = k /\ rec.expiresAt = ackUntil'[k]
    <3>1. CASE k = key
      BY <1>6, <1>7, <2>1, <3>1
    <3>2. CASE k # key
      <4>1. PICK rec \in ToSet(store) : rec.key = k /\ rec.expiresAt = ackUntil[k]
        BY <2>1, <2>2, <3>2 DEF WInv, AckInv
      <4> QED BY <1>7, <2>1, <3>2, <4>1
    <3> QED BY <3>1, <3>2
  <2> QED BY <1>1, <2>1, <2>2 DEF AckInv
<1>10. HandlerInv'
  <2>1. /\ serving' \in [Requests -> HandlerTypes] /\ serving'[r].stage = "none"
        /\ \A q \in Requests : q # r => serving'[q] = serving[q]
    BY <1>1 DEF WInv, HandlerInv, HandlerTypes, Stages, Idle
  <2> QED BY <1>1, <2>1 DEF WInv, HandlerInv, Own, At
<1>11. BoundsInv'
  BY <1>1 DEF WInv, BoundsInv
<1> QED BY <1>5, <1>8, <1>9, <1>10, <1>11 DEF WInv

LEMMA FailKeepsWInv ==
  ASSUME WInv, NEW r \in Requests, Fail(r)
  PROVE  WInv'
<1>1. /\ serving' = [serving EXCEPT ![r] = Idle]
      /\ Answer(r, ServerError)
      /\ UNCHANGED <<store, now, inbox, wire, accepted, round, crashes, ackUntil>>
  BY DEF Fail, idempotencyVars, chainVars
<1>2. ClientInv'
  BY <1>1, AnswersAre, AnswerKeepsClientInv DEF WInv
<1>3. HandlerInv'
  <2>1. /\ serving' \in [Requests -> HandlerTypes] /\ serving'[r].stage = "none"
        /\ \A q \in Requests : q # r => serving'[q] = serving[q]
    BY <1>1 DEF WInv, HandlerInv, HandlerTypes, Stages, Idle
  <2> QED BY <1>1, <2>1 DEF WInv, HandlerInv, Own, At
<1>4. StoreInv'
  BY <1>1, QuietStore DEF WInv, StoreInv, Distinct
<1> QED BY <1>1, <1>2, <1>3, <1>4 DEF WInv, AckInv, BoundsInv

-----------------------------------------------------------------------------
(* The chain, time and restarts *)

LEMMA LandKeepsWInv ==
  ASSUME WInv, NEW m \in wire, Land(m)
  PROVE  WInv'
<1> DEFINE waiting == At(m.req, "sending") /\ serving[m.req].tx = m.tx
           stage == IF m.tx \notin accepted THEN "taken" ELSE "rejected"
<1>1. /\ wire' = wire \ {m} /\ accepted' = accepted \cup {m.tx}
      /\ serving' = IF waiting THEN [serving EXCEPT ![m.req].stage = stage] ELSE serving
      /\ UNCHANGED <<store, now, call, inbox, round, crashes, ackUntil>>
  BY DEF Land, idempotencyVars, clientVars
<1>2. m.req \in Requests /\ m.tx \in Txs
  BY DEF WInv, HandlerInv
<1>3. ClientInv' /\ StoreInv'
  BY <1>1, QuietClient, QuietStore DEF WInv, StoreInv, Distinct
<1>4. HandlerInv'
  <2>1. CASE ~waiting
    <3>1. serving' = serving
      BY <1>1, <2>1
    <3> QED BY <1>1, <3>1 DEF WInv, HandlerInv, Own, At
  <2>2. CASE waiting
    <3>1. serving' = [serving EXCEPT ![m.req].stage = stage] /\ stage \in {"taken", "rejected"}
      BY <1>1, <2>2
    <3> HIDE DEF stage
    <3>2. /\ serving' \in [Requests -> HandlerTypes]
          /\ serving'[m.req].tx = m.tx /\ serving'[m.req].stage = stage
          /\ \A q \in Requests : q # m.req => serving'[q] = serving[q]
      BY <1>2, <2>2, <3>1 DEF WInv, HandlerInv, HandlerTypes, Stages
    <3>3. Own(m.req, m.tx) /\ m.tx \in accepted'
      BY <1>1 DEF WInv, HandlerInv
    <3>4. \A q \in Requests : serving'[q].stage \in {"sending", "taken", "rejected"} =>
            Own(q, serving'[q].tx)
      BY <3>2, <3>3 DEF WInv, HandlerInv
    <3>5. \A q \in Requests : serving'[q].stage = "taken" => serving'[q].tx \in accepted'
      BY <1>1, <3>2, <3>3 DEF WInv, HandlerInv, At
    <3> QED BY <1>1, <3>2, <3>4, <3>5 DEF WInv, HandlerInv, Own, At
  <2> QED BY <2>1, <2>2
<1>5. BoundsInv'
  BY <1>1, <1>2 DEF WInv, BoundsInv
<1> QED BY <1>1, <1>3, <1>4, <1>5 DEF WInv, AckInv

LEMMA PassesKeepsWInv ==
  ASSUME WInv, Passes
  PROVE  WInv'
<1>1. /\ now < MaxTime /\ now' = now + 1 /\ now \in Nat /\ MaxTime \in Nat
      /\ UNCHANGED <<store, call, inbox, serving, wire, accepted, round, crashes, ackUntil>>
  BY BoundsAssumption DEF Passes, Tick, clientVars, chainVars, WInv, BoundsInv
<1>2. ClientInv' /\ StoreInv' /\ HandlerInv'
  BY <1>1, QuietClient, QuietStore, QuietHandlers DEF WInv, StoreInv, Distinct
<1>3. AckInv'
  BY <1>1 DEF WInv, AckInv
<1> QED BY <1>1, <1>2, <1>3 DEF WInv, BoundsInv

LEMMA SweepKeepsWInv ==
  ASSUME WInv, Sweep
  PROVE  WInv'
<1> DEFINE stays(k) == \E i \in DOMAIN store' : store'[i].key = k
<1>1. /\ SweepTimer
      /\ ackUntil' = [k \in Keys |-> IF stays(k) THEN ackUntil[k] ELSE 0]
      /\ UNCHANGED <<now, call, inbox, serving, wire, accepted, round, crashes>>
  BY DEF Sweep, SweepTimer, clientVars, chainVars
<1>2. /\ store' \in Seq(Records) /\ Distinct(store')
      /\ ToSet(store') \subseteq ToSet(store)
  <2> DEFINE kept == Drop(store, {rec \in ToSet(store) : Expired(rec)})
             overflow == IF Len(kept) > MaxStoreSize THEN Len(kept) - MaxStoreSize ELSE 0
  <2>1. kept \in Seq(Records) /\ Distinct(kept) /\ ToSet(kept) \subseteq ToSet(store)
    BY DropKeepsDistinct DEF WInv, StoreInv
  <2>2. store' = SubSeq(kept, overflow + 1, Len(kept))
    BY <1>1 DEF SweepTimer, SweptAndTrimmed, Swept
  <2> HIDE DEF kept
  <2>3. overflow \in 0..Len(kept)
    BY <2>1, BoundsAssumption
  <2> HIDE DEF overflow
  <2> QED BY <2>1, <2>2, <2>3, SuffixKeepsDistinct
<1>3. ClientInv' /\ StoreInv' /\ HandlerInv'
  BY <1>1, <1>2, QuietClient, QuietStore, QuietHandlers DEF WInv
<1>4. /\ ackUntil' \in [Keys -> Nat]
      /\ \A k \in Keys : ackUntil'[k] = IF stays(k) THEN ackUntil[k] ELSE 0
  BY <1>1 DEF WInv, AckInv
<1>5. ASSUME NEW k \in Keys, now < ackUntil'[k]
      PROVE  \E rec \in ToSet(store') : rec.key = k /\ rec.expiresAt = ackUntil'[k]
  <2>1. now \in Nat
    BY DEF WInv, BoundsInv
  <2>2. stays(k) /\ ackUntil'[k] = ackUntil[k]
    BY <1>4, <1>5, <2>1
  <2>3. PICK rec \in ToSet(store) : rec.key = k /\ rec.expiresAt = ackUntil[k]
    BY <1>5, <2>2 DEF WInv, AckInv
  <2>4. PICK left \in ToSet(store') : left.key = k
    BY <2>2 DEF ToSet
  <2>5. left = rec
    BY <1>2, <2>3, <2>4, OneRecord DEF WInv, StoreInv
  <2> QED BY <2>2, <2>3, <2>4, <2>5
<1>6. AckInv'
  BY <1>1, <1>4, <1>5 DEF AckInv
<1> QED BY <1>1, <1>3, <1>6 DEF WInv, BoundsInv

LEMMA CrashKeepsWInv ==
  ASSUME WInv, Crash
  PROVE  WInv'
<1>1. /\ crashes < MaxCrashes /\ crashes' = crashes + 1 /\ store' = <<>>
      /\ serving' = [r \in Requests |-> Idle]
      /\ ackUntil' = [k \in Keys |-> 0]
      /\ UNCHANGED <<now, call, inbox, wire, accepted, round>>
  BY DEF Crash, StoreLost, clientVars, chainVars
<1>2. store' \in Seq(Records) /\ ToSet(store') = {} /\ Distinct(store')
  BY <1>1 DEF ToSet, Distinct
<1>3. ClientInv' /\ StoreInv'
  BY <1>1, <1>2, QuietClient, QuietStore DEF WInv
<1>4. HandlerInv'
  BY <1>1 DEF WInv, HandlerInv, HandlerTypes, Stages, Idle, Own, At
<1>5. BoundsInv'
  BY <1>1, BoundsAssumption DEF WInv, BoundsInv
<1>6. AckInv'
  BY <1>1, <1>5 DEF AckInv, BoundsInv
<1> QED BY <1>3, <1>4, <1>5, <1>6 DEF WInv

-----------------------------------------------------------------------------
(* The invariant *)

LEMMA InitWInv == Init => WInv
<1> SUFFICES ASSUME Init PROVE WInv
  OBVIOUS
<1>1. store \in Seq(Records) /\ ToSet(store) = {} /\ Distinct(store) /\ now = 0
  BY DEF Init, IdempotencyInit, ToSet, Distinct
<1>2. StoreInv
  BY <1>1 DEF StoreInv
<1>3. ClientInv
  <2>1. \A c \in Calls : Retries[c] \in Nat
    BY ClientsAssumption
  <2> QED BY <2>1, BoundsAssumption DEF Init, ClientInv, ClientTypes, Phases
<1>4. HandlerInv
  BY DEF Init, HandlerInv, HandlerTypes, Stages, Idle, At
<1>5. AckInv /\ BoundsInv
  BY <1>1, BoundsAssumption DEF Init, AckInv, BoundsInv
<1> QED BY <1>2, <1>3, <1>4, <1>5 DEF WInv

LEMMA NextWInv == WInv /\ [Next]_vars => WInv'
<1> SUFFICES ASSUME WInv, [Next]_vars PROVE WInv'
  OBVIOUS
<1>1. ASSUME NEW c \in Calls, Send(c) \/ AttemptFails(c) PROVE WInv'
  BY <1>1, SendKeepsWInv, AttemptFailsKeepsWInv
<1>2. ASSUME NEW r \in Requests, Arrive(r) \/ SignAndSend(r) \/ Finish(r) \/ Fail(r)
      PROVE  WInv'
  BY <1>2, ArriveKeepsWInv, SignAndSendKeepsWInv, FinishKeepsWInv, FailKeepsWInv
<1>3. ASSUME NEW m \in wire, Land(m) PROVE WInv'
  BY <1>3, LandKeepsWInv
<1>4. CASE NewRound
  <2>1. /\ round < MaxRound /\ round' = round + 1
        /\ UNCHANGED <<store, now, call, inbox, serving, wire, accepted, crashes, ackUntil>>
    BY <1>4 DEF NewRound, idempotencyVars, clientVars
  <2>2. ClientInv' /\ StoreInv' /\ HandlerInv'
    BY <2>1, QuietClient, QuietStore, QuietHandlers DEF WInv, StoreInv, Distinct
  <2> QED BY <2>1, <2>2, BoundsAssumption DEF WInv, AckInv, BoundsInv
<1>5. CASE Passes \/ Sweep \/ Crash
  BY <1>5, PassesKeepsWInv, SweepKeepsWInv, CrashKeepsWInv
<1>6. CASE UNCHANGED vars
  <2>1. UNCHANGED <<store, now, call, inbox, serving, wire, accepted, round, crashes, ackUntil>>
    BY <1>6 DEF vars, idempotencyVars, clientVars, chainVars
  <2>2. ClientInv' /\ StoreInv' /\ HandlerInv'
    BY <2>1, QuietClient, QuietStore, QuietHandlers DEF WInv, StoreInv, Distinct
  <2> QED BY <2>1, <2>2 DEF WInv, AckInv, BoundsInv
<1> QED BY <1>1, <1>2, <1>3, <1>4, <1>5, <1>6 DEF Next

\* The inductive invariant: what clients, handlers, store and chain owe each other.
THEOREM WriteInvariance == Spec => []WInv
BY InitWInv, NextWInv, PTL DEF Spec

\* Every variable of the write path keeps its type, for any number of calls.
THEOREM WriteTypes == Spec => []TypeOK
<1>1. WInv => TypeOK
  BY DEF WInv, ClientInv, ClientTypes, Phases, HandlerInv, HandlerTypes, Stages, StoreInv,
         AckInv, BoundsInv, TypeOK
<1> QED BY <1>1, WriteInvariance, PTL

\* A call that returned with a body names a transaction the chain accepted, with its
\* own body, that a call with its key asked for: idempotencyMiddleware never replays,
\* and no handler ever sends, anything else.
THEOREM SuccessesAreGenuine == Spec => []SuccessIsGenuine
<1>1. WInv => SuccessIsGenuine
  BY DEF WInv, ClientInv, Bears, AskedFor, SuccessIsGenuine
<1> QED BY <1>1, WriteInvariance, PTL

\* While the newest 2xx of a key is on record, no request with the key gets past
\* idempotencyMiddleware.
THEOREM RecordedIsNotReexecuted == Spec => NoReexecutionOnRecord
<1> DEFINE A == \A r \in Requests :
       At(r, "none") /\ serving'[r].stage # "none" => now >= ackUntil[KeyOf[r[1]]]
<1>1. WInv /\ [Next]_vars => A
  <2> SUFFICES ASSUME WInv, [Next]_vars, NEW r \in Requests,
                      At(r, "none"), serving'[r].stage # "none"
               PROVE  now >= ackUntil[KeyOf[r[1]]]
    OBVIOUS
  <2>1. serving \in [Requests -> HandlerTypes]
    BY DEF WInv, HandlerInv
  <2>2. PICK q \in Requests : Arrive(q) /\ Execute(q) /\ q = r
    <3>1. ASSUME NEW q \in Requests, Arrive(q), serving' # serving
          PROVE  Execute(q)
      BY <3>1 DEF Arrive, Replay, Refuse, Reject
    <3>2. ASSUME NEW q \in Requests, Execute(q) PROVE q = r
      BY <2>1, <3>2 DEF Execute, At
    <3>3. serving' # serving
      BY DEF At
    <3>4. ASSUME NEW q \in Requests, SignAndSend(q) \/ Finish(q) \/ Fail(q) PROVE FALSE
      BY <2>1, <3>4 DEF SignAndSend, Finish, Fail, GivesUpAt, NodeHasIt, At, Idle
    <3>5. ASSUME NEW m \in wire, Land(m) PROVE FALSE
      <4>1. m.req \in Requests
        BY DEF WInv, HandlerInv
      <4> QED BY <2>1, <3>3, <3>5, <4>1 DEF Land, At
    <3>6. ASSUME Crash PROVE FALSE
      BY <3>6 DEF Crash, Idle
    <3> QED BY <3>1, <3>2, <3>3, <3>4, <3>5, <3>6
         DEF Next, vars, Send, AttemptFails, NewRound, Passes, Sweep
  <2>3. LiveRecords(KeyOf[r[1]]) = {}
    BY <2>2 DEF Execute
  <2>4. KeyOf[r[1]] \in Keys /\ now \in Nat /\ ackUntil[KeyOf[r[1]]] \in Nat
    BY RequestsAre DEF WInv, AckInv, BoundsInv
  <2> SUFFICES ASSUME now < ackUntil[KeyOf[r[1]]] PROVE FALSE
    BY <2>4
  <2>5. PICK rec \in ToSet(store) :
          rec.key = KeyOf[r[1]] /\ rec.expiresAt = ackUntil[KeyOf[r[1]]]
    BY <2>4 DEF WInv, AckInv
  <2>6. Expired(rec)
    BY <2>3, <2>5, NoneLive
  <2> QED BY <2>4, <2>5, <2>6 DEF Expired
<1> QED BY <1>1, WriteInvariance, PTL DEF Spec, NoReexecutionOnRecord
=============================================================================
