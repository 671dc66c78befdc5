---------------------------- MODULE Endorsements ----------------------------
(***************************************************************************)
(* POST /reputation/record: recordEvent of src/reputation.ts, with the     *)
(* in-memory endorsement graph and the in-memory store of event hashes.    *)
(*                                                                         *)
(* recordEvent looks for a cycle in the graph before its first await, and  *)
(* adds the edge after its last one, when the submission has succeeded: up *)
(* to five awaits later, during which other requests check and record.     *)
(* The chain, which keeps the endorsements the score is computed from, is  *)
(* external: the node takes a transaction at once, late, after the wallet  *)
(* has given up on it, or never; and one that it has taken enters a block  *)
(* later, or never.                                                        *)
(***************************************************************************)
EXTENDS Naturals, Sequences, SequencesExt, Filter

CONSTANTS
  Wallets,
  NoWallet,      \* "no counterparty"
  Inputs,        \* events clients report: [wallet, eventType, counterparty]
  Slots,         \* requests that may be in their handler at one time
  MaxDepth,      \* MAX_ENDORSEMENT_DEPTH
  MaxEndorsees,  \* MAX_ENDORSEES_PER_WALLET
  DedupTTL,      \* DEDUP_TTL_MS, in ticks
  DedupMax,      \* DEDUP_MAX_SIZE
  MaxTime,       \* bound: the clock stops there
  MaxEvents,     \* bound: requests that pass the cycle check
  MaxCrashes     \* bound: restarts of the service

EventTypes == {"payment", "purchase", "dispute", "refund", "endorsement", "service"}
Events == [wallet : Wallets, eventType : EventTypes,
           counterparty : Wallets \union {NoWallet}]

ASSUME InputsAssumption == Inputs \subseteq Events
ASSUME WalletAssumption == NoWallet \notin Wallets
ASSUME BoundsAssumption ==
  /\ MaxDepth \in Nat /\ MaxEndorsees \in Nat \ {0}
  /\ DedupTTL \in Nat /\ DedupMax \in Nat \ {0, 1}
  /\ MaxTime \in Nat /\ MaxEvents \in Nat /\ MaxCrashes \in Nat

VARIABLES
  endorsees,   \* endorsementGraph: each wallet's endorsees, oldest first
  hashes,      \* recentEventHashes, oldest first: [hash, at]
  now,         \* Date.now(), in ticks
  recording,   \* recording[s]: stage, number and event of the request in slot s
  wire,        \* submissions the node may still take: [id, event]
  taken,       \* endorsements it has taken that are in no block, and may never be
  endorsed,    \* endorsements on the chain: <<wallet, counterparty>>
  events,      \* such requests so far
  crashes,     \* restarts so far
  unseen,      \* (history) unseen[s]: edges added since slot s looked for a cycle
  raced        \* (history) <<e, f>>: edge e passed its check before f was added

chainVars == <<wire, taken, endorsed>>
counters == <<events, crashes>>
historyVars == <<unseen, raced>>
vars == <<endorsees, hashes, now, recording, chainVars, counters, historyVars>>

Edges == {e \in Wallets \X Wallets : Contains(endorsees[e[1]], e[2])}

(***************************************************************************)
(* The cycle check.  The queue holds each wallet with its depth; one at    *)
(* depth MaxDepth is not expanded, so paths of up to MaxDepth edges count. *)
(***************************************************************************)
Frontier(target, depth) ==
  LET reach[d \in 0..depth] ==
        IF d = 0 THEN {target}
        ELSE reach[d - 1] \union {w \in Wallets : \E v \in reach[d - 1] : <<v, w>> \in Edges}
  IN  reach[depth]

\* Mutant: only the direct cycle is looked for.
directCycleOnly(source, target) ==
  source = target \/ <<target, source>> \in Edges

wouldCreateEndorsementCycle(source, target) ==
  source = target \/ source \in Frontier(target, MaxDepth)

\* Mutant: the set is replaced.
recordOnlyLatest(source, target) ==
  [endorsees EXCEPT ![source] = <<target>>]

\* Mutant: the endorsees are a list, not a set.
recordAgain(source, target) ==
  LET kept == IF Len(endorsees[source]) >= MaxEndorsees
              THEN Tail(endorsees[source]) ELSE endorsees[source]
  IN  [endorsees EXCEPT ![source] = Append(kept, target)]

\* A saturated set gives up its oldest entry, even when the target is in it
\* already and the set would not have grown.
recordEndorsement(source, target) ==
  LET kept == IF Len(endorsees[source]) >= MaxEndorsees
              THEN Tail(endorsees[source]) ELSE endorsees[source]
  IN  [endorsees EXCEPT ![source] = IF Contains(kept, target) THEN kept
                                    ELSE Append(kept, target)]

(***************************************************************************)
(* The hash store.  The hash of an event takes in the millisecond it is    *)
(* computed in, so only the same event in the same tick is a duplicate     *)
(* (no block is added to the chain within a tick).                         *)
(***************************************************************************)
HashExpired(entry) == now - entry.at > DedupTTL

computeEventHash(event) == [event |-> event, salt |-> now]

isDuplicateEvent(hash) == \E i \in DOMAIN hashes : hashes[i].hash = hash /\ ~HashExpired(hashes[i])

Unexpired(entries) == Drop(entries, {entry \in ToSet(entries) : HashExpired(entry)})

\* Mutant: the newest entries are the ones evicted.
evictNewest(entries) ==
  IF Len(entries) > DedupMax THEN SubSeq(entries, 1, (3 * DedupMax) \div 4) ELSE entries

\* Over the maximum, the oldest go until three quarters of it are left.
evictOldest(entries) ==
  IF Len(entries) > DedupMax
  THEN SubSeq(entries, Len(entries) - (3 * DedupMax) \div 4 + 1, Len(entries))
  ELSE entries

registerEventHash(hash) ==
  evictOldest(Unexpired(Append(hashes, [hash |-> hash, at |-> now])))

(***************************************************************************)
(* recordEvent.  Its synchronous stretches are the actions.                *)
(***************************************************************************)
Idle == [stage |-> "idle"]
At(s, stage) == recording[s].stage = stage
Event(s) == recording[s].event
Submission(s) == [id |-> recording[s].id, event |-> recording[s].event]

IsEdge(event) == event.eventType = "endorsement" /\ event.counterparty # NoWallet
EdgeOf(event) == <<event.wallet, event.counterparty>>

\* The handler ends; the answer is all it leaves.
Ends(s) ==
  /\ recording' = [recording EXCEPT ![s] = Idle]
  /\ unseen' = [unseen EXCEPT ![s] = {}]
  /\ UNCHANGED raced

\* Up to the first await.  A request whose check fails is over at once and leaves
\* nothing, so the request that begins is one that passes it.
Begin(s) ==
  /\ At(s, "idle")
  /\ events < MaxEvents
  /\ events' = events + 1
  /\ \E event \in Inputs :
       /\ IsEdge(event) => ~wouldCreateEndorsementCycle(event.wallet, event.counterparty)
       /\ recording' = [recording EXCEPT ![s] =
                          [stage |-> "verifying", id |-> events', event |-> event]]
  /\ UNCHANGED <<endorsees, hashes, now, chainVars, crashes, historyVars>>

\* The awaits on verifyCounterparty, verifySelfReportedEvent, verifyDisputeEvent
\* and algod.status are over.  The hash is checked and registered and the
\* submission starts, in one synchronous stretch.
Submit(s) ==
  LET hash == computeEventHash(Event(s))
  IN  /\ At(s, "verifying")
      /\ IF isDuplicateEvent(hash)
         THEN Ends(s) /\ UNCHANGED <<hashes, wire>>
         ELSE /\ hashes' = registerEventHash(hash)
              /\ recording' = [recording EXCEPT ![s].stage = "submitting"]
              /\ wire' = wire \union {Submission(s)}
              /\ UNCHANGED historyVars
      /\ UNCHANGED <<endorsees, now, taken, endorsed, counters>>

\* A dispute or refund is not verified: null.  algod.status times out or fails:
\* the handler answers 500.
Refused(s) ==
  /\ At(s, "verifying")
  /\ Ends(s)
  /\ UNCHANGED <<endorsees, hashes, now, chainVars, counters>>

\* Mutant: the edge is recorded whatever became of the submission.
SubmittedAtAll(s) == At(s, "submitting")

\* submitApplicationCall returned a result: the node has taken the transaction.
\* recordEvent does not look at its status, which is "pending" when ten polls found
\* the transaction in no block.
Submitted(s) == At(s, "submitting") /\ Submission(s) \notin wire

Finish(s) ==
  LET fresh == IF IsEdge(Event(s)) THEN {EdgeOf(Event(s))} \ Edges ELSE {}
      kept == {e \in Wallets \X Wallets : Contains(endorsees'[e[1]], e[2])}
  IN  /\ Submitted(s)
      /\ endorsees' = IF IsEdge(Event(s))
                      THEN recordEndorsement(Event(s).wallet, Event(s).counterparty)
                      ELSE endorsees
      /\ recording' = [recording EXCEPT ![s] = Idle]
      /\ unseen' = [t \in Slots |-> IF t = s \/ At(t, "idle") THEN {}
                                    ELSE (unseen[t] \union fresh) \intersect kept]
      /\ raced' = (raced \union (fresh \X unseen[s])) \intersect (kept \X kept)
      /\ UNCHANGED <<hashes, now, chainVars, counters>>

\* Mutant: the submission has no timeout.
FailsOnceAnswered(s) == At(s, "submitting") /\ Submission(s) \notin wire

MayFail(s) == At(s, "submitting")

\* submitApplicationCall returned null: the node refused, or a timeout gave up on
\* a transaction that it may yet accept.
SubmitFails(s) ==
  /\ MayFail(s)
  /\ Ends(s)
  /\ UNCHANGED <<endorsees, hashes, now, chainVars, counters>>

\* The node (external) takes a transaction that is under way.
Take(m) ==
  /\ m \in wire
  /\ wire' = wire \ {m}
  /\ taken' = taken \union (IF IsEdge(m.event) THEN {EdgeOf(m.event)} \ endorsed ELSE {})
  /\ UNCHANGED <<endorsees, hashes, now, recording, endorsed, counters, historyVars>>

\* A block (external) has an endorsement the node has taken.
Land(edge) ==
  /\ edge \in taken
  /\ taken' = taken \ {edge}
  /\ endorsed' = endorsed \union {edge}
  /\ UNCHANGED <<endorsees, hashes, now, recording, wire, counters, historyVars>>

Tick ==
  /\ now < MaxTime
  /\ now' = now + 1
  /\ UNCHANGED <<endorsees, hashes, recording, chainVars, counters, historyVars>>

\* The five-minute timer.
cleanupExpiredHashes ==
  /\ hashes' = Unexpired(hashes)
  /\ UNCHANGED <<endorsees, now, recording, chainVars, counters, historyVars>>

\* Both stores are memory only; the chain and what is on its way stay.
Crash ==
  /\ crashes < MaxCrashes
  /\ crashes' = crashes + 1
  /\ endorsees' = [w \in Wallets |-> <<>>]
  /\ hashes' = <<>>
  /\ recording' = [s \in Slots |-> Idle]
  /\ unseen' = [s \in Slots |-> {}]
  /\ raced' = {}
  /\ UNCHANGED <<now, chainVars, events>>

Init ==
  /\ endorsees = [w \in Wallets |-> <<>>]
  /\ hashes = <<>>
  /\ now = 0
  /\ recording = [s \in Slots |-> Idle]
  /\ wire = {}
  /\ taken = {}
  /\ endorsed = {}
  /\ events = 0
  /\ crashes = 0
  /\ unseen = [s \in Slots |-> {}]
  /\ raced = {}

HandlerStep(s) == Submit(s) \/ Refused(s) \/ Finish(s) \/ SubmitFails(s)

Next ==
  \/ \E s \in Slots : Begin(s) \/ Submit(s) \/ Refused(s) \/ Finish(s) \/ SubmitFails(s)
  \/ \E m \in wire : Take(m)
  \/ \E edge \in taken : Land(edge)
  \/ Tick \/ cleanupExpiredHashes \/ Crash

Spec == Init /\ [][Next]_vars

\* Every await of a handler is under withTimeout or an AbortSignal.
FairSpec == Spec /\ \A s \in Slots : WF_vars(HandlerStep(s))

(***************************************************************************)
(* Properties.                                                             *)
(***************************************************************************)
Recordings ==
  {Idle} \union [stage : {"verifying", "submitting"}, id : 1..MaxEvents, event : Inputs]

\* A wallet's endorsees are distinct and never more than the cap.
EndorseesBounded ==
  \A w \in Wallets : /\ Len(endorsees[w]) <= MaxEndorsees
                     /\ IsInjective(endorsees[w])

\* Every variable has its type; the endorsees of a wallet are the set the code
\* keeps, within its cap.
TypeOK ==
  /\ endorsees \in [Wallets -> Seq(Wallets)]
  /\ hashes \in Seq([hash : [event : Inputs, salt : 0..MaxTime], at : 0..MaxTime])
  /\ now \in 0..MaxTime
  /\ recording \in [Slots -> Recordings]
  /\ wire \subseteq [id : 1..MaxEvents, event : Inputs]
  /\ taken \union endorsed \subseteq Wallets \X Wallets
  /\ events \in 0..MaxEvents
  /\ crashes \in 0..MaxCrashes
  /\ unseen \in [Slots -> SUBSET Edges]
  /\ raced \subseteq Edges \X Edges
  /\ EndorseesBounded

\* The cycle check works on endorsements that the chain has or the node was given
\* to put there: a submission that failed or that nobody waited for leaves no edge
\* behind.  One that is taken and enters no block does.
GraphAsTaken == Edges \subseteq taken \union endorsed

\* A closed walk over the graph of at most MaxDepth + 1 endorsements, the longest
\* the check can see.
CycleEdge(cycle, i) == <<cycle[i], cycle[IF i = Len(cycle) THEN 1 ELSE i + 1]>>
Cycles ==
  {cycle \in UNION {[1..n -> Wallets] : n \in 1..(MaxDepth + 1)} :
     \A i \in DOMAIN cycle : CycleEdge(cycle, i) \in Edges}

\* A cycle within the depth the check searches exists only if two of its
\* endorsements overlapped, so that one was checked before the other was
\* recorded: evictions, failures and late acceptances make none.
CyclesOnlyFromRaces ==
  \A cycle \in Cycles :
    \E i, j \in DOMAIN cycle : <<CycleEdge(cycle, i), CycleEdge(cycle, j)>> \in raced

\* A recorded endorsement is forgotten only in a restart, or as the oldest of a
\* wallet at the cap that records one more; nothing younger goes with it.
ForgottenOnlyAtTheCap ==
  [][\A w \in Wallets :
       LET forgotten == ToSet(endorsees[w]) \ ToSet(endorsees'[w])
       IN  \/ forgotten = {}
           \/ crashes' # crashes
           \/ Len(endorsees[w]) = MaxEndorsees /\ forgotten = {Head(endorsees[w])}]_vars

\* The store stays within its maximum; a submission starts with the hash of its own
\* event in it, however much was evicted to make room; and no hash is given up that
\* is younger than one kept.
DedupKeepsTheNewest ==
  [][/\ Len(hashes') <= DedupMax
     /\ \A s \in Slots : At(s, "verifying") /\ At(s, "submitting")' =>
          Contains(hashes', [hash |-> computeEventHash(Event(s)), at |-> now])
     /\ \A i, j \in DOMAIN hashes :
          i < j /\ Contains(hashes', hashes[i]) => Contains(hashes', hashes[j])]_vars

\* Every request ends, whatever the node and the indexer do: no slot is from some
\* moment on never free again.
RequestsEnd == \A s \in Slots : []<>At(s, "idle")

\* "Tracks endorsement relationships to prevent circular trust inflation"
\* (src/reputation.ts:180): the endorsements recorded never form a cycle.
NoCircularEndorsement == Cycles = {}
=============================================================================
