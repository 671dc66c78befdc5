----------------------------- MODULE Idempotency -----------------------------
(***************************************************************************)
(* The Idempotency-Key store of src/lib/idempotency.ts: a Map from keys to *)
(* the recorded 2xx answers, with a time to live, a periodic sweep and an  *)
(* overflow eviction that only the sweep's timer performs.                 *)
(*                                                                         *)
(* A JavaScript Map iterates in insertion order, and setting a key that is *)
(* already there keeps its place; the Map is a sequence of records with    *)
(* distinct keys.  A record keeps the body itself where the code keeps the *)
(* SHA-256 of its canonical JSON: two bodies have one hash exactly when    *)
(* they are the same body.                                                 *)
(***************************************************************************)
EXTENDS Naturals, Sequences, SequencesExt, Filter

CONSTANTS
  TTL,           \* DEFAULT_TTL_MS, in ticks
  MaxStoreSize,  \* MAX_STORE_SIZE
  MaxTime        \* bound: the clock stops there

VARIABLES
  store,  \* the Map, oldest insertion first: [key, body, answer, expiresAt]
  now     \* Date.now(), in ticks

idempotencyVars == <<store, now>>

IdempotencyInit == store = <<>> /\ now = 0

Expired(rec) == rec.expiresAt <= now

KeyIndex(key) == {i \in DOMAIN store : store[i].key = key}

\* getIdempotencyRecord: the records that answer for the key, none or one.
LiveRecords(key) == {store[i] : i \in {j \in KeyIndex(key) : ~Expired(store[j])}}

\* What getIdempotencyRecord leaves behind: the key's record goes if it expired.
StoreAfterGet(key) ==
  Drop(store, {rec \in ToSet(store) : rec.key = key /\ Expired(rec)})

\* Mutant: a key that is set again gets a second record.
setByAppending(key, body, answer) ==
  store' = Append(store, [key |-> key, body |-> body, answer |-> answer,
                          expiresAt |-> now + TTL])

\* setIdempotencyRecord.
setIdempotencyRecord(key, body, answer) ==
  LET rec == [key |-> key, body |-> body, answer |-> answer, expiresAt |-> now + TTL]
  IN  store' = IF KeyIndex(key) = {} THEN Append(store, rec)
               ELSE [i \in DOMAIN store |-> IF store[i].key = key THEN rec ELSE store[i]]

Swept == Drop(store, {rec \in ToSet(store) : Expired(rec)})

\* What the timer leaves: no expired record, and the MaxStoreSize newest keys.
SweptAndTrimmed ==
  LET overflow == IF Len(Swept) > MaxStoreSize THEN Len(Swept) - MaxStoreSize ELSE 0
  IN  SubSeq(Swept, overflow + 1, Len(Swept))

SweepTimer ==
  /\ store' = SweptAndTrimmed
  /\ UNCHANGED now

Tick ==
  /\ now < MaxTime
  /\ now' = now + 1
  /\ UNCHANGED store

\* The store is memory only: a new process starts with an empty one.
StoreLost == store' = <<>> /\ UNCHANGED now
=============================================================================
