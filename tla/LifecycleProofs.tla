--------------------------- MODULE LifecycleProofs ---------------------------
(***************************************************************************)
(* Proofs about the subscriber list and the deliveries, for any number of  *)
(* requests, subscribers, waiting saves and restarts.                      *)
(*                                                                         *)
(* The list lives in three places: the Map, the chain of saves and the     *)
(* file.  Until a process has read the file it has queued no save, and     *)
(* from then on the Map is what clients were told; the last save of the    *)
(* chain is that list too, so what is left when the chain has drained is.  *)
(***************************************************************************)
EXTENDS Lifecycle, TLAPS

Tasks == [path : Paths, value : SUBSET Subs]

Stored == [Paths -> (SUBSET Subs) \cup {NoFile, Torn}]

StoreInv ==
  /\ writeQueue \in Seq(Tasks)
  /\ tmpFile \in Stored /\ diskFile \in Stored
  /\ \A i \in 1..Len(writeQueue) : writeQueue[i].path = WebhooksJson
  /\ diskFile[WebhooksJson] # Torn
  /\ writing # "idle" => writeQueue # <<>>
  /\ writing = "rename" => tmpFile[WebhooksJson] = Head(writeQueue).value

\* What the Map, the chain and the file have to do with what clients were told.
ListInv ==
  /\ ~Alive => writeQueue = <<>> /\ writing = "idle"
  /\ Alive /\ loaded => subscribers = acked
  /\ Alive /\ ~loaded => writeQueue = <<>> /\ subscribers = {} /\ acked = OnDisk
  /\ writeQueue # <<>> => writeQueue[Len(writeQueue)].value = acked
  /\ SubscriptionsKept

\* No list names a subscriber whose id was never drawn.
OnlyDrawn ==
  /\ \A i \in 1..Len(writeQueue) : writeQueue[i].value \subseteq drawn
  /\ OnDisk \subseteq drawn

LInv == TypeOK /\ StoreInv /\ ListInv /\ OnlyDrawn /\ EventsReachSubscribers

-----------------------------------------------------------------------------
(* The configuration *)

\* A timer whose text validateConfig accepts waits, whichever rule reads it.
LEMMA TimersWait ==
  ASSUME NEW env \in Environment, validateConfig(env), NEW name \in TimerVars
  PROVE  config(env).number[name] > 0
<1>1. /\ validateTimer(env, name) /\ env.number[name] \in Numerals
      /\ name \in IntegerVars \cup TimerVars
  BY DEF validateConfig, Environment
<1>2. Fallback[name] > 0
  BY <1>1 DEF Fallback, TimerVars
<1>3. config(env).number[name] = safeParseInt(env.number[name], Fallback[name])
  BY <1>1 DEF config
<1>4. CASE env.number[name].kind = "decimal" /\ env.number[name].safe
  BY <1>1, <1>3, <1>4 DEF validateTimer, safeParseInt
<1>5. CASE ~(env.number[name].kind = "decimal" /\ env.number[name].safe)
  BY <1>2, <1>3, <1>5 DEF safeParseInt
<1> QED BY <1>4, <1>5

LEMMA AcceptedIsSound ==
  ASSUME NEW env \in Environment, validateConfig(env)
  PROVE  Sound(config(env))
<1>1. env.secretLength \in Nat
  BY DEF Environment
<1>2. hmacAuthMounts(config(env))
  BY <1>1 DEF hmacAuthMounts, isHmacAuthEnabled, config, validateConfig
<1>3. config(env).x402Enabled => x402Active(config(env))
  BY DEF x402Active, config, validateConfig
<1>4. config(env).production =>
        isHmacAuthEnabled(config(env)) /\ config(env).corsAllowedOrigins # "*"
  BY DEF config, validateConfig, ProductionReady, isHmacAuthEnabled
<1> QED BY <1>2, <1>3, <1>4, TimersWait DEF Sound

(***************************************************************************)
(* config.ts: a number that validateIntegerEnv accepts is the number the   *)
(* service runs with, and the replica count security.ts reads by itself is *)
(* the one in the configuration.  Of a timer the same holds only if it is  *)
(* written in digits; one that is not, like 1e4, is accepted and replaced. *)
(***************************************************************************)
THEOREM NumbersAsWritten ==
  ASSUME NEW env \in Environment, validateConfig(env)
  PROVE  /\ \A name \in IntegerVars : env.number[name].kind \notin {"unset", "empty"} =>
              config(env).number[name] = env.number[name].number
         /\ \A name \in TimerVars : config(env).number[name] =
              IF env.number[name].kind = "decimal" THEN env.number[name].number
              ELSE Fallback[name]
         /\ REPLICA_COUNT(env) = config(env).number["REPLICA_COUNT"]
<1>1. \A name \in IntegerVars \cup TimerVars :
        /\ env.number[name] \in Numerals
        /\ config(env).number[name] = safeParseInt(env.number[name], Fallback[name])
  BY DEF config, Environment
<1>2. \A name \in IntegerVars : validateIntegerEnv(env, name)
  BY DEF validateConfig
<1>3. ASSUME NEW name \in IntegerVars, env.number[name].kind \notin {"unset", "empty"}
      PROVE  config(env).number[name] = env.number[name].number
  <2>1. env.number[name].kind = "decimal" /\ env.number[name].safe
    BY <1>2, <1>3 DEF validateIntegerEnv
  <2> QED BY <1>1, <2>1 DEF safeParseInt
<1>4. ASSUME NEW name \in TimerVars
      PROVE  config(env).number[name] =
               IF env.number[name].kind = "decimal" THEN env.number[name].number
               ELSE Fallback[name]
  <2>1. validateTimer(env, name)
    BY DEF validateConfig
  <2> QED BY <1>1, <2>1 DEF validateTimer, safeParseInt
<1>5. REPLICA_COUNT(env) = config(env).number["REPLICA_COUNT"]
  <2> DEFINE raw == env.number["REPLICA_COUNT"]
  <2>1. "REPLICA_COUNT" \in IntegerVars
    BY DEF IntegerVars
  <2>2. Fallback["REPLICA_COUNT"] = 1 /\ Least["REPLICA_COUNT"] = 1
    BY <2>1 DEF Fallback, Least
  <2>3. /\ raw \in Numerals
        /\ config(env).number["REPLICA_COUNT"] = safeParseInt(raw, 1)
    BY <1>1, <2>1, <2>2
  <2>4. validateIntegerEnv(env, "REPLICA_COUNT")
    BY <1>2, <2>1
  <2>5. raw.kind \in {"unset", "empty"} \/ (raw.kind = "decimal" /\ raw.safe /\ raw.number >= 1)
    BY <2>2, <2>4 DEF validateIntegerEnv
  <2>6. raw.number \in Int
    BY <2>3 DEF Numerals
  <2> QED BY <2>3, <2>5, <2>6 DEF safeParseInt, REPLICA_COUNT
<1> QED BY <1>3, <1>4, <1>5

-----------------------------------------------------------------------------
(* The three places *)

\* What the file says is a list of subscribers.
LEMMA OnDiskIsAList ==
  ASSUME StoreInv
  PROVE  /\ OnDisk \subseteq Subs
         /\ diskFile[WebhooksJson] = NoFile => OnDisk = {}
         /\ diskFile[WebhooksJson] # NoFile => OnDisk = diskFile[WebhooksJson]
<1>1. WebhooksJson \in Paths
  BY LifecycleConstants
<1>2. diskFile[WebhooksJson] \in (SUBSET Subs) \cup {NoFile}
  BY <1>1 DEF StoreInv, Stored
<1> QED BY <1>2, ListsAreContent DEF OnDisk, readJsonFile

\* Reading the file on first use leaves the Map with what clients were told.
LEMMA LoadedIsTold ==
  ASSUME LInv, Alive
  PROVE  loadFromDisk = acked
  BY DEF LInv, ListInv, TypeOK, loadFromDisk

\* A changed list is saved: the chain ends with it.
LEMMA PersistKeepsStore ==
  ASSUME StoreInv, NEW list \in SUBSET Subs, StoreQuiet, persistToDisk(list)
  PROVE  /\ StoreInv'
         /\ writeQueue' # <<>>
         /\ writeQueue'[Len(writeQueue')].value = list
         /\ UNCHANGED <<writing, diskFile>>
         /\ \A i \in DOMAIN writeQueue' : writeQueue'[i] \in Tasks
         /\ \A i \in 1..Len(writeQueue') :
              \/ writeQueue'[i].value = list
              \/ i \in 1..Len(writeQueue) /\ writeQueue'[i] = writeQueue[i]
<1> DEFINE task == [path |-> WebhooksJson, value |-> list]
<1>1. /\ writeQueue' = Append(writeQueue, task)
      /\ UNCHANGED <<writing, tmpFile, diskFile>> /\ writing = "idle"
  BY DEF persistToDisk, queueJsonWrite, StoreQuiet
<1>2. task \in Tasks /\ task.path = WebhooksJson /\ task.value = list
  BY LifecycleConstants DEF Tasks
<1>3. writeQueue \in Seq(Tasks)
  BY DEF StoreInv
<1> HIDE DEF task
<1>4. /\ writeQueue' \in Seq(Tasks) /\ Len(writeQueue') = Len(writeQueue) + 1
      /\ Len(writeQueue) \in Nat
      /\ writeQueue'[Len(writeQueue')] = task
      /\ \A i \in 1..Len(writeQueue) : writeQueue'[i] = writeQueue[i]
  BY <1>1, <1>2, <1>3
<1>5. \A i \in 1..Len(writeQueue') : writeQueue'[i].path = WebhooksJson
  BY <1>2, <1>4 DEF StoreInv
<1>6. writeQueue' # <<>>
  BY <1>4
<1>7. \A i \in DOMAIN writeQueue' : writeQueue'[i] \in Tasks
  BY <1>4
<1>8. StoreInv'
  BY <1>1, <1>4, <1>5 DEF StoreInv
<1>9. \A i \in 1..Len(writeQueue') :
        \/ writeQueue'[i].value = list
        \/ i \in 1..Len(writeQueue) /\ writeQueue'[i] = writeQueue[i]
  BY <1>2, <1>4
<1> QED BY <1>1, <1>2, <1>4, <1>6, <1>7, <1>8, <1>9

\* A step that touches none of the three places, in a process that goes on.
LEMMA ElsewhereKeepsList ==
  ASSUME LInv, UNCHANGED <<storeVars, loaded, subscribers, acked, drawn, saveLost>>, Alive' <=> Alive
  PROVE  StoreInv' /\ ListInv' /\ OnlyDrawn'
<1>1. UNCHANGED <<writeQueue, writing, tmpFile, diskFile>>
  BY DEF storeVars
<1>2. OnDisk' = OnDisk
  BY <1>1 DEF OnDisk, readJsonFile
<1>3. StoreInv'
  BY <1>1 DEF LInv, StoreInv
<1>4. ListInv'
  BY <1>1, <1>2 DEF LInv, ListInv, SubscriptionsKept
<1>5. OnlyDrawn'
  BY <1>1, <1>2 DEF LInv, OnlyDrawn
<1> QED BY <1>3, <1>4, <1>5

\* The types that concern requests and deliveries, and those of the list.
RequestTypes ==
  /\ handler \in [Requests -> {"none", "waiting", "recorded", "failed", "read", "cut"}]
  /\ open \subseteq {r \in Requests : handler[r] = "waiting"}
DeliveryTypes ==
  /\ delivery \in [Records -> [Subs -> {"none", "lookup", "posting", "settled", "cut"}]]
  /\ owed \in [Records -> SUBSET Subs]
ListTypes ==
  /\ loaded \in BOOLEAN /\ saveLost \in BOOLEAN
  /\ subscribers \subseteq drawn /\ acked \subseteq drawn /\ drawn \subseteq Subs
QueueTypes ==
  /\ writing \in WritePhases
  /\ \A i \in DOMAIN writeQueue : writeQueue[i] \in [path : Paths, value : SUBSET Subs]

LEMMA TypeParts ==
  TypeOK <=> /\ process \in {"up", "draining"} \cup Exits /\ Sound(conf)
             /\ RequestTypes /\ DeliveryTypes /\ ListTypes /\ QueueTypes
  BY DEF TypeOK, RequestTypes, DeliveryTypes, ListTypes, QueueTypes

LEMMA TypePartsNext ==
  TypeOK' <=> /\ process' \in {"up", "draining"} \cup Exits /\ Sound(conf)'
              /\ RequestTypes' /\ DeliveryTypes' /\ ListTypes' /\ QueueTypes'
  BY DEF TypeOK, RequestTypes, DeliveryTypes, ListTypes, QueueTypes

LEMMA QueueTypesHold == StoreInv /\ writing \in WritePhases => QueueTypes
<1> SUFFICES ASSUME StoreInv, writing \in WritePhases PROVE QueueTypes
  OBVIOUS
<1>1. writeQueue \in Seq(Tasks)
  BY DEF StoreInv
<1>2. \A i \in DOMAIN writeQueue : writeQueue[i] \in Tasks
  BY <1>1
<1> QED BY <1>2 DEF QueueTypes, Tasks

\* One who adds or removes: the Map becomes `list`, clients are told, it is saved.
LEMMA ChangedListIsKept ==
  ASSUME LInv, NEW list, list \subseteq drawn', drawn \subseteq drawn', drawn' \subseteq Subs,
         process = "up", StoreQuiet, loaded' = TRUE, subscribers' = list, acked' = list,
         persistToDisk(list), UNCHANGED <<procVars, delivery, saveLost, owed>>
  PROVE  LInv'
<1>1. /\ StoreInv' /\ writeQueue' # <<>>
      /\ writeQueue'[Len(writeQueue')].value = list
      /\ UNCHANGED <<writing, diskFile>>
  BY PersistKeepsStore DEF LInv
<1>2. Alive /\ Alive' /\ UNCHANGED <<process, conf, handler, open>>
  BY DEF Alive, procVars
<1>3. ListInv'
  BY <1>1, <1>2 DEF ListInv, SubscriptionsKept
<1>4. TypeOK
  BY DEF LInv
<1>5. QueueTypes'
  <2>1. writing' \in WritePhases
    BY <1>1, <1>4, TypeParts DEF QueueTypes
  <2>2. \A i \in DOMAIN writeQueue' : writeQueue'[i] \in Tasks
    BY PersistKeepsStore DEF LInv
  <2> QED BY <2>1, <2>2 DEF QueueTypes, Tasks
<1>6. ListTypes'
  BY <1>4, TypeParts DEF ListTypes
<1>7. RequestTypes' /\ DeliveryTypes' /\ process' \in {"up", "draining"} \cup Exits /\ Sound(conf)'
  BY <1>2, <1>4, TypeParts DEF RequestTypes, DeliveryTypes
<1>8. TypeOK'
  BY <1>5, <1>6, <1>7, TypePartsNext
<1>9. EventsReachSubscribers'
  BY <1>2 DEF LInv, EventsReachSubscribers
<1>10. OnlyDrawn'
  <2>1. \A i \in 1..Len(writeQueue') :
          \/ writeQueue'[i].value = list
          \/ i \in 1..Len(writeQueue) /\ writeQueue'[i] = writeQueue[i]
    BY PersistKeepsStore DEF LInv
  <2>2. OnDisk' = OnDisk
    BY <1>1 DEF OnDisk, readJsonFile
  <2> QED BY <2>1, <2>2 DEF LInv, OnlyDrawn
<1> QED BY <1>1, <1>3, <1>8, <1>9, <1>10 DEF LInv

LEMMA SubscriptionKeepsLInv ==
  ASSUME LInv, NEW s, (s \in Subs /\ (addSubscriber(s) \/ removeSubscriber(s))) \/ listSubscribers
  PROVE  LInv'
<1>1. Alive /\ process = "up" /\ StoreQuiet
  BY DEF addSubscriber, removeSubscriber, listSubscribers, Alive
<1>2. loadFromDisk = acked /\ acked \subseteq drawn /\ drawn \subseteq Subs
  BY <1>1, LoadedIsTold DEF LInv, TypeOK
<1>3. CASE s \in Subs /\ addSubscriber(s)
  <2>1. /\ loaded' = TRUE /\ subscribers' = acked \cup {s} /\ persistToDisk(subscribers')
        /\ drawn' = drawn \cup {s} /\ acked' = acked \cup {s}
        /\ UNCHANGED <<procVars, delivery, saveLost, owed>>
    BY <1>2, <1>3 DEF addSubscriber
  <2>2. persistToDisk(acked \cup {s})
    BY <2>1
  <2>3. acked \cup {s} \subseteq drawn' /\ drawn \subseteq drawn' /\ drawn' \subseteq Subs
    BY <1>2, <1>3, <2>1
  <2> QED BY <1>1, <2>1, <2>2, <2>3, ChangedListIsKept
<1>4. CASE s \in Subs /\ removeSubscriber(s) /\ s \in loadFromDisk
  <2>1. /\ loaded' = TRUE /\ subscribers' = acked \ {s} /\ persistToDisk(subscribers')
        /\ acked' = acked \ {s} /\ UNCHANGED <<procVars, drawn, delivery, saveLost, owed>>
    BY <1>2, <1>4 DEF removeSubscriber
  <2>2. persistToDisk(acked \ {s})
    BY <2>1
  <2>3. acked \ {s} \subseteq drawn' /\ drawn \subseteq drawn' /\ drawn' \subseteq Subs
    BY <1>2, <2>1
  <2> QED BY <1>1, <2>1, <2>2, <2>3, ChangedListIsKept
<1>5. CASE (removeSubscriber(s) /\ s \notin loadFromDisk) \/ listSubscribers
  <2>1. /\ loaded' = TRUE /\ subscribers' = acked
        /\ UNCHANGED <<storeVars, acked, procVars, drawn, delivery, saveLost, owed>>
    BY <1>2, <1>5 DEF removeSubscriber, listSubscribers
  <2>2. UNCHANGED <<writeQueue, writing, tmpFile, diskFile, process, conf, handler, open>>
    BY <2>1 DEF storeVars, procVars
  <2>3. StoreInv'
    BY <2>2 DEF LInv, StoreInv
  <2>4. OnDisk' = OnDisk /\ (Alive' <=> Alive)
    BY <2>2 DEF OnDisk, readJsonFile, Alive
  <2>5. ListInv'
    BY <1>1, <2>1, <2>2, <2>4 DEF LInv, ListInv, SubscriptionsKept
  <2>6. TypeOK'
    BY <1>2, <2>1, <2>2 DEF LInv, TypeOK
  <2>7. EventsReachSubscribers'
    BY <2>1, <2>2 DEF LInv, EventsReachSubscribers
  <2>8. OnlyDrawn'
    BY <2>1, <2>2, <2>4 DEF LInv, OnlyDrawn
  <2> QED BY <2>3, <2>5, <2>6, <2>7, <2>8 DEF LInv
<1> QED BY <1>3, <1>4, <1>5

-----------------------------------------------------------------------------
(* Requests and deliveries *)

LEMMA RequestKeepsLInv ==
  ASSUME LInv, RequestStep
  PROVE  LInv'
<1>1. /\ TypeOK /\ EventsReachSubscribers
      /\ process \in {"up", "draining"} \cup Exits /\ Sound(conf)
      /\ RequestTypes /\ DeliveryTypes /\ ListTypes /\ QueueTypes
  BY TypeParts DEF LInv
<1>2. CASE \E r \in Requests : Arrive(r) \/ SocketTimeout(r)
  <2>1. PICK r \in Requests : Arrive(r) \/ SocketTimeout(r)
    BY <1>2
  <2>2. /\ UNCHANGED <<storeVars, process, conf, loaded, subscribers, acked, drawn, delivery, saveLost, owed>>
        /\ \A e \in Records : handler'[e] = "recorded" => handler[e] = "recorded"
    BY <1>1, <2>1 DEF Arrive, SocketTimeout, hookVars, RequestTypes, Requests
  <2>3. RequestTypes'
    BY <1>1, <2>1 DEF Arrive, SocketTimeout, RequestTypes
  <2>4. Alive' <=> Alive
    BY <2>2 DEF Alive
  <2>5. StoreInv' /\ ListInv' /\ OnlyDrawn'
    BY <2>2, <2>4, ElsewhereKeepsList
  <2>6. UNCHANGED <<writeQueue, writing>>
    BY <2>2 DEF storeVars
  <2>7. DeliveryTypes' /\ ListTypes' /\ QueueTypes'
    BY <1>1, <2>2, <2>6 DEF DeliveryTypes, ListTypes, QueueTypes
  <2>8. TypeOK'
    BY <1>1, <2>2, <2>3, <2>7, TypePartsNext
  <2>9. EventsReachSubscribers'
    BY <1>1, <2>2 DEF EventsReachSubscribers
  <2> QED BY <2>5, <2>8, <2>9 DEF LInv
<1>3. CASE (\E e \in Records : RecordFailed(e)) \/ (\E r \in Reads : ReadDone(r))
  <2>1. PICK r \in Requests : \E how \in {"failed", "read"} :
          /\ Finish(r, how)
          /\ UNCHANGED <<storeVars, process, conf, hookVars, delivery, saveLost, owed>>
    BY <1>3 DEF RecordFailed, ReadDone, Requests
  <2>2. /\ UNCHANGED <<storeVars, process, conf, loaded, subscribers, acked, drawn, delivery, saveLost, owed>>
        /\ \A e \in Records : handler'[e] = "recorded" => handler[e] = "recorded"
    BY <1>1, <2>1 DEF Finish, hookVars, RequestTypes, Requests
  <2>3. RequestTypes'
    BY <1>1, <2>1 DEF Finish, RequestTypes
  <2>4. Alive' <=> Alive
    BY <2>2 DEF Alive
  <2>5. StoreInv' /\ ListInv' /\ OnlyDrawn'
    BY <2>2, <2>4, ElsewhereKeepsList
  <2>6. UNCHANGED <<writeQueue, writing>>
    BY <2>2 DEF storeVars
  <2>7. DeliveryTypes' /\ ListTypes' /\ QueueTypes'
    BY <1>1, <2>2, <2>6 DEF DeliveryTypes, ListTypes, QueueTypes
  <2>8. TypeOK'
    BY <1>1, <2>2, <2>3, <2>7, TypePartsNext
  <2>9. EventsReachSubscribers'
    BY <1>1, <2>2 DEF EventsReachSubscribers
  <2> QED BY <2>5, <2>8, <2>9 DEF LInv
<1>4. CASE \E e \in Records : RecordDone(e)
  <2>1. PICK e \in Records : RecordDone(e)
    BY <1>4
  <2>2. Alive /\ loadFromDisk = acked
    BY <2>1, LoadedIsTold DEF RecordDone, Finish
  <2>3. /\ UNCHANGED <<storeVars, process, conf, acked, drawn, saveLost>>
        /\ loaded' = TRUE /\ subscribers' = acked
        /\ owed' = [owed EXCEPT ![e] = acked]
        /\ delivery' = [delivery EXCEPT ![e] =
             [s \in Subs |-> IF s \in acked THEN "lookup" ELSE "none"]]
        /\ handler' = [handler EXCEPT ![e] = "recorded"]
        /\ open' = open \ {e}
    BY <2>1, <2>2 DEF RecordDone, Finish, fireWebhook
  <2>4. UNCHANGED <<writeQueue, writing, tmpFile, diskFile>>
    BY <2>3 DEF storeVars
  <2>5. acked \subseteq Subs
    BY <1>1 DEF ListTypes
  <2>6. RequestTypes'
    BY <1>1, <2>3 DEF RequestTypes, Requests
  <2>7. DeliveryTypes'
    BY <1>1, <2>3, <2>5 DEF DeliveryTypes
  <2>8. ListTypes' /\ QueueTypes'
    BY <1>1, <2>3, <2>4 DEF ListTypes, QueueTypes
  <2>9. TypeOK'
    BY <1>1, <2>3, <2>6, <2>7, <2>8, TypePartsNext
  <2>10. StoreInv'
    BY <2>4 DEF LInv, StoreInv
  <2>11. OnDisk' = OnDisk /\ Alive'
    BY <2>2, <2>3, <2>4 DEF OnDisk, readJsonFile, Alive
  <2>12. ListInv'
    BY <2>2, <2>3, <2>4, <2>11 DEF LInv, ListInv, SubscriptionsKept
  <2>13. OnlyDrawn'
    BY <2>3, <2>4, <2>11 DEF LInv, OnlyDrawn
  <2>14. EventsReachSubscribers'
    <3> SUFFICES ASSUME NEW f \in Records, handler'[f] = "recorded"
                 PROVE  {s \in Subs : delivery'[f][s] # "none"} = owed'[f]
      BY DEF EventsReachSubscribers
    <3>1. CASE f = e
      <4>1. \A s \in Subs : delivery'[e][s] # "none" <=> s \in acked
        BY <1>1, <2>3 DEF DeliveryTypes
      <4>2. owed'[e] = acked
        BY <1>1, <2>3 DEF DeliveryTypes
      <4> QED BY <2>5, <3>1, <4>1, <4>2
    <3>2. CASE f # e
      <4>1. delivery'[f] = delivery[f] /\ owed'[f] = owed[f] /\ handler'[f] = handler[f]
        BY <1>1, <2>3, <3>2 DEF DeliveryTypes, RequestTypes, Requests
      <4> QED BY <1>1, <4>1 DEF EventsReachSubscribers
    <3> QED BY <3>1, <3>2
  <2> QED BY <2>9, <2>10, <2>12, <2>13, <2>14 DEF LInv
<1> QED BY <1>2, <1>3, <1>4 DEF RequestStep

LEMMA DeliveryKeepsLInv ==
  ASSUME LInv, NEW e \in Records, NEW s \in Subs,
         NEW from \in {"lookup", "posting"}, NEW to \in {"posting", "settled"},
         Deliver(e, s, from, to)
  PROVE  LInv'
<1>1. /\ TypeOK /\ EventsReachSubscribers
      /\ process \in {"up", "draining"} \cup Exits /\ Sound(conf)
      /\ RequestTypes /\ DeliveryTypes /\ ListTypes /\ QueueTypes
  BY TypeParts DEF LInv
<1>2. /\ UNCHANGED <<storeVars, process, conf, handler, open, loaded, subscribers, acked, drawn, saveLost, owed>>
      /\ delivery' = [delivery EXCEPT ![e][s] = to] /\ delivery[e][s] = from
  BY DEF Deliver, procVars, hookVars
<1>3. UNCHANGED <<writeQueue, writing>> /\ (Alive' <=> Alive)
  BY <1>2 DEF storeVars, Alive
<1>4. StoreInv' /\ ListInv' /\ OnlyDrawn'
  BY <1>2, <1>3, ElsewhereKeepsList
<1>5. DeliveryTypes'
  BY <1>1, <1>2 DEF DeliveryTypes
<1>6. RequestTypes' /\ ListTypes' /\ QueueTypes'
  BY <1>1, <1>2, <1>3 DEF RequestTypes, ListTypes, QueueTypes
<1>7. TypeOK'
  BY <1>1, <1>2, <1>5, <1>6, TypePartsNext
<1>8. \A f \in Records, t \in Subs : delivery'[f][t] # "none" <=> delivery[f][t] # "none"
  BY <1>1, <1>2 DEF DeliveryTypes
<1>9. EventsReachSubscribers'
  BY <1>1, <1>2, <1>8 DEF EventsReachSubscribers
<1> QED BY <1>4, <1>7, <1>9 DEF LInv

-----------------------------------------------------------------------------
(* The disk *)

\* The task at the head of the chain, and what is left when it is done.
LEMMA HeadAndTail ==
  ASSUME StoreInv, OnlyDrawn, writeQueue # <<>>
  PROVE  /\ Head(writeQueue) \in Tasks
         /\ Head(writeQueue).path = WebhooksJson
         /\ Head(writeQueue).value \subseteq drawn
         /\ Tail(writeQueue) \in Seq(Tasks)
         /\ \A i \in 1..Len(Tail(writeQueue)) :
              i + 1 \in 1..Len(writeQueue) /\ Tail(writeQueue)[i] = writeQueue[i + 1]
         /\ Tail(writeQueue) = <<>> =>
              Head(writeQueue).value = writeQueue[Len(writeQueue)].value
         /\ Tail(writeQueue) # <<>> =>
              Tail(writeQueue)[Len(Tail(writeQueue))] = writeQueue[Len(writeQueue)]
<1>1. writeQueue \in Seq(Tasks)
  BY DEF StoreInv
<1>2. 1 \in 1..Len(writeQueue) /\ Head(writeQueue) = writeQueue[1] /\ writeQueue[1] \in Tasks
  BY <1>1
<1>3. /\ Tail(writeQueue) \in Seq(Tasks)
      /\ Len(Tail(writeQueue)) = Len(writeQueue) - 1
      /\ \A i \in 1..Len(Tail(writeQueue)) :
           i + 1 \in 1..Len(writeQueue) /\ Tail(writeQueue)[i] = writeQueue[i + 1]
  BY <1>1
<1>4. Tail(writeQueue) = <<>> => Len(writeQueue) = 1
  BY <1>1, <1>3
<1>5. Tail(writeQueue) # <<>> => Len(Tail(writeQueue)) \in 1..Len(Tail(writeQueue))
  BY <1>1, <1>3
<1>6. Tail(writeQueue) # <<>> =>
        Tail(writeQueue)[Len(Tail(writeQueue))] = writeQueue[Len(writeQueue)]
  BY <1>1, <1>3, <1>5
<1> QED BY <1>2, <1>3, <1>4, <1>6 DEF StoreInv, OnlyDrawn

\* A chain that is one task shorter is a chain of the same kind.
LEMMA ShorterChain ==
  ASSUME LInv, writeQueue # <<>>, writeQueue' = Tail(writeQueue), writing' = "idle",
         UNCHANGED <<acked, drawn>>
  PROVE  /\ writeQueue' \in Seq(Tasks)
         /\ \A i \in 1..Len(writeQueue') : writeQueue'[i].path = WebhooksJson
         /\ \A i \in 1..Len(writeQueue') : writeQueue'[i].value \subseteq drawn'
         /\ writeQueue' # <<>> => writeQueue'[Len(writeQueue')].value = acked'
         /\ QueueTypes'
<1>1. /\ writeQueue' \in Seq(Tasks)
      /\ \A i \in 1..Len(writeQueue') :
           i + 1 \in 1..Len(writeQueue) /\ writeQueue'[i] = writeQueue[i + 1]
      /\ writeQueue' # <<>> => writeQueue'[Len(writeQueue')] = writeQueue[Len(writeQueue)]
  BY HeadAndTail DEF LInv
<1>2. \A i \in DOMAIN writeQueue' : writeQueue'[i] \in Tasks
  BY <1>1
<1>3. QueueTypes'
  BY <1>2 DEF QueueTypes, Tasks, WritePhases
<1> QED BY <1>1, <1>3 DEF LInv, StoreInv, OnlyDrawn, ListInv

\* A step of the store leaves requests, deliveries and the Map as they are.
LEMMA StoreStepFrame ==
  ASSUME LInv, Alive, UNCHANGED <<procVars, hookVars, delivery, owed>>,
         saveLost' \in BOOLEAN, QueueTypes'
  PROVE  TypeOK' /\ EventsReachSubscribers' /\ Alive'
<1>1. /\ TypeOK /\ process \in {"up", "draining"} \cup Exits /\ Sound(conf)
      /\ RequestTypes /\ DeliveryTypes /\ ListTypes
  BY TypeParts DEF LInv
<1>2. UNCHANGED <<process, conf, handler, open, loaded, subscribers, acked, drawn, delivery, owed>>
  BY DEF procVars, hookVars
<1>3. RequestTypes' /\ DeliveryTypes' /\ ListTypes'
  BY <1>1, <1>2 DEF RequestTypes, DeliveryTypes, ListTypes
<1>4. TypeOK'
  BY <1>1, <1>2, <1>3, TypePartsNext
<1> QED BY <1>2, <1>4 DEF LInv, EventsReachSubscribers, Alive

LEMMA SaveStepKeepsLInv ==
  ASSUME LInv, SaveStep
  PROVE  LInv'
<1>1. /\ Alive /\ StoreStep /\ UNCHANGED <<procVars, hookVars, delivery, owed>>
      /\ UNCHANGED <<loaded, subscribers, acked, drawn>>
      /\ saveLost' = IF writing = "rename" /\ Tail(writeQueue) = <<>> THEN FALSE ELSE saveLost
  BY DEF SaveStep, hookVars
<1>2. saveLost' \in BOOLEAN /\ QueueTypes /\ StoreInv /\ OnlyDrawn /\ ListInv
  BY <1>1, TypeParts DEF LInv, ListTypes
<1>3. writeQueue # <<>>
  BY <1>1, <1>2 DEF StoreInv, StoreStep, OpenTmp, FillTmp, RenameTmp
<1>4. /\ Head(writeQueue) \in Tasks /\ Head(writeQueue).path = WebhooksJson
      /\ Head(writeQueue).value \subseteq drawn
      /\ Head(writeQueue).value \in SUBSET Subs /\ WebhooksJson \in Paths
  BY <1>2, <1>3, HeadAndTail, LifecycleConstants DEF Tasks
<1>5. CASE OpenTmp \/ FillTmp
  <2>1. /\ UNCHANGED <<writeQueue, diskFile>> /\ writing' \in {"tmp", "rename"}
        /\ writing' = "rename" =>
             tmpFile' = [tmpFile EXCEPT ![WebhooksJson] = Head(writeQueue).value]
        /\ \E c \in (SUBSET Subs) \cup {Torn} : tmpFile' = [tmpFile EXCEPT ![WebhooksJson] = c]
        /\ saveLost' = saveLost
    BY <1>1, <1>4, <1>5 DEF OpenTmp, FillTmp
  <2>2. tmpFile \in Stored
    BY <1>2 DEF StoreInv
  <2>3. tmpFile' \in Stored
    BY <1>4, <2>1, <2>2 DEF Stored
  <2>4. writing' = "rename" => tmpFile'[WebhooksJson] = Head(writeQueue').value
    BY <1>4, <2>1, <2>2 DEF Stored
  <2>5. StoreInv'
    BY <1>2, <1>3, <2>1, <2>3, <2>4 DEF StoreInv
  <2>6. QueueTypes'
    BY <1>2, <2>1 DEF QueueTypes, WritePhases
  <2>7. TypeOK' /\ EventsReachSubscribers' /\ Alive'
    BY <1>1, <1>2, <2>6, StoreStepFrame
  <2>8. OnDisk' = OnDisk
    BY <2>1 DEF OnDisk, readJsonFile
  <2>9. ListInv'
    BY <1>1, <1>2, <1>3, <2>1, <2>7, <2>8 DEF ListInv, SubscriptionsKept
  <2>10. OnlyDrawn'
    BY <1>1, <1>2, <2>1, <2>8 DEF OnlyDrawn
  <2> QED BY <2>5, <2>7, <2>9, <2>10 DEF LInv
<1>6. CASE RenameTmp
  <2>1. /\ writing = "rename" /\ writing' = "idle" /\ writeQueue' = Tail(writeQueue)
        /\ diskFile' = [diskFile EXCEPT ![WebhooksJson] = Head(writeQueue).value]
        /\ tmpFile' = [tmpFile EXCEPT ![WebhooksJson] = NoFile]
    BY <1>2, <1>4, <1>6 DEF RenameTmp, StoreInv
  <2>2. /\ writeQueue' \in Seq(Tasks)
        /\ \A i \in 1..Len(writeQueue') : writeQueue'[i].path = WebhooksJson
        /\ \A i \in 1..Len(writeQueue') : writeQueue'[i].value \subseteq drawn'
        /\ writeQueue' # <<>> => writeQueue'[Len(writeQueue')].value = acked'
        /\ QueueTypes'
    BY <1>1, <1>3, <2>1, ShorterChain
  <2>3. tmpFile \in Stored /\ diskFile \in Stored
    BY <1>2 DEF StoreInv
  <2>4. /\ tmpFile' \in Stored /\ diskFile' \in Stored
        /\ diskFile'[WebhooksJson] = Head(writeQueue).value
    BY <1>4, <2>1, <2>3 DEF Stored
  <2>5. Head(writeQueue).value \notin {NoFile, Torn}
    BY <1>4, ListsAreContent
  <2>6. StoreInv'
    BY <2>1, <2>2, <2>4, <2>5 DEF StoreInv
  <2>7. OnDisk' = Head(writeQueue).value
    BY <2>4, <2>5 DEF OnDisk, readJsonFile
  <2>8. TypeOK' /\ EventsReachSubscribers' /\ Alive'
    BY <1>1, <1>2, <2>2, StoreStepFrame
  <2>9. OnlyDrawn'
    BY <1>1, <1>4, <2>2, <2>7 DEF OnlyDrawn
  <2>10. writeQueue' = <<>> => OnDisk' = acked'
    BY <1>1, <1>2, <1>3, <2>1, <2>7, HeadAndTail DEF ListInv
  <2>11. loaded' = TRUE /\ subscribers' = acked'
    BY <1>1, <1>2, <1>3 DEF ListInv, LInv, TypeOK
  <2>12. ListInv'
    BY <2>1, <2>2, <2>8, <2>10, <2>11 DEF ListInv, SubscriptionsKept
  <2> QED BY <2>6, <2>8, <2>9, <2>12 DEF LInv
<1> QED BY <1>1, <1>5, <1>6 DEF StoreStep

LEMMA SaveFailsKeepsLInv ==
  ASSUME LInv, SaveFails
  PROVE  LInv'
<1>1. /\ Alive /\ UNCHANGED <<procVars, hookVars, delivery, owed>>
      /\ UNCHANGED <<loaded, subscribers, acked, drawn, tmpFile, diskFile>>
      /\ saveLost' = TRUE
      /\ writeQueue # <<>> /\ writing' = "idle" /\ writeQueue' = Tail(writeQueue)
  BY DEF SaveFails, WriteFails, hookVars
<1>2. /\ writeQueue' \in Seq(Tasks)
      /\ \A i \in 1..Len(writeQueue') : writeQueue'[i].path = WebhooksJson
      /\ \A i \in 1..Len(writeQueue') : writeQueue'[i].value \subseteq drawn'
      /\ writeQueue' # <<>> => writeQueue'[Len(writeQueue')].value = acked'
      /\ QueueTypes'
  BY <1>1, ShorterChain
<1>3. TypeOK' /\ EventsReachSubscribers' /\ Alive'
  BY <1>1, <1>2, StoreStepFrame
<1>4. StoreInv'
  BY <1>1, <1>2 DEF LInv, StoreInv
<1>5. OnDisk' = OnDisk
  BY <1>1 DEF OnDisk, readJsonFile
<1>6. OnlyDrawn'
  BY <1>1, <1>2, <1>5 DEF LInv, OnlyDrawn
<1>7. loaded' = TRUE /\ subscribers' = acked'
  BY <1>1 DEF LInv, ListInv, TypeOK
<1>8. ListInv'
  BY <1>1, <1>2, <1>3, <1>7 DEF ListInv, SubscriptionsKept
<1> QED BY <1>3, <1>4, <1>6, <1>8 DEF LInv

-----------------------------------------------------------------------------
(* The process *)

\* However it ends, requests and deliveries that were under way are cut short.
LEMMA DieTypes ==
  ASSUME LInv, NEW how \in Exits, Die(how)
  PROVE  /\ RequestTypes' /\ DeliveryTypes' /\ EventsReachSubscribers'
         /\ process' = how /\ ~Alive'
         /\ UNCHANGED <<conf, loaded, subscribers, acked, drawn, owed>>
<1>1. TypeOK /\ EventsReachSubscribers /\ RequestTypes /\ DeliveryTypes
  BY TypeParts DEF LInv
<1>2. /\ process' = how /\ open' = {}
      /\ UNCHANGED <<conf, loaded, subscribers, acked, drawn, owed>>
      /\ handler' = [r \in Requests |-> IF handler[r] = "waiting" THEN "cut" ELSE handler[r]]
      /\ delivery' = [e \in Records |-> [s \in Subs |->
           IF delivery[e][s] \in {"lookup", "posting"} THEN "cut" ELSE delivery[e][s]]]
  BY DEF Die, hookVars
<1>3. RequestTypes'
  BY <1>1, <1>2 DEF RequestTypes
<1>4. DeliveryTypes'
  BY <1>1, <1>2 DEF DeliveryTypes
<1>5. ~Alive'
  BY <1>2 DEF Alive, Exits
<1>6. \A e \in Records : handler'[e] = "recorded" => handler[e] = "recorded"
  BY <1>1, <1>2 DEF RequestTypes, Requests
<1>7. \A e \in Records, s \in Subs : delivery'[e][s] # "none" <=> delivery[e][s] # "none"
  BY <1>1, <1>2 DEF DeliveryTypes
<1>8. EventsReachSubscribers'
  BY <1>1, <1>2, <1>6, <1>7 DEF EventsReachSubscribers
<1> QED BY <1>2, <1>3, <1>4, <1>5, <1>8

\* With a drained chain an exit loses nothing.
LEMMA ExitKeepsLInv ==
  ASSUME LInv, NEW how \in Exits, Die(how), writeQueue = <<>>,
         UNCHANGED <<storeVars, saveLost>>
  PROVE  LInv'
<1>1. /\ RequestTypes' /\ DeliveryTypes' /\ EventsReachSubscribers'
      /\ process' = how /\ ~Alive'
      /\ UNCHANGED <<conf, loaded, subscribers, acked, drawn, owed>>
  BY DieTypes
<1>2. UNCHANGED <<writeQueue, writing, tmpFile, diskFile, saveLost>>
  BY DEF storeVars
<1>3. ListTypes' /\ QueueTypes'
  BY <1>1, <1>2, TypeParts DEF LInv, ListTypes, QueueTypes
<1>4. TypeOK'
  BY <1>1, <1>3, TypeParts, TypePartsNext DEF LInv
<1>5. StoreInv'
  BY <1>2 DEF LInv, StoreInv
<1>6. OnDisk' = OnDisk
  BY <1>2 DEF OnDisk, readJsonFile
<1>7. OnlyDrawn'
  BY <1>1, <1>2, <1>6 DEF LInv, OnlyDrawn
<1>8. writing = "idle"
  BY TypeParts DEF LInv, StoreInv, QueueTypes, WritePhases
<1>9. ListInv'
  BY <1>1, <1>2, <1>6, <1>8 DEF LInv, ListInv, SubscriptionsKept
<1> QED BY <1>1, <1>4, <1>5, <1>7, <1>9 DEF LInv

LEMMA KillKeepsLInv ==
  ASSUME LInv, Kill
  PROVE  LInv'
<1>1. /\ Die("killed") /\ "killed" \in Exits
      /\ writeQueue' = <<>> /\ writing' = "idle" /\ UNCHANGED <<tmpFile, diskFile>>
      /\ saveLost' = (saveLost \/ writeQueue # <<>>)
  BY DEF Kill, StoreCrash, Exits
<1>2. /\ RequestTypes' /\ DeliveryTypes' /\ EventsReachSubscribers'
      /\ process' \in Exits /\ ~Alive'
      /\ UNCHANGED <<conf, loaded, subscribers, acked, drawn, owed>>
  BY <1>1, DieTypes
<1>3. ListTypes'
  BY <1>1, <1>2, TypeParts DEF LInv, ListTypes
<1>4. QueueTypes' /\ writeQueue' \in Seq(Tasks) /\ 1..Len(writeQueue') = {}
  BY <1>1 DEF QueueTypes, WritePhases
<1>5. TypeOK'
  BY <1>2, <1>3, <1>4, TypeParts, TypePartsNext DEF LInv
<1>6. StoreInv'
  BY <1>1, <1>4 DEF LInv, StoreInv
<1>7. OnDisk' = OnDisk
  BY <1>1 DEF OnDisk, readJsonFile
<1>8. OnlyDrawn'
  BY <1>2, <1>4, <1>7 DEF LInv, OnlyDrawn
<1>9. ~saveLost' => ~saveLost /\ writeQueue = <<>>
  BY <1>1, TypeParts DEF LInv, ListTypes
<1>10. ListInv'
  BY <1>1, <1>2, <1>7, <1>9 DEF LInv, ListInv, SubscriptionsKept
<1> QED BY <1>2, <1>5, <1>6, <1>8, <1>10 DEF LInv

LEMMA MainKeepsLInv ==
  ASSUME LInv, NEW env \in Environments, main(env)
  PROVE  LInv'
<1>1. /\ process \in Exits /\ process' = "up" /\ loaded' = FALSE /\ subscribers' = {}
      /\ acked' = OnDisk /\ saveLost' = FALSE /\ Sound(conf')
      /\ UNCHANGED <<writeQueue, writing, tmpFile, diskFile, handler, open, drawn, delivery, owed>>
  BY AcceptedIsSound, LifecycleConstants DEF main, storeVars
<1>2. ~Alive /\ Alive'
  BY <1>1 DEF Alive, Exits
<1>3. OnDisk' = OnDisk
  BY <1>1 DEF OnDisk, readJsonFile
<1>4. StoreInv' /\ OnlyDrawn'
  BY <1>1, <1>3 DEF LInv, StoreInv, OnlyDrawn
<1>5. ListTypes'
  BY <1>1, TypeParts DEF LInv, ListTypes, OnlyDrawn
<1>6. RequestTypes' /\ DeliveryTypes' /\ QueueTypes'
  BY <1>1, TypeParts DEF LInv, RequestTypes, DeliveryTypes, QueueTypes
<1>7. TypeOK'
  BY <1>1, <1>5, <1>6, TypePartsNext
<1>8. ListInv'
  BY <1>1, <1>2, <1>3 DEF LInv, ListInv, SubscriptionsKept
<1>9. EventsReachSubscribers'
  BY <1>1 DEF LInv, EventsReachSubscribers
<1> QED BY <1>4, <1>7, <1>8, <1>9 DEF LInv

\* A shutdown that begins, and a step of something else, change nothing here.
LEMMA ProcessKeepsLInv ==
  ASSUME LInv, ProcessStep
  PROVE  LInv'
<1>1. CASE gracefulShutdown
  <2>1. /\ process' = "draining" /\ Alive /\ Alive' /\ UNCHANGED storeVars
        /\ UNCHANGED <<conf, handler, open, loaded, subscribers, acked, drawn, delivery, saveLost, owed>>
    BY <1>1 DEF gracefulShutdown, hookVars, Alive
  <2>2. StoreInv' /\ ListInv' /\ OnlyDrawn'
    BY <2>1, ElsewhereKeepsList
  <2>3. UNCHANGED <<writeQueue, writing>>
    BY <2>1 DEF storeVars
  <2>4. RequestTypes' /\ DeliveryTypes' /\ ListTypes' /\ QueueTypes'
    BY <2>1, <2>3, TypeParts DEF LInv, RequestTypes, DeliveryTypes, ListTypes, QueueTypes
  <2>5. TypeOK'
    BY <2>1, <2>4, TypeParts, TypePartsNext DEF LInv
  <2>6. EventsReachSubscribers'
    BY <2>1 DEF LInv, EventsReachSubscribers
  <2> QED BY <2>2, <2>5, <2>6 DEF LInv
<1>2. CASE ServerClosed \/ ForcedExit
  BY <1>2, ExitKeepsLInv DEF ServerClosed, ForcedExit, Exits
<1>3. CASE \E env \in Environments : Refused(env)
  <2>1. /\ process \in Exits /\ process' \in Exits /\ UNCHANGED storeVars
        /\ UNCHANGED <<conf, handler, open, loaded, subscribers, acked, drawn, delivery, saveLost, owed>>
    BY <1>3 DEF Refused, hookVars, Exits
  <2>2. Alive' <=> Alive
    BY <2>1 DEF Alive, Exits
  <2>3. StoreInv' /\ ListInv' /\ OnlyDrawn'
    BY <2>1, <2>2, ElsewhereKeepsList
  <2>4. UNCHANGED <<writeQueue, writing>>
    BY <2>1 DEF storeVars
  <2>5. RequestTypes' /\ DeliveryTypes' /\ ListTypes' /\ QueueTypes'
    BY <2>1, <2>4, TypeParts DEF LInv, RequestTypes, DeliveryTypes, ListTypes, QueueTypes
  <2>6. TypeOK'
    BY <2>1, <2>5, TypeParts, TypePartsNext DEF LInv
  <2>7. EventsReachSubscribers'
    BY <2>1 DEF LInv, EventsReachSubscribers
  <2> QED BY <2>3, <2>6, <2>7 DEF LInv
<1> QED BY <1>1, <1>2, <1>3, KillKeepsLInv, MainKeepsLInv DEF ProcessStep

-----------------------------------------------------------------------------
(* The theorems *)

LEMMA InitLInv == Init => LInv
<1> SUFFICES ASSUME Init PROVE LInv
  OBVIOUS
<1>1. /\ writeQueue = <<>> /\ writing = "idle"
      /\ tmpFile = [p \in Paths |-> NoFile] /\ diskFile = [p \in Paths |-> NoFile]
      /\ process = "up" /\ Sound(conf) /\ open = {} /\ loaded = FALSE /\ subscribers = {} /\ acked = {}
      /\ drawn = {} /\ saveLost = FALSE
      /\ handler = [r \in Requests |-> "none"]
      /\ delivery = [e \in Records |-> [s \in Subs |-> "none"]]
      /\ owed = [e \in Records |-> {}]
  BY AcceptedIsSound, LifecycleConstants DEF Init, StoreInit
<1>2. diskFile[WebhooksJson] = NoFile /\ NoFile # Torn
  BY <1>1, LifecycleConstants, SentinelsDiffer
<1>3. OnDisk = {}
  BY <1>2 DEF OnDisk, readJsonFile
<1>4. writeQueue \in Seq(Tasks) /\ 1..Len(writeQueue) = {} /\ DOMAIN writeQueue = {}
  BY <1>1
<1>5. StoreInv
  BY <1>1, <1>2, <1>4 DEF StoreInv, Stored
<1>6. RequestTypes /\ DeliveryTypes /\ ListTypes /\ QueueTypes
  BY <1>1, <1>4 DEF RequestTypes, DeliveryTypes, ListTypes, QueueTypes, WritePhases
<1>7. TypeOK
  BY <1>1, <1>6, TypeParts
<1>8. ListInv
  BY <1>1, <1>3 DEF ListInv, SubscriptionsKept
<1>9. OnlyDrawn
  BY <1>3, <1>4 DEF OnlyDrawn
<1>10. EventsReachSubscribers
  BY <1>1 DEF EventsReachSubscribers, Requests
<1> QED BY <1>5, <1>7, <1>8, <1>9, <1>10 DEF LInv

LEMMA NextLInv == LInv /\ [Next]_vars => LInv'
<1> SUFFICES ASSUME LInv, [Next]_vars PROVE LInv'
  OBVIOUS
<1>1. CASE SubscriptionStep
  BY <1>1, SubscriptionKeepsLInv DEF SubscriptionStep
<1>2. CASE DeliveryStep
  BY <1>2, DeliveryKeepsLInv DEF DeliveryStep, HostAllowed, HostRefused, PostEnds
<1>3. CASE UNCHANGED vars
  <2>1. /\ UNCHANGED <<writeQueue, writing, tmpFile, diskFile, process, conf, handler, open>>
        /\ UNCHANGED <<loaded, subscribers, acked, drawn, delivery, saveLost, owed>>
    BY <1>3 DEF vars, storeVars, procVars, hookVars
  <2>2. UNCHANGED storeVars /\ (Alive' <=> Alive)
    BY <2>1 DEF storeVars, Alive
  <2>3. StoreInv' /\ ListInv' /\ OnlyDrawn'
    BY <2>1, <2>2, ElsewhereKeepsList
  <2>4. TypeOK' /\ EventsReachSubscribers'
    BY <2>1 DEF LInv, TypeOK, EventsReachSubscribers
  <2> QED BY <2>3, <2>4 DEF LInv
<1> QED
  BY <1>1, <1>2, <1>3, RequestKeepsLInv, SaveStepKeepsLInv, SaveFailsKeepsLInv,
     ProcessKeepsLInv DEF Next

(***************************************************************************)
(* Whatever the processes do and however they end, the invariant that ties *)
(* the Map, the chain of saves and the subscriber file together holds.     *)
(***************************************************************************)
THEOREM ListsAgree == Spec => []LInv
<1> QED BY InitLInv, NextLInv, PTL DEF Spec

\* Every variable of the process, its requests and its webhooks has its type.
THEOREM LifecycleTypes == Spec => []TypeOK
<1>1. LInv => TypeOK
  BY DEF LInv
<1> QED BY <1>1, ListsAgree, PTL

(***************************************************************************)
(* persistToDisk, loadFromDisk and the shutdown: with the chain drained,   *)
(* no write failed and no kill in the middle of a save, the file holds the *)
(* subscriptions that clients were told of, over any number of restarts.   *)
(***************************************************************************)
THEOREM SubscriptionsSurvive == Spec => []SubscriptionsKept
<1>1. LInv => SubscriptionsKept
  BY DEF LInv, ListInv
<1> QED BY <1>1, ListsAgree, PTL

\* fireWebhook addresses an event to the subscribers acknowledged at that moment.
THEOREM EventsAreAddressed == Spec => []EventsReachSubscribers
<1>1. LInv => EventsReachSubscribers
  BY DEF LInv
<1> QED BY <1>1, ListsAgree, PTL
=============================================================================
