------------------------------ MODULE Lifecycle ------------------------------
(***************************************************************************)
(* The life of the process (src/index.ts) and the reputation webhooks      *)
(* (src/lib/webhooks.ts): subscriptions kept in a Map that is loaded from  *)
(* its file on first use and saved after every change, deliveries fired    *)
(* after an event is recorded and never awaited, and a shutdown that       *)
(* drains open connections for ten seconds and then exits regardless.      *)
(*                                                                         *)
(* A request is a record request, whose calls to the node are all raced    *)
(* against a timer (lib/timeout.ts), or a read that awaits algod.status    *)
(* with no timer (passport.ts, /ready, /health/deep), which may never      *)
(* settle.  The socket timeout of requestDeadlineMiddleware closes a       *)
(* connection without stopping its handler.                                *)
(***************************************************************************)
EXTENDS JsonStore, Configuration, FiniteSets

CONSTANTS
  Records,      \* requests that record a reputation event (awaits with a timer)
  Reads,        \* requests that await the node without a timer
  Subs,         \* the ids addSubscriber draws, each drawn once
  UrlOf,        \* the url of each: "https", "http", or "other", which none may have
  Environments, \* the environments a process may be started with
  WebhooksJson, \* the file of the subscriber list
  MaxQueue      \* bound: saves of the list waiting at one time

ASSUME LifecycleConstants ==
  /\ WebhooksJson \in Paths
  /\ Records \cap Reads = {}
  /\ MaxQueue \in Nat \ {0}
  /\ UrlOf \in [Subs -> {"https", "http", "other"}]
  /\ Environments \subseteq Environment

\* A subscriber list is never taken for a missing or a torn file.
ASSUME ListsAreContent == \A list \in SUBSET Subs : list \notin {NoFile, Torn}

VARIABLES
  process,      \* "up", "draining" (shuttingDown), or how it ended
  conf,         \* the configuration of this process
  loaded,       \* has the subscriber file been read by this process
  subscribers,  \* the ids in the Map
  handler,      \* how far the handler of each request has got
  open,         \* requests whose connection the HTTP server still holds
  delivery,     \* delivery[e][s]: the POST of event e to subscriber s
  acked,        \* ghost: the subscriptions clients were told exist
  drawn,        \* ghost: the ids drawn so far
  saveLost,     \* ghost: did the disk miss the newest save
  owed          \* ghost: owed[e]: acked at the moment e was recorded

procVars == <<process, conf, handler, open>>
hookVars == <<loaded, subscribers, acked, drawn>>
vars == <<storeVars, procVars, hookVars, delivery, saveLost, owed>>

Requests == Records \cup Reads
Exits == {"exit0", "exit1", "killed"}
Alive == process \in {"up", "draining"}
OnDisk == readJsonFile(WebhooksJson, {})

Init ==
  /\ StoreInit
  /\ process = "up"
  /\ \E env \in Environments : validateConfig(env) /\ conf = config(env)
  /\ handler = [r \in Requests |-> "none"]
  /\ open = {}
  /\ loaded = FALSE
  /\ subscribers = {}
  /\ acked = {}
  /\ drawn = {}
  /\ delivery = [e \in Records |-> [s \in Subs |-> "none"]]
  /\ saveLost = FALSE
  /\ owed = [e \in Records |-> {}]

-----------------------------------------------------------------------------
(* Subscriptions *)

\* loadFromDisk: the Map after it, the file's records added on first use.
loadFromDisk == IF loaded THEN subscribers ELSE subscribers \cup OnDisk

\* persistToDisk: queue a snapshot of the whole Map.
persistToDisk(list) ==
  /\ Len(writeQueue) < MaxQueue
  /\ queueJsonWrite(WebhooksJson, list)

\* Mutant: the Map is saved without the file having been read first.
addSubscriberUnloaded(s) ==
  /\ process = "up" /\ StoreQuiet
  /\ s \notin drawn
  /\ subscribers' = subscribers \cup {s}
  /\ persistToDisk(subscribers')
  /\ loaded' = loaded
  /\ drawn' = drawn \cup {s}
  /\ acked' = acked \cup {s}
  /\ UNCHANGED <<procVars, delivery, saveLost, owed>>

\* A public http(s) url without userinfo or fragment; in production not http.
validateWebhookUrl(url) == url = "https" \/ (url = "http" /\ ~conf.production)

\* POST /reputation/subscribe; a url that is not valid answers 400.
addSubscriber(s) ==
  /\ process = "up" /\ StoreQuiet
  /\ s \notin drawn
  /\ validateWebhookUrl(UrlOf[s])
  /\ loaded' = TRUE
  /\ subscribers' = loadFromDisk \cup {s}
  /\ persistToDisk(subscribers')
  /\ drawn' = drawn \cup {s}
  /\ acked' = acked \cup {s}
  /\ UNCHANGED <<procVars, delivery, saveLost, owed>>

\* DELETE /reputation/subscribe/:id; an unknown id answers 404 and saves nothing.
removeSubscriber(s) ==
  /\ process = "up" /\ StoreQuiet
  /\ s \in drawn
  /\ loaded' = TRUE
  /\ subscribers' = loadFromDisk \ {s}
  /\ IF s \in loadFromDisk
       THEN persistToDisk(subscribers') /\ acked' = acked \ {s}
       ELSE UNCHANGED <<storeVars, acked>>
  /\ UNCHANGED <<procVars, drawn, delivery, saveLost, owed>>

\* GET /reputation/subscribers: listing, too, reads the file on first use.
listSubscribers ==
  /\ process = "up" /\ StoreQuiet
  /\ loaded' = TRUE
  /\ subscribers' = loadFromDisk
  /\ UNCHANGED <<storeVars, procVars, acked, drawn, delivery, saveLost, owed>>

-----------------------------------------------------------------------------
(* Requests and deliveries *)

Arrive(r) ==
  /\ process = "up"
  /\ handler[r] = "none"
  /\ handler' = [handler EXCEPT ![r] = "waiting"]
  /\ open' = open \cup {r}
  /\ UNCHANGED <<storeVars, process, conf, hookVars, delivery, saveLost, owed>>

\* Mutant: the Map is listed without the file having been read.
fireWebhookUnloaded(e) ==
  /\ UNCHANGED <<loaded, subscribers>>
  /\ delivery' = [delivery EXCEPT ![e] =
       [s \in Subs |-> IF s \in subscribers THEN "lookup" ELSE "none"]]

\* fireWebhook: one delivery for every subscriber listed at this moment.
fireWebhook(e) ==
  /\ loaded' = TRUE
  /\ subscribers' = loadFromDisk
  /\ delivery' = [delivery EXCEPT ![e] =
       [s \in Subs |-> IF s \in loadFromDisk THEN "lookup" ELSE "none"]]

\* Mutant: the handler returns without ending the response.
FinishUnanswered(r, how) ==
  /\ Alive
  /\ handler[r] = "waiting"
  /\ handler' = [handler EXCEPT ![r] = how]
  /\ open' = open

\* The handler ends and answers; the answer of a closed connection is dropped.
Finish(r, how) ==
  /\ Alive
  /\ handler[r] = "waiting"
  /\ handler' = [handler EXCEPT ![r] = how]
  /\ open' = open \ {r}

\* POST /reputation/record: the event is on chain, then its webhooks are fired.
RecordDone(e) ==
  /\ StoreQuiet
  /\ Finish(e, "recorded")
  /\ fireWebhook(e)
  /\ owed' = [owed EXCEPT ![e] = acked]
  /\ UNCHANGED <<storeVars, process, conf, acked, drawn, saveLost>>

\* recordEvent returned null, or one of its calls failed or timed out.
RecordFailed(e) ==
  /\ Finish(e, "failed")
  /\ UNCHANGED <<storeVars, process, conf, hookVars, delivery, saveLost, owed>>

\* algod.status() settles; nothing bounds when, or that it does.
ReadDone(r) ==
  /\ Finish(r, "read")
  /\ UNCHANGED <<storeVars, process, conf, hookVars, delivery, saveLost, owed>>

\* requestDeadlineMiddleware: an idle socket is destroyed, its handler goes on.
SocketTimeout(r) ==
  /\ Alive
  /\ handler[r] = "waiting"
  /\ r \in open
  /\ open' = open \ {r}
  /\ UNCHANGED <<storeVars, process, conf, handler, hookVars, delivery, saveLost, owed>>

Deliver(e, s, from, to) ==
  /\ Alive
  /\ delivery[e][s] = from
  /\ delivery' = [delivery EXCEPT ![e][s] = to]
  /\ UNCHANGED <<storeVars, procVars, hookVars, saveLost, owed>>

\* assertPublicWebhookHost: the name resolves to public addresses only.
HostAllowed(e, s) == Deliver(e, s, "lookup", "posting")
\* The name does not resolve, or to a private address: logged and dropped.
HostRefused(e, s) == Deliver(e, s, "lookup", "settled")
\* fetch: any answer, an error or three seconds end it; nothing is retried.
PostEnds(e, s) == Deliver(e, s, "posting", "settled")

-----------------------------------------------------------------------------
(* The disk *)

SaveStep ==
  /\ Alive
  /\ StoreStep
  /\ saveLost' = IF writing = "rename" /\ Tail(writeQueue) = <<>> THEN FALSE ELSE saveLost
  /\ UNCHANGED <<procVars, hookVars, delivery, owed>>

SaveFails ==
  /\ Alive
  /\ WriteFails
  /\ saveLost' = TRUE
  /\ UNCHANGED <<procVars, hookVars, delivery, owed>>

-----------------------------------------------------------------------------
(* Shutdown *)

\* SIGTERM, SIGINT or uncaughtException: stop accepting, arm the ten-second timer.
gracefulShutdown ==
  /\ process = "up"
  /\ process' = "draining"
  /\ UNCHANGED <<storeVars, conf, handler, open, hookVars, delivery, saveLost, owed>>

\* What dies with the process: handlers and deliveries that were under way.
Die(how) ==
  /\ process' = how
  /\ open' = {}
  /\ handler' = [r \in Requests |-> IF handler[r] = "waiting" THEN "cut" ELSE handler[r]]
  /\ delivery' = [e \in Records |-> [s \in Subs |->
       IF delivery[e][s] \in {"lookup", "posting"} THEN "cut" ELSE delivery[e][s]]]
  /\ UNCHANGED <<conf, hookVars, owed>>

\* The callback of server.close: the last connection is gone, exit code 0.  A
\* callback runs in a turn of its own, when the promise chain has drained.
ServerClosed ==
  /\ process = "draining"
  /\ open = {}
  /\ writeQueue = <<>>
  /\ Die("exit0")
  /\ UNCHANGED <<storeVars, saveLost>>

\* Mutant: the timer, too, waits for the handlers under way.
ForcedExitDrained ==
  /\ process = "draining"
  /\ writeQueue = <<>>
  /\ \A r \in Requests : handler[r] # "waiting"
  /\ Die("exit1")
  /\ UNCHANGED <<storeVars, saveLost>>

\* forcedShutdownTimer: ten seconds have passed, exit code 1.
ForcedExit ==
  /\ process = "draining"
  /\ writeQueue = <<>>
  /\ Die("exit1")
  /\ UNCHANGED <<storeVars, saveLost>>

\* SIGKILL, or the machine: at any point, in the middle of a write too.
Kill ==
  /\ Alive
  /\ Die("killed")
  /\ StoreCrash
  /\ saveLost' = (saveLost \/ writeQueue # <<>>)

\* main in a new process: an empty Map; what the file holds is what it will tell.
main(env) ==
  /\ process \in Exits
  /\ validateConfig(env)
  /\ process' = "up"
  /\ conf' = config(env)
  /\ loaded' = FALSE
  /\ subscribers' = {}
  /\ acked' = OnDisk
  /\ saveLost' = FALSE
  /\ UNCHANGED <<storeVars, handler, open, drawn, delivery, owed>>

\* validateConfig throws while the modules load: nothing is opened or read.
Refused(env) ==
  /\ process \in Exits
  /\ ~validateConfig(env)
  /\ process' = "exit1"
  /\ UNCHANGED <<storeVars, conf, handler, open, hookVars, delivery, saveLost, owed>>

-----------------------------------------------------------------------------
SubscriptionStep ==
  (\E s \in Subs : addSubscriber(s) \/ removeSubscriber(s)) \/ listSubscribers
RequestStep ==
  \/ \E r \in Requests : Arrive(r) \/ SocketTimeout(r)
  \/ \E e \in Records : RecordDone(e) \/ RecordFailed(e)
  \/ \E r \in Reads : ReadDone(r)
DeliveryStep == \E e \in Records, s \in Subs :
  HostAllowed(e, s) \/ HostRefused(e, s) \/ PostEnds(e, s)
ProcessStep ==
  \/ gracefulShutdown \/ ServerClosed \/ ForcedExit \/ Kill
  \/ \E env \in Environments : main(env) \/ Refused(env)

Next ==
  \/ SubscriptionStep \/ RequestStep \/ DeliveryStep
  \/ SaveStep \/ SaveFails \/ ProcessStep

Spec == Init /\ [][Next]_vars

(***************************************************************************)
(* The event loop runs queued writes and ends every call that has a timer; *)
(* sockets and the shutdown have timers of their own.  A read of the node  *)
(* has none, nor has the lookup of a subscriber's host: no fairness.       *)
(***************************************************************************)
FairSpec ==
  /\ Spec
  /\ WF_vars(SaveStep)
  /\ WF_vars(ForcedExit)
  /\ \A e \in Records : WF_vars(RecordDone(e) \/ RecordFailed(e))
  /\ \A e \in Records, s \in Subs : WF_vars(PostEnds(e, s))

-----------------------------------------------------------------------------
(* Properties *)

\* Every variable has its type; whatever a process is started with, the configuration
\* it serves with is one its middlewares and timers can work with.
TypeOK ==
  /\ process \in {"up", "draining"} \cup Exits
  /\ Sound(conf)
  /\ loaded \in BOOLEAN /\ saveLost \in BOOLEAN
  /\ subscribers \subseteq drawn /\ acked \subseteq drawn /\ drawn \subseteq Subs
  /\ handler \in [Requests -> {"none", "waiting", "recorded", "failed", "read", "cut"}]
  /\ open \subseteq {r \in Requests : handler[r] = "waiting"}
  /\ delivery \in [Records -> [Subs -> {"none", "lookup", "posting", "settled", "cut"}]]
  /\ owed \in [Records -> SUBSET Subs]
  /\ writing \in WritePhases
  /\ \A i \in DOMAIN writeQueue : writeQueue[i] \in [path : Paths, value : SUBSET Subs]

(***************************************************************************)
(* When no save is waiting, the file holds exactly the subscriptions the   *)
(* clients were told of, unless a write has failed, or the process was     *)
(* killed with a save in its chain: a graceful exit, also the forced one,  *)
(* loses none of them, and a new process forgets none by saving too early. *)
(***************************************************************************)
SubscriptionsKept == (writeQueue = <<>> /\ ~saveLost) => OnDisk = acked

(***************************************************************************)
(* A recorded event is addressed to the subscribers of that moment: those  *)
(* acknowledged by an earlier process too, none that was removed, and no   *)
(* one added while the event's deliveries are under way.                   *)
(***************************************************************************)
EventsReachSubscribers ==
  \A e \in Records : handler[e] = "recorded" =>
    {s \in Subs : delivery[e][s] # "none"} = owed[e]

(***************************************************************************)
(* A shutdown ends though a handler or the lookup of a subscriber's host   *)
(* hangs, and what has a timer ends with it: a record request and, its     *)
(* host looked up, every delivery of its event.                            *)
(***************************************************************************)
ShutdownEnds ==
  /\ process = "draining" ~> process \in Exits
  /\ \A e \in Records : handler[e] = "waiting" ~> handler[e] # "waiting"
  /\ \A e \in Records, s \in Subs :
       delivery[e][s] = "posting" ~> delivery[e][s] \in {"settled", "cut"}
=============================================================================
