-------------------------- MODULE EndorsementsProofs --------------------------
(***************************************************************************)
(* Proofs about the endorsement graph, for any number of wallets, requests *)
(* and restarts, and any cap.                                              *)
(*                                                                         *)
(* An edge is added when a handler has seen its submission answered, so    *)
(* the graph holds what the node was given because of what holds between   *)
(* the two: a submission that is no longer on the wire has been taken, and *)
(* what is taken stays so until a block has it.                            *)
(*                                                                         *)
(* The hash store is in the order of its times, so whatever leaves it is   *)
(* its beginning.  A cycle check that fails leaves a certificate, which    *)
(* stays one for the graph without the edges added since: so a new cycle   *)
(* has such an edge, and that one raced the edge that closes it.           *)
(***************************************************************************)
EXTENDS Endorsements, CollectionProofs

Opened == {Idle} \cup [stage : {"verifying", "submitting"}, id : Nat, event : Inputs]

\* The endorsements of transactions the node has taken, in a block or in none.
Given == taken \cup endorsed

SubmittedOrTaken ==
  \A s \in Slots : At(s, "submitting") =>
    Submission(s) \in wire \/ (IsEdge(Event(s)) => EdgeOf(Event(s)) \in Given)

GraphTypes ==
  /\ endorsees \in [Wallets -> Seq(Wallets)]
  /\ events \in Nat
  /\ recording \in [Slots -> Opened]

EInv == GraphTypes /\ EndorseesBounded /\ GraphAsTaken /\ SubmittedOrTaken

-----------------------------------------------------------------------------
(* Sets kept as sequences *)

\* Without its oldest member a set is still one, and has no new member.
LEMMA TailOfASet ==
  ASSUME NEW S, NEW q \in Seq(S), IsInjective(q), q # <<>>
  PROVE  /\ Tail(q) \in Seq(S) /\ IsInjective(Tail(q)) /\ Len(Tail(q)) = Len(q) - 1
         /\ Len(q) \in Nat \ {0}
         /\ \A x : Contains(Tail(q), x) => Contains(q, x)
         /\ \A x : Contains(q, x) => Contains(Tail(q), x) \/ x = Head(q)
<1>1. /\ Tail(q) \in Seq(S) /\ Len(Tail(q)) = Len(q) - 1 /\ Len(q) \in Nat \ {0}
      /\ \A i \in 1..Len(Tail(q)) : i + 1 \in 1..Len(q) /\ Tail(q)[i] = q[i + 1]
  OBVIOUS
<1>2. DOMAIN q = 1..Len(q) /\ DOMAIN Tail(q) = 1..Len(Tail(q))
  BY <1>1
<1>3. IsInjective(Tail(q))
  <2> SUFFICES ASSUME NEW i \in DOMAIN Tail(q), NEW j \in DOMAIN Tail(q),
                      Tail(q)[i] = Tail(q)[j]
               PROVE  i = j
    BY DEF IsInjective
  <2>1. i + 1 = j + 1
    BY <1>1, <1>2 DEF IsInjective
  <2> QED BY <1>1, <1>2, <2>1
<1>4. \A x : Contains(Tail(q), x) => Contains(q, x)
  BY <1>1 DEF Contains
<1>5. ASSUME NEW i \in 1..Len(q), i # 1 PROVE Contains(Tail(q), q[i])
  <2>1. i - 1 \in 1..Len(Tail(q)) /\ (i - 1) + 1 = i
    BY <1>1, <1>5
  <2>2. Tail(q)[i - 1] = q[i]
    BY <1>1, <2>1
  <2> QED BY <2>1, <2>2 DEF Contains
<1>6. \A x : Contains(q, x) => Contains(Tail(q), x) \/ x = Head(q)
  BY <1>1, <1>5 DEF Contains
<1> QED BY <1>1, <1>3, <1>4, <1>6

\* With a new member at its end a set is still one.
LEMMA AppendToASet ==
  ASSUME NEW S, NEW q \in Seq(S), NEW x \in S, IsInjective(q), ~Contains(q, x)
  PROVE  /\ Append(q, x) \in Seq(S) /\ IsInjective(Append(q, x))
         /\ Len(Append(q, x)) = Len(q) + 1 /\ Len(q) \in Nat
         /\ \A y : Contains(Append(q, x), y) <=> Contains(q, y) \/ y = x
<1> DEFINE t == Append(q, x)
<1>1. /\ t \in Seq(S) /\ Len(t) = Len(q) + 1 /\ Len(q) \in Nat /\ t[Len(q) + 1] = x
      /\ \A i \in 1..Len(q) : t[i] = q[i]
  OBVIOUS
<1>2. /\ DOMAIN q = 1..Len(q) /\ DOMAIN t = 1..Len(t)
      /\ 1..Len(t) = 1..Len(q) \cup {Len(q) + 1}
  BY <1>1
<1> HIDE DEF t
<1>3. IsInjective(t)
  <2> SUFFICES ASSUME NEW i \in DOMAIN t, NEW j \in DOMAIN t, t[i] = t[j]
               PROVE  i = j
    BY DEF IsInjective
  <2>1. CASE i \in 1..Len(q) /\ j \in 1..Len(q)
    BY <1>1, <1>2, <2>1 DEF IsInjective
  <2>2. CASE i = Len(q) + 1 \/ j = Len(q) + 1
    BY <1>1, <1>2, <2>2 DEF Contains
  <2> QED BY <1>2, <2>1, <2>2
<1>4. \A y : Contains(t, y) <=> Contains(q, y) \/ y = x
  BY <1>1, <1>2 DEF Contains
<1> QED BY <1>1, <1>3, <1>4 DEF t

\* recordEndorsement keeps a wallet's endorsees distinct and within the cap, adds
\* at most its target, and gives up none but the oldest of a wallet at the cap.
LEMMA RecordedSet ==
  ASSUME EInv, NEW source \in Wallets, NEW target \in Wallets,
         endorsees' = recordEndorsement(source, target)
  PROVE  /\ endorsees' \in [Wallets -> Seq(Wallets)] /\ EndorseesBounded'
         /\ \A w \in Wallets : \A x : Contains(endorsees'[w], x) =>
              Contains(endorsees[w], x) \/ (w = source /\ x = target)
         /\ \A w \in Wallets : \A x : Contains(endorsees[w], x) =>
              \/ Contains(endorsees'[w], x)
              \/ Len(endorsees[w]) = MaxEndorsees /\ x = Head(endorsees[w])
<1> DEFINE q == endorsees[source]
           kept == IF Len(q) >= MaxEndorsees THEN Tail(q) ELSE q
           new == IF Contains(kept, target) THEN kept ELSE Append(kept, target)
<1>1. /\ q \in Seq(Wallets) /\ IsInjective(q) /\ Len(q) <= MaxEndorsees /\ Len(q) \in Nat
      /\ MaxEndorsees \in Nat \ {0}
  BY BoundsAssumption DEF EInv, GraphTypes, EndorseesBounded
<1>2. /\ kept \in Seq(Wallets) /\ IsInjective(kept) /\ Len(kept) < MaxEndorsees
      /\ Len(kept) \in Nat
      /\ \A x : Contains(kept, x) => Contains(q, x)
      /\ \A x : Contains(q, x) =>
           Contains(kept, x) \/ (Len(q) = MaxEndorsees /\ x = Head(q))
  <2> HIDE DEF q
  <2>1. CASE Len(q) >= MaxEndorsees
    <3>1. q # <<>>
      BY <1>1, <2>1
    <3> QED BY <1>1, <2>1, <3>1, TailOfASet
  <2>2. CASE ~(Len(q) >= MaxEndorsees)
    BY <1>1, <2>2
  <2> QED BY <2>1, <2>2
<1>3. endorsees' = [endorsees EXCEPT ![source] = new]
  BY DEF recordEndorsement
<1>4. /\ new \in Seq(Wallets) /\ IsInjective(new) /\ Len(new) <= MaxEndorsees
      /\ \A x : Contains(new, x) => Contains(kept, x) \/ x = target
      /\ \A x : Contains(kept, x) => Contains(new, x)
  <2> HIDE DEF kept
  <2>1. CASE Contains(kept, target)
    BY <1>1, <1>2, <2>1
  <2>2. CASE ~Contains(kept, target)
    BY <1>1, <1>2, <2>2, AppendToASet
  <2> QED BY <2>1, <2>2
<1>5. endorsees \in [Wallets -> Seq(Wallets)]
  BY DEF EInv, GraphTypes
<1>6. \A w \in Wallets : endorsees'[w] = IF w = source THEN new ELSE endorsees[w]
  BY <1>3, <1>5
<1> HIDE DEF new, kept
<1>7. endorsees' \in [Wallets -> Seq(Wallets)]
  BY <1>3, <1>4, <1>5
<1>8. EndorseesBounded'
  BY <1>4, <1>6 DEF EInv, EndorseesBounded
<1> QED BY <1>2, <1>4, <1>6, <1>7, <1>8

-----------------------------------------------------------------------------
(* The steps *)

\* Which endorsements are edges.
LEMMA EdgesAre ==
  ASSUME NEW w \in Wallets, NEW x \in Wallets
  PROVE  <<w, x>> \in Edges <=> Contains(endorsees[w], x)
  BY DEF Edges

\* A request in a slot and what it reports.
LEMMA OpenRequest ==
  ASSUME EInv, NEW s \in Slots, At(s, "verifying") \/ At(s, "submitting")
  PROVE  /\ recording[s] \in [stage : {"verifying", "submitting"}, id : Nat, event : Inputs]
         /\ Event(s) \in Events
         /\ IsEdge(Event(s)) => Event(s).wallet \in Wallets /\ Event(s).counterparty \in Wallets
<1>1. recording[s] \in Opened
  BY DEF EInv, GraphTypes
<1>2. recording[s] \in [stage : {"verifying", "submitting"}, id : Nat, event : Inputs]
  BY <1>1 DEF Opened, Idle, At
<1>3. Event(s) \in Events
  BY <1>2, InputsAssumption DEF Event
<1> QED BY <1>2, <1>3 DEF Events, IsEdge

\* A step that leaves the graph alone keeps it bounded and what the node has.
LEMMA GraphUntouched ==
  ASSUME EInv, UNCHANGED endorsees, Given \subseteq Given'
  PROVE  EndorseesBounded' /\ GraphAsTaken'
<1>1. Edges' = Edges
  BY DEF Edges
<1> QED BY <1>1 DEF EInv, EndorseesBounded, GraphAsTaken, Given

\* A slot whose request ends, or that had none, owes nothing any more.
LEMMA SlotEnds ==
  ASSUME EInv, NEW s \in Slots, recording' = [recording EXCEPT ![s] = Idle],
         UNCHANGED <<wire, taken, endorsed>>
  PROVE  recording' \in [Slots -> Opened] /\ SubmittedOrTaken'
<1>1. recording \in [Slots -> Opened]
  BY DEF EInv, GraphTypes
<1>2. recording' \in [Slots -> Opened] /\ recording'[s] = Idle
      /\ \A t \in Slots : t # s => recording'[t] = recording[t]
  BY <1>1 DEF Opened
<1>3. SubmittedOrTaken'
  <2> SUFFICES ASSUME NEW t \in Slots, At(t, "submitting")'
               PROVE  (Submission(t) \in wire \/ (IsEdge(Event(t)) => EdgeOf(Event(t)) \in Given))'
    BY DEF SubmittedOrTaken
  <2>1. t # s
    BY <1>2 DEF At, Idle
  <2>2. recording'[t] = recording[t]
    BY <1>2, <2>1
  <2> QED BY <2>2 DEF EInv, SubmittedOrTaken, At, Submission, Event, IsEdge, EdgeOf, Given
<1> QED BY <1>2, <1>3

LEMMA BeginKeepsEInv ==
  ASSUME EInv, NEW s \in Slots, Begin(s)
  PROVE  EInv'
<1>1. /\ UNCHANGED <<endorsees, wire, taken, endorsed>> /\ events' = events + 1
      /\ recording \in [Slots -> Opened] /\ events \in Nat
  BY DEF Begin, chainVars, EInv, GraphTypes
<1>2. EndorseesBounded' /\ GraphAsTaken'
  BY <1>1, GraphUntouched DEF Given
<1>3. PICK event \in Inputs :
        recording' = [recording EXCEPT ![s] =
                        [stage |-> "verifying", id |-> events', event |-> event]]
  BY DEF Begin
<1>4. recording' \in [Slots -> Opened]
  BY <1>1, <1>3 DEF Opened
<1>5. \A t \in Slots : At(t, "submitting")' => recording'[t] = recording[t]
  BY <1>1, <1>3 DEF At
<1>6. SubmittedOrTaken'
  <2> SUFFICES ASSUME NEW t \in Slots, At(t, "submitting")'
               PROVE  (Submission(t) \in wire \/ (IsEdge(Event(t)) => EdgeOf(Event(t)) \in Given))'
    BY DEF SubmittedOrTaken
  <2> QED BY <1>1, <1>5 DEF EInv, SubmittedOrTaken, At, Submission, Event, IsEdge, EdgeOf, Given
<1> QED BY <1>1, <1>2, <1>4, <1>6 DEF EInv, GraphTypes

LEMMA SubmitKeepsEInv ==
  ASSUME EInv, NEW s \in Slots, Submit(s)
  PROVE  EInv'
<1>1. /\ UNCHANGED <<endorsees, taken, endorsed, events>> /\ At(s, "verifying")
      /\ recording \in [Slots -> Opened]
  BY DEF Submit, counters, EInv, GraphTypes
<1>2. EndorseesBounded' /\ GraphAsTaken'
  BY <1>1, GraphUntouched DEF Given
<1>3. CASE Ends(s) /\ UNCHANGED wire
  BY <1>1, <1>2, <1>3, SlotEnds DEF Ends, EInv, GraphTypes
<1>4. CASE /\ recording' = [recording EXCEPT ![s].stage = "submitting"]
           /\ wire' = wire \union {Submission(s)}
  <2>1. recording[s] \in [stage : {"verifying", "submitting"}, id : Nat, event : Inputs]
    BY <1>1, OpenRequest
  <2>2. /\ recording' \in [Slots -> Opened]
        /\ recording'[s].id = recording[s].id /\ recording'[s].event = recording[s].event
        /\ \A t \in Slots : t # s => recording'[t] = recording[t]
    BY <1>1, <1>4, <2>1 DEF Opened
  <2>3. SubmittedOrTaken'
    <3> SUFFICES ASSUME NEW t \in Slots, At(t, "submitting")'
                 PROVE  (Submission(t) \in wire \/ (IsEdge(Event(t)) => EdgeOf(Event(t)) \in Given))'
      BY DEF SubmittedOrTaken
    <3>1. CASE t = s
      BY <1>4, <2>2, <3>1 DEF Submission
    <3>2. CASE t # s
      BY <1>1, <1>4, <2>2, <3>2 DEF EInv, SubmittedOrTaken, At, Submission, Event, IsEdge, EdgeOf, Given
    <3> QED BY <3>1, <3>2
  <2> QED BY <1>1, <1>2, <2>2, <2>3 DEF EInv, GraphTypes
<1> QED BY <1>3, <1>4 DEF Submit

LEMMA FinishKeepsEInv ==
  ASSUME EInv, NEW s \in Slots, Finish(s)
  PROVE  EInv'
<1>1. /\ recording' = [recording EXCEPT ![s] = Idle] /\ UNCHANGED <<wire, taken, endorsed, events>>
      /\ At(s, "submitting") /\ Submission(s) \notin wire
  BY DEF Finish, Submitted, chainVars, counters
<1>2. recording' \in [Slots -> Opened] /\ SubmittedOrTaken'
  BY <1>1, SlotEnds
<1>3. CASE ~IsEdge(Event(s))
  <2>1. UNCHANGED endorsees
    BY <1>3 DEF Finish
  <2>2. EndorseesBounded' /\ GraphAsTaken'
    BY <1>1, <2>1, GraphUntouched DEF Given
  <2> QED BY <1>1, <1>2, <2>1, <2>2 DEF EInv, GraphTypes
<1>4. CASE IsEdge(Event(s))
  <2> DEFINE source == Event(s).wallet
             target == Event(s).counterparty
  <2>1. source \in Wallets /\ target \in Wallets
    BY <1>1, <1>4, OpenRequest
  <2>2. endorsees' = recordEndorsement(source, target)
    BY <1>4 DEF Finish
  <2>3. <<source, target>> \in Given
    BY <1>1, <1>4 DEF EInv, SubmittedOrTaken, EdgeOf
  <2>4. PICK a \in Wallets, b \in Wallets : a = source /\ b = target
    BY <2>1
  <2>5. endorsees' = recordEndorsement(a, b) /\ <<a, b>> \in Given
    BY <2>2, <2>3, <2>4
  <2>6. /\ endorsees' \in [Wallets -> Seq(Wallets)] /\ EndorseesBounded'
        /\ \A w \in Wallets : \A x : Contains(endorsees'[w], x) =>
             Contains(endorsees[w], x) \/ (w = a /\ x = b)
    BY <2>5, RecordedSet
  <2>7. GraphAsTaken'
    <3> SUFFICES ASSUME NEW w \in Wallets, NEW x \in Wallets, Contains(endorsees'[w], x)
                 PROVE  <<w, x>> \in Given
      BY <1>1 DEF GraphAsTaken, Edges, Given
    <3>1. CASE Contains(endorsees[w], x)
      BY <3>1, EdgesAre DEF EInv, GraphAsTaken, Given
    <3>2. CASE w = a /\ x = b
      BY <2>5, <3>2
    <3> QED BY <2>6, <3>1, <3>2
  <2> QED BY <1>1, <1>2, <2>6, <2>7 DEF EInv, GraphTypes
<1> QED BY <1>3, <1>4

LEMMA TakeKeepsEInv ==
  ASSUME EInv, NEW m \in wire, Take(m)
  PROVE  EInv'
<1>1. /\ UNCHANGED <<endorsees, recording, events, endorsed>> /\ wire' = wire \ {m}
      /\ taken' = taken \union (IF IsEdge(m.event) THEN {EdgeOf(m.event)} \ endorsed ELSE {})
  BY DEF Take, counters
<1>2. EndorseesBounded' /\ GraphAsTaken'
  BY <1>1, GraphUntouched DEF Given
<1>3. SubmittedOrTaken'
  <2> SUFFICES ASSUME NEW s \in Slots, At(s, "submitting")
               PROVE  (Submission(s) \in wire \/ (IsEdge(Event(s)) => EdgeOf(Event(s)) \in Given))'
    BY <1>1 DEF SubmittedOrTaken, At
  <2>1. Submission(s)' = Submission(s) /\ Event(s)' = Event(s) /\ Submission(s).event = Event(s)
    BY <1>1 DEF Submission, Event
  <2>2. CASE Submission(s) = m
    BY <1>1, <2>1, <2>2 DEF IsEdge, EdgeOf, Given
  <2>3. CASE Submission(s) # m
    BY <1>1, <2>1, <2>3 DEF EInv, SubmittedOrTaken, IsEdge, EdgeOf, Given
  <2> QED BY <2>2, <2>3
<1> QED BY <1>1, <1>2, <1>3 DEF EInv, GraphTypes

LEMMA LandKeepsEInv ==
  ASSUME EInv, NEW edge \in taken, Land(edge)
  PROVE  EInv'
<1>1. /\ UNCHANGED <<endorsees, recording, wire, events>>
      /\ taken' = taken \ {edge} /\ endorsed' = endorsed \union {edge}
  BY DEF Land, counters
<1>2. EndorseesBounded' /\ GraphAsTaken'
  BY <1>1, GraphUntouched DEF Given
<1>3. SubmittedOrTaken'
  <2> SUFFICES ASSUME NEW s \in Slots, At(s, "submitting")
               PROVE  (Submission(s) \in wire \/ (IsEdge(Event(s)) => EdgeOf(Event(s)) \in Given))'
    BY <1>1 DEF SubmittedOrTaken, At
  <2>1. Submission(s)' = Submission(s) /\ Event(s)' = Event(s)
    BY <1>1 DEF Submission, Event
  <2> QED BY <1>1, <2>1 DEF EInv, SubmittedOrTaken, IsEdge, EdgeOf, Given
<1> QED BY <1>1, <1>2, <1>3 DEF EInv, GraphTypes

LEMMA CrashKeepsEInv ==
  ASSUME EInv, Crash
  PROVE  EInv'
<1>1. /\ endorsees' = [w \in Wallets |-> <<>>] /\ recording' = [s \in Slots |-> Idle]
      /\ UNCHANGED <<wire, taken, endorsed, events>>
  BY DEF Crash, chainVars
<1>2. \A w \in Wallets : endorsees'[w] = <<>>
  BY <1>1
<1>3. GraphTypes'
  BY <1>1 DEF EInv, GraphTypes, Opened
<1>4. EndorseesBounded'
  BY <1>2, BoundsAssumption DEF EndorseesBounded, IsInjective
<1>5. Edges' = {}
  BY <1>2 DEF Edges, Contains
<1>6. GraphAsTaken' /\ SubmittedOrTaken'
  BY <1>1, <1>5 DEF GraphAsTaken, SubmittedOrTaken, At, Idle
<1> QED BY <1>3, <1>4, <1>6 DEF EInv

\* The handlers that end without an answer from the node, the clock, the timer.
LEMMA OthersKeepEInv ==
  ASSUME EInv,
         \/ \E s \in Slots : Refused(s) \/ SubmitFails(s)
         \/ Tick \/ cleanupExpiredHashes \/ UNCHANGED vars
  PROVE  EInv' /\ UNCHANGED endorsees
<1>1. UNCHANGED <<endorsees, wire, taken, endorsed, events>>
  BY DEF Refused, SubmitFails, Tick, cleanupExpiredHashes, vars, chainVars, counters
<1>2. EndorseesBounded' /\ GraphAsTaken'
  BY <1>1, GraphUntouched DEF Given
<1>3. CASE \E s \in Slots : Refused(s) \/ SubmitFails(s)
  BY <1>1, <1>2, <1>3, SlotEnds DEF Refused, SubmitFails, Ends, EInv, GraphTypes
<1>4. CASE UNCHANGED recording
  BY <1>1, <1>2, <1>4
  DEF EInv, GraphTypes, SubmittedOrTaken, At, Submission, Event, IsEdge, EdgeOf, Given
<1> QED BY <1>1, <1>3, <1>4 DEF Tick, cleanupExpiredHashes, vars

-----------------------------------------------------------------------------
(* The theorems *)

LEMMA InitEInv == Init => EInv
<1> SUFFICES ASSUME Init PROVE EInv
  OBVIOUS
<1>1. \A w \in Wallets : endorsees[w] = <<>>
  BY DEF Init
<1>2. GraphTypes
  BY DEF Init, GraphTypes, Opened
<1>3. EndorseesBounded
  BY <1>1, BoundsAssumption DEF EndorseesBounded, IsInjective
<1>4. Edges = {}
  BY <1>1 DEF Edges, Contains
<1> QED BY <1>2, <1>3, <1>4 DEF Init, EInv, GraphAsTaken, SubmittedOrTaken, At, Idle

LEMMA NextEInv == EInv /\ [Next]_vars => EInv'
<1> SUFFICES ASSUME EInv, [Next]_vars PROVE EInv'
  OBVIOUS
<1>1. ASSUME NEW s \in Slots, Begin(s) \/ Submit(s) \/ Finish(s) PROVE EInv'
  BY <1>1, BeginKeepsEInv, SubmitKeepsEInv, FinishKeepsEInv
<1>2. ASSUME NEW m \in wire, Take(m) PROVE EInv'
  BY <1>2, TakeKeepsEInv
<1>3. ASSUME NEW edge \in taken, Land(edge) PROVE EInv'
  BY <1>3, LandKeepsEInv
<1> QED BY <1>1, <1>2, <1>3, CrashKeepsEInv, OthersKeepEInv DEF Next

\* The inductive invariant holds in every reachable state.
THEOREM GraphInvariance == Spec => []EInv
<1> QED BY InitEInv, NextEInv, PTL DEF Spec

\* The cycle check of recordEvent works on endorsements that the chain has or that the
\* node was given to put there, however submissions fail, are taken late or are given
\* up on.
THEOREM GraphStaysAsTaken == Spec => []GraphAsTaken
<1>1. EInv => GraphAsTaken
  BY DEF EInv
<1> QED BY <1>1, GraphInvariance, PTL

\* recordEndorsement keeps each wallet's endorsees distinct and within the cap.
THEOREM EndorseesStayBounded == Spec => []EndorseesBounded
<1>1. EInv => EndorseesBounded
  BY DEF EInv
<1> QED BY <1>1, GraphInvariance, PTL

LEMMA CrashesCounted == Spec => [](crashes \in Nat)
<1>1. Init => crashes \in Nat
  BY DEF Init
<1>2. crashes \in Nat /\ [Next]_vars => (crashes \in Nat)'
  BY DEF Next, Begin, Submit, Refused, Finish, SubmitFails, Take, Land, Tick,
         cleanupExpiredHashes, Crash, counters, vars
<1> QED BY <1>1, <1>2, PTL DEF Spec

(***************************************************************************)
(* recordEndorsement gives up the oldest endorsement of a wallet at the    *)
(* cap and no other; otherwise nothing but a restart forgets one.          *)
(***************************************************************************)
THEOREM ForgetsOnlyAtTheCap == Spec => ForgottenOnlyAtTheCap
<1>1. EInv /\ crashes \in Nat /\ [Next]_vars =>
        [\A w \in Wallets :
           LET forgotten == ToSet(endorsees[w]) \ ToSet(endorsees'[w])
           IN  \/ forgotten = {}
               \/ crashes' # crashes
               \/ Len(endorsees[w]) = MaxEndorsees /\ forgotten = {Head(endorsees[w])}]_vars
  <2> DEFINE forgotten(w) == ToSet(endorsees[w]) \ ToSet(endorsees'[w])
             Stays(w) == \/ forgotten(w) = {}
                         \/ crashes' # crashes
                         \/ /\ Len(endorsees[w]) = MaxEndorsees
                            /\ forgotten(w) = {Head(endorsees[w])}
  <2> SUFFICES ASSUME EInv, crashes \in Nat, Next, NEW w \in Wallets PROVE Stays(w)
    OBVIOUS
  <2>1. CASE UNCHANGED endorsees
    BY <2>1
  <2>2. CASE Crash
    <3>1. crashes' = crashes + 1 /\ crashes' # crashes
      BY <2>2 DEF Crash
    <3> QED BY <3>1
  <2>3. ASSUME NEW s \in Slots, Finish(s), IsEdge(Event(s)) PROVE Stays(w)
    <3>1. At(s, "submitting") /\ endorsees' = recordEndorsement(Event(s).wallet, Event(s).counterparty)
      BY <2>3 DEF Finish, Submitted
    <3>2. PICK a \in Wallets, b \in Wallets : endorsees' = recordEndorsement(a, b)
      BY <2>3, <3>1, OpenRequest
    <3>3. /\ endorsees' \in [Wallets -> Seq(Wallets)]
          /\ \A x : Contains(endorsees[w], x) =>
               \/ Contains(endorsees'[w], x)
               \/ Len(endorsees[w]) = MaxEndorsees /\ x = Head(endorsees[w])
      BY <3>2, RecordedSet
    <3>4. \A x : /\ Contains(endorsees[w], x) <=> x \in ToSet(endorsees[w])
                 /\ Contains(endorsees'[w], x) <=> x \in ToSet(endorsees'[w])
      <4>1. endorsees[w] \in Seq(Wallets) /\ endorsees'[w] \in Seq(Wallets)
        BY <3>3 DEF EInv, GraphTypes
      <4>2. /\ DOMAIN endorsees[w] = 1..Len(endorsees[w])
            /\ DOMAIN endorsees'[w] = 1..Len(endorsees'[w])
        BY <4>1
      <4> QED BY <4>2 DEF Contains, ToSet
    <3> QED BY <3>3, <3>4
  <2>4. ASSUME NEW s \in Slots, Finish(s), ~IsEdge(Event(s)) PROVE UNCHANGED endorsees
    BY <2>4 DEF Finish
  <2>5. CASE \/ \E s \in Slots : Begin(s) \/ Submit(s)
             \/ \E m \in wire : Take(m)
             \/ \E edge \in taken : Land(edge)
    BY <2>1, <2>5 DEF Begin, Submit, Take, Land
  <2> HIDE DEF Stays
  <2> QED BY <2>1, <2>2, <2>3, <2>4, <2>5, OthersKeepEInv DEF Next
<1> QED BY <1>1, GraphInvariance, CrashesCounted, PTL DEF Spec, ForgottenOnlyAtTheCap

-----------------------------------------------------------------------------
(***************************************************************************)
(* The types of what the other parts are not about: the clock, the counts, *)
(* the requests and the submissions.                                       *)
(***************************************************************************)
CountInv ==
  /\ now \in 0..MaxTime
  /\ events \in 0..MaxEvents
  /\ crashes \in 0..MaxCrashes
  /\ recording \in [Slots -> Recordings]
  /\ wire \subseteq [id : 1..MaxEvents, event : Inputs]
  /\ taken \union endorsed \subseteq Wallets \X Wallets

\* A slot whose request ends.
LEMMA EndedTyped ==
  ASSUME CountInv, NEW s \in Slots, recording' = [recording EXCEPT ![s] = Idle]
  PROVE  recording' \in [Slots -> Recordings]
BY DEF CountInv, Recordings

\* A request that has been opened.
LEMMA RequestIs ==
  ASSUME CountInv, NEW s \in Slots, ~At(s, "idle")
  PROVE  /\ recording[s] \in [stage : {"verifying", "submitting"}, id : 1..MaxEvents, event : Inputs]
         /\ Event(s) \in Inputs /\ recording[s].id \in 1..MaxEvents
<1>1. recording[s] \in Recordings
  BY DEF CountInv
<1>2. recording[s] # Idle
  BY DEF At, Idle
<1> QED BY <1>1, <1>2 DEF Recordings, Event

LEMMA CountStep == CountInv /\ [Next]_vars => CountInv'
<1> SUFFICES ASSUME CountInv, [Next]_vars PROVE CountInv'
  OBVIOUS
<1>1. ASSUME NEW s \in Slots, Begin(s) PROVE CountInv'
  <2>1. events \in 0..MaxEvents /\ events < MaxEvents /\ events' = events + 1 /\ MaxEvents \in Nat
    BY <1>1, BoundsAssumption DEF Begin, CountInv
  <2>2. events' \in 1..MaxEvents
    BY <2>1
  <2>3. PICK event \in Inputs :
          recording' = [recording EXCEPT ![s] =
                          [stage |-> "verifying", id |-> events', event |-> event]]
    BY <1>1 DEF Begin
  <2>4. [stage |-> "verifying", id |-> events', event |-> event] \in Recordings
    BY <2>2 DEF Recordings
  <2>5. recording' \in [Slots -> Recordings]
    BY <2>3, <2>4 DEF CountInv
  <2> QED BY <1>1, <2>2, <2>5 DEF Begin, CountInv, chainVars
<1>2. ASSUME NEW s \in Slots, Submit(s) PROVE CountInv'
  <2>1. ~At(s, "idle")
    BY <1>2 DEF Submit, At
  <2>2. CASE Ends(s) /\ UNCHANGED wire
    BY <1>2, <2>2, EndedTyped DEF Submit, Ends, CountInv, counters
  <2>3. CASE /\ recording' = [recording EXCEPT ![s].stage = "submitting"]
             /\ wire' = wire \union {Submission(s)}
    <3> DEFINE q == [recording[s] EXCEPT !.stage = "submitting"]
    <3>1. q \in Recordings
      BY <2>1, RequestIs DEF Recordings
    <3>2. recording' = [recording EXCEPT ![s] = q]
      BY <2>3
    <3> HIDE DEF q
    <3>3. recording' \in [Slots -> Recordings]
      BY <3>1, <3>2 DEF CountInv
    <3>4. Submission(s) \in [id : 1..MaxEvents, event : Inputs]
      BY <2>1, RequestIs DEF Submission, Event
    <3> QED BY <1>2, <2>3, <3>3, <3>4 DEF Submit, CountInv, counters
  <2> QED BY <1>2, <2>2, <2>3 DEF Submit
<1>3. ASSUME NEW s \in Slots, Refused(s) \/ Finish(s) \/ SubmitFails(s) PROVE CountInv'
  <2>1. recording' = [recording EXCEPT ![s] = Idle]
    BY <1>3 DEF Refused, Finish, SubmitFails, Ends
  <2> QED BY <1>3, <2>1, EndedTyped
          DEF Refused, Finish, SubmitFails, CountInv, counters, chainVars
<1>4. ASSUME NEW m \in wire, Take(m) PROVE CountInv'
  <2>1. m.event \in Events
    BY InputsAssumption DEF CountInv
  <2>2. IsEdge(m.event) => EdgeOf(m.event) \in Wallets \X Wallets
    BY <2>1 DEF Events, IsEdge, EdgeOf
  <2> QED BY <1>4, <2>2 DEF Take, CountInv, counters
<1>8. ASSUME NEW edge \in taken, Land(edge) PROVE CountInv'
  BY <1>8 DEF Land, CountInv, counters
<1>5. CASE Tick
  BY <1>5, BoundsAssumption DEF Tick, CountInv, counters, chainVars
<1>6. CASE Crash
  BY <1>6, BoundsAssumption DEF Crash, CountInv, chainVars, Recordings
<1>7. CASE cleanupExpiredHashes \/ UNCHANGED vars
  BY <1>7 DEF cleanupExpiredHashes, vars, CountInv, counters, chainVars
<1> QED BY <1>1, <1>2, <1>3, <1>4, <1>5, <1>6, <1>7, <1>8 DEF Next

LEMMA CountBegins == Init => CountInv
BY BoundsAssumption DEF Init, CountInv, Recordings

-----------------------------------------------------------------------------
(***************************************************************************)
(* The hash store.  Its entries are in the order of their times, and no    *)
(* two are the same, because an entry of the present tick is a duplicate;  *)
(* so what is dropped for its age and what is evicted are both its oldest. *)
(***************************************************************************)
Hashes == [hash : [event : Inputs, salt : 0..MaxTime], at : 0..MaxTime]

Chronicle(s) ==
  /\ s \in Seq(Hashes)
  /\ \A i, j \in DOMAIN s : i < j => s[i].at <= s[j].at /\ s[i] # s[j]
  /\ \A i \in DOMAIN s : s[i].at <= now

HashInv == Chronicle(hashes) /\ Len(hashes) <= DedupMax

\* What keeps the order of a chronicle is one.
LEMMA InOrderIsChronicle ==
  ASSUME NEW s, Chronicle(s), NEW t \in Seq(Hashes), InOrder(t, s), ToSet(t) \subseteq ToSet(s)
  PROVE  Chronicle(t)
<1>1. ASSUME NEW i \in DOMAIN t, NEW j \in DOMAIN t, i < j
      PROVE  t[i].at <= t[j].at /\ t[i] # t[j]
  <2>1. PICK k \in DOMAIN s, l \in DOMAIN s : k < l /\ t[i] = s[k] /\ t[j] = s[l]
    BY <1>1, Zenon DEF InOrder
  <2> QED BY <2>1 DEF Chronicle
<1>2. ASSUME NEW i \in DOMAIN t PROVE t[i].at <= now
  <2>1. t[i] \in ToSet(s)
    BY DEF ToSet
  <2> QED BY <2>1 DEF ToSet, Chronicle
<1> QED BY <1>1, <1>2 DEF Chronicle

\* What is left of one, in its order, once some of it is deleted.
LEMMA DropKeepsChronicle ==
  ASSUME NEW s, Chronicle(s), NEW dropped
  PROVE  /\ Chronicle(Drop(s, dropped)) /\ Len(Drop(s, dropped)) <= Len(s)
         /\ ToSet(Drop(s, dropped)) = ToSet(s) \ dropped
         /\ InOrder(Drop(s, dropped), s)
<1>1. s \in Seq(Hashes)
  BY DEF Chronicle
<1>2. /\ Drop(s, dropped) \in Seq(Hashes)
      /\ Len(Drop(s, dropped)) <= Len(s)
      /\ InOrder(Drop(s, dropped), s)
      /\ ToSet(Drop(s, dropped)) = ToSet(s) \ dropped
  BY <1>1, DropKeeps
<1> QED BY <1>2, InOrderIsChronicle

\* Its newest elements.
LEMMA SuffixKeepsChronicle ==
  ASSUME NEW s, Chronicle(s), NEW first \in 0..Len(s)
  PROVE  LET t == SubSeq(s, first + 1, Len(s))
         IN  /\ Chronicle(t) /\ Len(t) = Len(s) - first
             /\ \A i \in DOMAIN s : first < i => s[i] \in ToSet(t)
             /\ \A e \in ToSet(t) : \E i \in DOMAIN s : first < i /\ s[i] = e
<1> DEFINE t == SubSeq(s, first + 1, Len(s))
<1>1. s \in Seq(Hashes) /\ Len(s) \in Nat /\ DOMAIN s = 1..Len(s) /\ DOMAIN s \subseteq Nat
  BY DEF Chronicle
<1>2. /\ t \in Seq(Hashes) /\ Len(t) = Len(s) - first /\ DOMAIN t = 1..Len(t)
      /\ \A i \in 1..Len(t) : i + first \in 1..Len(s) /\ t[i] = s[i + first]
  BY <1>1, SuffixIs
<1> HIDE DEF t
<1>3. \A i, j \in DOMAIN t : i < j => \E k, l \in DOMAIN s : k < l /\ t[i] = s[k] /\ t[j] = s[l]
  <2> SUFFICES ASSUME NEW i \in DOMAIN t, NEW j \in DOMAIN t, i < j
               PROVE  \E k, l \in DOMAIN s : k < l /\ t[i] = s[k] /\ t[j] = s[l]
    OBVIOUS
  <2>1. i + first < j + first /\ i + first \in DOMAIN s /\ j + first \in DOMAIN s
    BY <1>1, <1>2
  <2> QED BY <1>2, <2>1
<1>4. \A e \in ToSet(t) : \E i \in DOMAIN s : first < i /\ s[i] = e
  <2> SUFFICES ASSUME NEW k \in DOMAIN t PROVE \E i \in DOMAIN s : first < i /\ s[i] = t[k]
    BY DEF ToSet
  <2>1. k + first \in DOMAIN s /\ first < k + first /\ s[k + first] = t[k]
    BY <1>1, <1>2
  <2> QED BY <2>1
<1>5. \A i \in DOMAIN s : first < i => s[i] \in ToSet(t)
  <2> SUFFICES ASSUME NEW i \in DOMAIN s, first < i PROVE s[i] \in ToSet(t)
    OBVIOUS
  <2>1. i - first \in 1..Len(t) /\ (i - first) + first = i
    BY <1>1, <1>2
  <2>2. t[i - first] = s[i]
    BY <1>2, <2>1
  <2> QED BY <1>2, <2>1, <2>2 DEF ToSet
<1>6. ToSet(t) \subseteq ToSet(s)
  BY <1>4 DEF ToSet
<1>7. Chronicle(t)
  BY <1>2, <1>3, <1>6, InOrderIsChronicle DEF InOrder
<1> QED BY <1>2, <1>4, <1>5, <1>7 DEF t

\* v is what is left of t from some place on.
NewestOf(v, t) ==
  \E first \in 0..Len(t) :
    /\ \A i \in DOMAIN t : first < i => t[i] \in ToSet(v)
    /\ \A e \in ToSet(v) : \E i \in DOMAIN t : first < i /\ t[i] = e

LEMMA EvictionKeepsTheNewest ==
  ASSUME NEW t, Chronicle(t)
  PROVE  /\ Chronicle(evictOldest(t)) /\ Len(evictOldest(t)) <= DedupMax
         /\ NewestOf(evictOldest(t), t)
         /\ t # <<>> => evictOldest(t) # <<>>
<1> DEFINE q == (3 * DedupMax) \div 4
           first == Len(t) - q
<1>1. t \in Seq(Hashes) /\ Len(t) \in Nat /\ DOMAIN t = 1..Len(t)
  BY DEF Chronicle
<1>2. q \in 1..DedupMax /\ DedupMax \in Nat
  <2>1. DedupMax \in Nat /\ 3 * DedupMax \in Nat /\ 3 * DedupMax >= 4
    BY BoundsAssumption
  <2> QED BY <2>1
<1> HIDE DEF q
<1>3. CASE Len(t) > DedupMax
  <2>1. evictOldest(t) = SubSeq(t, first + 1, Len(t))
    BY <1>3 DEF evictOldest, q
  <2>2. first \in 0..Len(t) /\ Len(t) - first = q
    BY <1>1, <1>2, <1>3
  <2> HIDE DEF first
  <2> DEFINE v == SubSeq(t, first + 1, Len(t))
  <2>3. /\ Chronicle(v) /\ Len(v) = Len(t) - first
        /\ \A i \in DOMAIN t : first < i => t[i] \in ToSet(v)
        /\ \A e \in ToSet(v) : \E i \in DOMAIN t : first < i /\ t[i] = e
    BY <2>2, SuffixKeepsChronicle
  <2> HIDE DEF v
  <2>4. Len(v) <= DedupMax /\ v # <<>>
    BY <1>2, <2>2, <2>3
  <2> QED BY <2>1, <2>2, <2>3, <2>4 DEF NewestOf, v
<1>4. CASE ~(Len(t) > DedupMax)
  <2>1. evictOldest(t) = t /\ Len(t) <= DedupMax
    BY <1>1, <1>2, <1>4 DEF evictOldest
  <2>2. /\ 0 \in 0..Len(t)
        /\ \A i \in DOMAIN t : 0 < i /\ t[i] \in ToSet(t)
        /\ \A e \in ToSet(t) : \E i \in DOMAIN t : t[i] = e
    BY <1>1 DEF ToSet
  <2>3. NewestOf(t, t)
    BY <2>2 DEF NewestOf
  <2> QED BY <2>1, <2>3
<1> QED BY <1>3, <1>4

\* A hash that is no duplicate comes last in the store.
LEMMA AppendKeepsChronicle ==
  ASSUME CountInv, HashInv, NEW event \in Inputs, ~isDuplicateEvent(computeEventHash(event)),
         NEW entry, entry = [hash |-> computeEventHash(event), at |-> now]
  PROVE  /\ Chronicle(Append(hashes, entry)) /\ ~HashExpired(entry)
         /\ entry.hash.salt = now
<1> DEFINE n == Len(hashes)
           u == Append(hashes, entry)
<1>1. /\ now \in 0..MaxTime /\ entry.hash = computeEventHash(event) /\ entry.at = now
      /\ entry \in Hashes /\ now \in Nat /\ entry.hash.salt = now
  BY BoundsAssumption DEF CountInv, Hashes, computeEventHash
<1>2. ~HashExpired(entry)
  <2>1. now - now = 0
    BY <1>1
  <2> QED BY <1>1, <2>1, BoundsAssumption DEF HashExpired
<1>3. /\ hashes \in Seq(Hashes) /\ n \in Nat /\ DOMAIN hashes = 1..n
      /\ u \in Seq(Hashes) /\ Len(u) = n + 1 /\ DOMAIN u = 1..(n + 1) /\ u[n + 1] = entry
      /\ \A i \in 1..n : u[i] = hashes[i]
  BY <1>1 DEF HashInv, Chronicle
<1> HIDE DEF n, u
<1>4. ASSUME NEW i \in 1..n PROVE hashes[i] # entry /\ hashes[i].at <= now
  <2>1. hashes[i].at <= now
    BY <1>3 DEF HashInv, Chronicle
  <2>2. hashes[i] # entry
    BY <1>1, <1>2, <1>3 DEF isDuplicateEvent
  <2> QED BY <2>1, <2>2
<1>5. \A i \in 1..(n + 1) : i \in 1..n \/ i = n + 1
  BY <1>3
<1>6. ASSUME NEW i \in 1..(n + 1), NEW j \in 1..(n + 1), i < j
      PROVE  u[i].at <= u[j].at /\ u[i] # u[j]
  <2>1. i \in 1..n
    BY <1>3, <1>6
  <2>2. CASE j \in 1..n
    BY <1>3, <1>6, <2>1, <2>2 DEF HashInv, Chronicle
  <2>3. CASE j = n + 1
    BY <1>1, <1>3, <1>4, <2>1, <2>3
  <2> QED BY <1>5, <2>2, <2>3
<1>7. \A i \in 1..(n + 1) : u[i].at <= now
  BY <1>1, <1>3, <1>4, <1>5
<1> QED BY <1>1, <1>2, <1>3, <1>6, <1>7 DEF Chronicle, u

\* registerEventHash gives up no unexpired hash younger than one it keeps, and
\* keeps the new one: three quarters of the maximum are not none.
LEMMA RegisteringKeepsTheNewest ==
  ASSUME CountInv, HashInv, NEW event \in Inputs, ~isDuplicateEvent(computeEventHash(event)),
         NEW v, v = registerEventHash(computeEventHash(event))
  PROVE  /\ Chronicle(v) /\ Len(v) <= DedupMax
         /\ \A i, j \in DOMAIN hashes :
              i < j /\ Contains(v, hashes[i]) => Contains(v, hashes[j])
         /\ Contains(v, [hash |-> computeEventHash(event), at |-> now])
<1> DEFINE entry == [hash |-> computeEventHash(event), at |-> now]
           n == Len(hashes)
           u == Append(hashes, entry)
           expired == {e \in ToSet(u) : HashExpired(e)}
           t == Drop(u, expired)
<1>1. Chronicle(u) /\ ~HashExpired(entry) /\ entry.hash.salt = now
  BY AppendKeepsChronicle
<1>2. /\ hashes \in Seq(Hashes) /\ n \in Nat /\ DOMAIN hashes = 1..n
      /\ DOMAIN u = 1..(n + 1) /\ u[n + 1] = entry
      /\ \A i \in 1..n : u[i] = hashes[i]
  BY DEF HashInv, Chronicle
<1>3. v = evictOldest(t)
  BY DEF registerEventHash, Unexpired
<1> HIDE DEF entry, n, u
<1>4. /\ Chronicle(t) /\ ToSet(t) = ToSet(u) \ expired /\ InOrder(t, u)
  BY <1>1, DropKeepsChronicle
<1> HIDE DEF t
<1>5. /\ t \in Seq(Hashes) /\ DOMAIN t = 1..Len(t) /\ Len(t) \in Nat
      /\ u \in Seq(Hashes)
  BY <1>1, <1>4 DEF Chronicle
<1>6. Chronicle(v) /\ Len(v) <= DedupMax /\ NewestOf(v, t)
  BY <1>3, <1>4, EvictionKeepsTheNewest
<1>7. PICK first \in 0..Len(t) :
        /\ \A i \in DOMAIN t : first < i => t[i] \in ToSet(v)
        /\ \A e \in ToSet(v) : \E i \in DOMAIN t : first < i /\ t[i] = e
  BY <1>6 DEF NewestOf
<1>8. \A x : Contains(v, x) <=> x \in ToSet(v)
  <2>1. DOMAIN v = 1..Len(v)
    BY <1>6 DEF Chronicle
  <2> QED BY <2>1 DEF Contains, ToSet
\* An element of u stands in it once, so what stands after it in u does in t.
<1>9. ASSUME NEW i \in DOMAIN u, NEW j \in DOMAIN u, i < j,
             NEW k \in DOMAIN t, NEW l \in DOMAIN t, t[k] = u[i], t[l] = u[j]
      PROVE  k < l
  <2>1. \A a, b \in DOMAIN u : u[a] = u[b] => a = b
    <3>1. \A a, b \in DOMAIN u : a < b => u[a] # u[b]
      BY <1>1 DEF Chronicle
    <3> QED BY <1>2, <3>1
  <2>2. CASE l < k
    <3>1. PICK a \in DOMAIN u, b \in DOMAIN u : a < b /\ t[l] = u[a] /\ t[k] = u[b]
      BY <1>4, <2>2, Zenon DEF InOrder
    <3>2. a = j /\ b = i
      BY <1>9, <2>1, <3>1
    <3> QED BY <1>2, <1>9, <3>1, <3>2
  <2>3. l # k
    BY <1>2, <1>9, <2>1
  <2> QED BY <1>5, <2>2, <2>3
<1>10. ASSUME NEW i \in DOMAIN hashes, NEW j \in DOMAIN hashes, i < j, hashes[i] \in ToSet(v)
       PROVE  hashes[j] \in ToSet(v)
  <2>1. PICK k \in DOMAIN t : first < k /\ t[k] = hashes[i]
    BY <1>7, <1>10
  <2>2. hashes[i] \in ToSet(t) /\ ~HashExpired(hashes[i])
    <3>1. t[k] \in ToSet(t)
      BY DEF ToSet
    <3> QED BY <1>4, <2>1, <3>1
  <2>3. /\ i \in DOMAIN u /\ j \in DOMAIN u /\ u[i] = hashes[i] /\ u[j] = hashes[j]
    BY <1>2
  <2>4. u[i].at <= u[j].at /\ u[i].at \in Nat /\ u[j].at \in Nat
    <3>1. u[i] \in Hashes /\ u[j] \in Hashes
      BY <1>5, <2>3
    <3> QED BY <1>1, <1>10, <2>3, <3>1 DEF Chronicle, Hashes
  <2>5. ~HashExpired(hashes[j])
    <3>1. now \in Nat /\ DedupTTL \in Nat
      BY BoundsAssumption DEF CountInv
    <3> QED BY <2>2, <2>3, <2>4, <3>1 DEF HashExpired
  <2>6. hashes[j] \in ToSet(t)
    <3>1. u[j] \in ToSet(u)
      BY <2>3 DEF ToSet
    <3> QED BY <1>4, <2>3, <2>5, <3>1
  <2>7. PICK l \in DOMAIN t : t[l] = hashes[j]
    BY <2>6 DEF ToSet
  <2>8. k < l
    BY <1>9, <1>10, <2>1, <2>3, <2>7
  <2> QED BY <1>5, <1>7, <2>1, <2>7, <2>8
<1>11. entry \in ToSet(v)
  <2>3. entry \in ToSet(t)
    <3>1. n + 1 \in DOMAIN u
      BY <1>2
    <3>2. entry \in ToSet(u)
      BY <1>2, <3>1, Zenon DEF ToSet
    <3> QED BY <1>1, <1>4, <3>2
  <2>1. PICK e : e \in ToSet(v)
    <3>1. t # <<>>
      BY <1>5, <2>3 DEF ToSet
    <3>2. v \in Seq(Hashes) /\ v # <<>>
      BY <1>3, <1>4, <1>6, <3>1, EvictionKeepsTheNewest DEF Chronicle
    <3>3. 1 \in DOMAIN v
      BY <3>2
    <3> QED BY <3>3 DEF ToSet
  <2>2. PICK k \in DOMAIN t : first < k
    BY <1>7, <2>1
  <2>4. PICK l \in DOMAIN t : t[l] = entry
    BY <2>3 DEF ToSet
  <2>5. k <= l
    <3> SUFFICES ASSUME l < k PROVE FALSE
      BY <1>5
    <3>1. PICK a \in DOMAIN u, b \in DOMAIN u : a < b /\ t[l] = u[a]
      BY <1>4, Zenon DEF InOrder
    <3>2. a # n + 1 /\ a < n + 1
      BY <1>2, <3>1
    <3>3. u[a] # u[n + 1]
      BY <1>1, <1>2, <3>2 DEF Chronicle
    <3> QED BY <1>2, <2>4, <3>1, <3>3
  <2> QED BY <1>5, <1>7, <2>2, <2>4, <2>5
<1> QED BY <1>6, <1>8, <1>10, <1>11 DEF entry

\* The timer gives up no hash that is younger than one it keeps.
LEMMA CleanupKeepsTheNewest ==
  ASSUME CountInv, HashInv, NEW v, v = Unexpired(hashes)
  PROVE  /\ Chronicle(v) /\ Len(v) <= DedupMax
         /\ \A i, j \in DOMAIN hashes :
              i < j /\ Contains(v, hashes[i]) => Contains(v, hashes[j])
<1> DEFINE expired == {e \in ToSet(hashes) : HashExpired(e)}
<1>1. Chronicle(hashes) /\ hashes \in Seq(Hashes) /\ Len(hashes) \in Nat /\ DedupMax \in Nat
  BY BoundsAssumption DEF HashInv, Chronicle
<1>2. v = Drop(hashes, expired)
  BY DEF Unexpired
<1>3. Chronicle(v) /\ Len(v) <= Len(hashes) /\ ToSet(v) = ToSet(hashes) \ expired
  BY <1>1, <1>2, DropKeepsChronicle
<1>4. v \in Seq(Hashes) /\ DOMAIN v = 1..Len(v) /\ Len(v) \in Nat
  BY <1>3 DEF Chronicle
<1>5. \A x : Contains(v, x) <=> x \in ToSet(v)
  BY <1>4 DEF Contains, ToSet
<1>6. ASSUME NEW i \in DOMAIN hashes, NEW j \in DOMAIN hashes, i < j, hashes[i] \in ToSet(v)
      PROVE  hashes[j] \in ToSet(v)
  <2>1. hashes[i] \in Hashes /\ hashes[j] \in Hashes /\ hashes[j] \in ToSet(hashes)
    BY <1>1 DEF ToSet
  <2>2. hashes[i].at <= hashes[j].at /\ hashes[i].at \in Nat /\ hashes[j].at \in Nat
    BY <1>1, <1>6, <2>1 DEF Chronicle, Hashes
  <2>3. ~HashExpired(hashes[i])
    BY <1>3, <1>6
  <2>4. ~HashExpired(hashes[j])
    <3>1. now \in Nat /\ DedupTTL \in Nat
      BY BoundsAssumption DEF CountInv
    <3> QED BY <2>2, <2>3, <3>1 DEF HashExpired
  <2> QED BY <1>3, <2>1, <2>4
<1>7. Len(v) <= DedupMax
  BY <1>1, <1>3, <1>4 DEF HashInv
<1> QED BY <1>3, <1>5, <1>6, <1>7

\* What a step does to the hash store.
Registers(s) ==
  /\ Event(s) \in Inputs /\ ~isDuplicateEvent(computeEventHash(Event(s)))
  /\ hashes' = registerEventHash(computeEventHash(Event(s)))
  /\ UNCHANGED now

LEMMA HashSteps ==
  ASSUME CountInv, [Next]_vars
  PROVE  \/ \E s \in Slots : Registers(s)
         \/ hashes' = Unexpired(hashes) /\ UNCHANGED <<now, wire>>
         \/ hashes' = <<>>
         \/ UNCHANGED hashes /\ now <= now'
<1>1. now \in Nat
  BY BoundsAssumption DEF CountInv
<1>2. ASSUME NEW s \in Slots, Submit(s) PROVE Registers(s) \/ UNCHANGED <<hashes, now>>
  <2>1. ~At(s, "idle")
    BY <1>2 DEF Submit, At
  <2>2. Event(s) \in Inputs
    BY <2>1, RequestIs
  <2> QED BY <1>2, <2>2 DEF Submit, Registers
<1>3. CASE \/ \E s \in Slots : Begin(s) \/ Refused(s) \/ Finish(s) \/ SubmitFails(s)
           \/ \E m \in wire : Take(m)
           \/ \E edge \in taken : Land(edge)
           \/ Tick \/ UNCHANGED vars
  BY <1>1, <1>3 DEF Begin, Refused, Finish, SubmitFails, Take, Land, Tick, vars
<1>4. CASE cleanupExpiredHashes \/ Crash
  BY <1>4 DEF cleanupExpiredHashes, Crash, chainVars
<1> QED BY <1>1, <1>2, <1>3, <1>4 DEF Next

\* A submission starts with its hash registered.
LEMMA SubmissionsRegister ==
  ASSUME CountInv, [Next]_vars, NEW s \in Slots, At(s, "verifying"), At(s, "submitting")'
  PROVE  Registers(s)
<1>1. recording[s] # recording'[s] /\ recording'[s].stage = "submitting"
  BY DEF At
<1>2. ASSUME NEW t \in Slots, t # s,
             Begin(t) \/ Submit(t) \/ Refused(t) \/ Finish(t) \/ SubmitFails(t)
      PROVE  recording'[s] = recording[s]
  <2>1. \E q : recording' = [recording EXCEPT ![t] = q]
    BY <1>2, Zenon DEF Begin, Submit, Refused, Finish, SubmitFails, Ends
  <2> QED BY <1>2, <2>1 DEF CountInv
<1>3. ~Begin(s) /\ ~Finish(s) /\ ~SubmitFails(s)
  BY DEF Begin, Finish, Submitted, SubmitFails, MayFail, At
<1>4. ~Refused(s)
  BY <1>1 DEF Refused, Ends, Idle, CountInv
<1>5. UNCHANGED recording => FALSE
  BY <1>1
<1>6. ~Crash
  BY <1>1 DEF Crash, Idle
<1>7. Submit(s)
  BY <1>1, <1>2, <1>3, <1>4, <1>5, <1>6 DEF Next, Take, Land, Tick, cleanupExpiredHashes, vars
<1>8. ~Ends(s)
  BY <1>1 DEF Ends, Idle, CountInv
<1>9. Event(s) \in Inputs
  BY RequestIs DEF At
<1> QED BY <1>7, <1>8, <1>9 DEF Submit, Registers

LEMMA HashStep == CountInv /\ HashInv /\ [Next]_vars => HashInv'
<1> SUFFICES ASSUME CountInv, HashInv, [Next]_vars PROVE HashInv'
  OBVIOUS
<1>1. ASSUME NEW s \in Slots, Registers(s) PROVE HashInv'
  <2>1. Chronicle(hashes') /\ Len(hashes') <= DedupMax
    BY <1>1, RegisteringKeepsTheNewest DEF Registers
  <2> QED BY <1>1, <2>1 DEF HashInv, Chronicle, Registers
<1>2. CASE hashes' = Unexpired(hashes) /\ UNCHANGED now
  <2>1. Chronicle(hashes') /\ Len(hashes') <= DedupMax
    BY <1>2, CleanupKeepsTheNewest
  <2> QED BY <1>2, <2>1 DEF HashInv, Chronicle
<1>3. CASE hashes' = <<>>
  BY <1>3, BoundsAssumption DEF HashInv, Chronicle
<1>4. CASE UNCHANGED hashes /\ now <= now'
  <2>1. now \in Nat /\ now' \in Nat
    BY CountStep, BoundsAssumption DEF CountInv
  <2>2. \A i \in DOMAIN hashes : hashes[i].at \in Nat /\ hashes[i].at <= now
    <3>1. \A i \in DOMAIN hashes : hashes[i] \in Hashes /\ hashes[i].at <= now
      BY DEF HashInv, Chronicle
    <3> QED BY <3>1 DEF Hashes
  <2>3. \A i \in DOMAIN hashes : hashes[i].at <= now'
    BY <1>4, <2>1, <2>2
  <2> QED BY <1>4, <2>3 DEF HashInv, Chronicle
<1> QED BY <1>1, <1>2, <1>3, <1>4, HashSteps

LEMMA HashBegins == Init => HashInv
<1> SUFFICES ASSUME Init PROVE HashInv
  OBVIOUS
<1>1. hashes = <<>> /\ <<>> \in Seq(Hashes) /\ DOMAIN <<>> = {} /\ Len(<<>>) = 0
  BY DEF Init
<1> QED BY <1>1, BoundsAssumption DEF HashInv, Chronicle

LEMMA HashInvariance == Spec => [](CountInv /\ HashInv)
<1>1. CountInv /\ HashInv /\ [Next]_vars => CountInv' /\ HashInv'
  BY CountStep, HashStep
<1> QED BY <1>1, CountBegins, HashBegins, PTL DEF Spec

(***************************************************************************)
(* registerEventHash and the five-minute timer leave the store within its  *)
(* maximum and give up no hash younger than one they keep; a submission    *)
(* starts with the hash of its own event in the store.                     *)
(***************************************************************************)
THEOREM DedupGivesUpTheOldest == Spec => DedupKeepsTheNewest
<1> DEFINE Newest ==
      /\ Len(hashes') <= DedupMax
      /\ \A s \in Slots : At(s, "verifying") /\ At(s, "submitting")' =>
           Contains(hashes', [hash |-> computeEventHash(Event(s)), at |-> now])
      /\ \A i, j \in DOMAIN hashes :
           i < j /\ Contains(hashes', hashes[i]) => Contains(hashes', hashes[j])
<1>1. CountInv /\ HashInv /\ [Next]_vars => Newest
  <2> SUFFICES ASSUME CountInv, HashInv, [Next]_vars PROVE Newest
    OBVIOUS
  <2>1. Len(hashes') <= DedupMax
    BY HashStep DEF HashInv
  <2>2. ASSUME NEW s \in Slots, At(s, "verifying") /\ At(s, "submitting")'
        PROVE  Contains(hashes', [hash |-> computeEventHash(Event(s)), at |-> now])
    BY <2>2, SubmissionsRegister, RegisteringKeepsTheNewest DEF Registers
  <2>3. ASSUME NEW i \in DOMAIN hashes, NEW j \in DOMAIN hashes, i < j,
               Contains(hashes', hashes[i])
        PROVE  Contains(hashes', hashes[j])
    <3>1. CASE \E s \in Slots : Registers(s)
      BY <2>3, <3>1, RegisteringKeepsTheNewest DEF Registers
    <3>2. CASE hashes' = Unexpired(hashes)
      BY <2>3, <3>2, CleanupKeepsTheNewest
    <3>3. CASE hashes' = <<>>
      BY <2>3, <3>3 DEF Contains
    <3>4. CASE UNCHANGED hashes
      <4>1. DOMAIN hashes = 1..Len(hashes)
        BY DEF HashInv, Chronicle
      <4> QED BY <3>4, <4>1 DEF Contains
    <3> QED BY <3>1, <3>2, <3>3, <3>4, HashSteps
  <2> QED BY <2>1, <2>2, <2>3
<1>2. CountInv /\ HashInv /\ [Next]_vars => [Newest]_vars
  BY <1>1
<1> HIDE DEF Newest
<1>3. Spec => [][Newest]_vars
  BY <1>2, HashInvariance, PTL DEF Spec
<1> QED BY <1>3 DEF DedupKeepsTheNewest, Newest

-----------------------------------------------------------------------------
(***************************************************************************)
(* The cycle check.  levels is a certificate that no path of MaxDepth      *)
(* edges of the graph leads from target to source: each level holds the    *)
(* successors of the one before, and the last does not hold the source.    *)
(* The search of wouldCreateEndorsementCycle leaves one when it fails, and *)
(* it is one for every part of the graph.                                  *)
(***************************************************************************)
Levels(levels, G, target) ==
  /\ levels \in [0..MaxDepth -> SUBSET Wallets]
  /\ target \in levels[0]
  /\ \A d \in 1..MaxDepth :
       /\ levels[d - 1] \subseteq levels[d]
       /\ \A v \in levels[d - 1] : \A w \in Wallets : <<v, w>> \in G => w \in levels[d]

Unreached(G, source, target) ==
  \E levels : Levels(levels, G, target) /\ source \notin levels[MaxDepth]

LEMMA PartUnreached ==
  ASSUME NEW G, NEW H, H \subseteq G, NEW source, NEW target, Unreached(G, source, target)
  PROVE  Unreached(H, source, target)
BY DEF Unreached, Levels

\* The search's levels, which its recursive function defines.
Searched(f, target) ==
  f = [d \in 0..MaxDepth |->
         IF d = 0 THEN {target}
         ELSE f[d - 1] \union {w \in Wallets : \E v \in f[d - 1] : <<v, w>> \in Edges}]

LEMMA SomeSearched ==
  ASSUME NEW target \in Wallets
  PROVE  \E f : Searched(f, target)
<1> DEFINE V == SUBSET Wallets
           next == [q \in V |-> q \union {w \in Wallets : \E v \in q : <<v, w>> \in Edges}]
           step == [d \in 1..MaxDepth |-> next]
<1>1. MaxDepth \in Nat /\ {target} \in V
  BY BoundsAssumption
<1>2. next \in [V -> V]
  OBVIOUS
<1>3. \A q \in V : next[q] = q \union {w \in Wallets : \E v \in q : <<v, w>> \in Edges}
  OBVIOUS
<1> HIDE DEF next
<1>4. step \in [1..MaxDepth -> [V -> V]]
  BY <1>2
<1>5. \A d \in 1..MaxDepth : step[d] = next
  OBVIOUS
<1> HIDE DEF step, V
<1>6. Recursive(MaxDepth, V, {target}, step)
  BY <1>1, <1>4, RecursionDefines
<1>7. PICK f \in [0..MaxDepth -> V] :
        f[0] = {target} /\ \A d \in 1..MaxDepth : f[d] = step[d][f[d - 1]]
  BY <1>6 DEF Recursive
<1>8. \A d \in 1..MaxDepth :
        f[d] = f[d - 1] \union {w \in Wallets : \E v \in f[d - 1] : <<v, w>> \in Edges}
  <2> SUFFICES ASSUME NEW d \in 1..MaxDepth
               PROVE  f[d] = f[d - 1] \union {w \in Wallets : \E v \in f[d - 1] : <<v, w>> \in Edges}
    OBVIOUS
  <2>1. f[d - 1] \in V
    BY <1>1, <1>7
  <2> QED BY <1>3, <1>5, <1>7, <2>1
<1> DEFINE g == [d \in 0..MaxDepth |->
         IF d = 0 THEN {target}
         ELSE f[d - 1] \union {w \in Wallets : \E v \in f[d - 1] : <<v, w>> \in Edges}]
<1>9. \A d \in 0..MaxDepth : f[d] = g[d]
  <2> SUFFICES ASSUME NEW d \in 0..MaxDepth PROVE f[d] = g[d]
    OBVIOUS
  <2>1. CASE d = 0
    BY <1>7, <2>1
  <2>2. CASE d # 0
    <3>1. d \in 1..MaxDepth
      BY <1>1, <2>2
    <3> QED BY <1>8, <2>2, <3>1
  <2> QED BY <2>1, <2>2
<1>10. g = [d \in 0..MaxDepth |-> g[d]] /\ f = [d \in 0..MaxDepth |-> f[d]]
  BY <1>7
<1> HIDE DEF g
<1>11. f = g
  BY <1>9, <1>10
<1>12. Searched(f, target)
  BY <1>11, Zenon DEF Searched, g
<1> QED BY <1>12

\* A check that finds no cycle leaves a certificate.
LEMMA CheckCertifies ==
  ASSUME NEW source \in Wallets, NEW target \in Wallets,
         ~wouldCreateEndorsementCycle(source, target)
  PROVE  Unreached(Edges, source, target)
<1> DEFINE f == CHOOSE f : Searched(f, target)
<1>1. Searched(f, target)
  BY SomeSearched, Zenon
<1>2. Frontier(target, MaxDepth) = f[MaxDepth]
  BY DEF Frontier, Searched
<1> HIDE DEF f
<1>3. MaxDepth \in Nat /\ MaxDepth \in 0..MaxDepth
  BY BoundsAssumption
<1>4. f[0] = {target} /\ \A d \in 1..MaxDepth :
        f[d] = f[d - 1] \union {w \in Wallets : \E v \in f[d - 1] : <<v, w>> \in Edges}
  <2>1. /\ 0 \in 0..MaxDepth
        /\ \A d \in 1..MaxDepth : d \in 0..MaxDepth /\ d # 0
    BY <1>3
  <2> QED BY <1>1, <2>1 DEF Searched
<1>5. DOMAIN f = 0..MaxDepth /\ f = [d \in 0..MaxDepth |-> f[d]]
  BY <1>1 DEF Searched
<1> DEFINE Bad == {d \in 0..MaxDepth : ~(f[d] \in SUBSET Wallets)}
<1>6. Bad = {}
  <2> SUFFICES ASSUME Bad # {} PROVE FALSE
    OBVIOUS
  <2>1. 0 \notin Bad /\ Bad \in SUBSET (0..MaxDepth)
    BY <1>4
  <2>2. PICK d \in 1..MaxDepth : d \in Bad /\ d - 1 \in 0..MaxDepth /\ d - 1 \notin Bad
    <3> HIDE DEF Bad
    <3> QED BY <1>3, <2>1, FirstFailure
  <2>3. f[d - 1] \in SUBSET Wallets
    BY <2>2
  <2> QED BY <1>4, <2>2, <2>3
<1>7. f \in [0..MaxDepth -> SUBSET Wallets]
  BY <1>5, <1>6
<1>8. Levels(f, Edges, target)
  BY <1>4, <1>7 DEF Levels
<1>9. source \notin f[MaxDepth]
  BY <1>2 DEF wouldCreateEndorsementCycle
<1> QED BY <1>8, <1>9 DEF Unreached

\* The last level holds all the others.
LEMMA LevelsGrow ==
  ASSUME NEW levels, NEW G, NEW target, Levels(levels, G, target)
  PROVE  \A d \in 0..MaxDepth : levels[d] \subseteq levels[MaxDepth]
<1>1. MaxDepth \in Nat
  BY BoundsAssumption
<1> DEFINE Bad == {k \in 0..MaxDepth : ~(levels[MaxDepth - k] \subseteq levels[MaxDepth])}
<1>2. Bad = {}
  <2> SUFFICES ASSUME Bad # {} PROVE FALSE
    OBVIOUS
  <2>1. 0 \notin Bad /\ Bad \in SUBSET (0..MaxDepth)
    BY <1>1
  <2>2. PICK k \in 1..MaxDepth : k \in Bad /\ k - 1 \in 0..MaxDepth /\ k - 1 \notin Bad
    <3> HIDE DEF Bad
    <3> QED BY <1>1, <2>1, FirstFailure
  <2>3. levels[MaxDepth - (k - 1)] \subseteq levels[MaxDepth]
    BY <2>2
  <2>4. MaxDepth - (k - 1) \in 1..MaxDepth /\ (MaxDepth - (k - 1)) - 1 = MaxDepth - k
    BY <1>1, <2>2
  <2>5. levels[MaxDepth - k] \subseteq levels[MaxDepth - (k - 1)]
    BY <2>4 DEF Levels
  <2> QED BY <2>2, <2>3, <2>5
<1>3. ASSUME NEW d \in 0..MaxDepth PROVE levels[d] \subseteq levels[MaxDepth]
  <2>1. MaxDepth - d \in 0..MaxDepth /\ MaxDepth - (MaxDepth - d) = d
    BY <1>1
  <2>2. levels[MaxDepth - (MaxDepth - d)] \subseteq levels[MaxDepth]
    BY <1>2, <2>1
  <2> QED BY <2>1, <2>2
<1> QED BY <1>3

\* A walk that goes once round a cycle from its edge i on.
Round(cycle, n, i) == [k \in 0..n |-> cycle[IF i + k <= n THEN i + k ELSE i + k - n]]

LEMMA RoundIs ==
  ASSUME NEW n \in Nat \ {0}, NEW cycle \in [1..n -> Wallets], NEW i \in 1..n
  PROVE  /\ Round(cycle, n, i) \in [0..n -> Wallets]
         /\ Round(cycle, n, i)[n] = Round(cycle, n, i)[0]
         /\ CycleEdge(cycle, i) = <<Round(cycle, n, i)[0], Round(cycle, n, i)[1]>>
         /\ \A k \in 0..(n - 1) : \E j \in 1..n :
              <<Round(cycle, n, i)[k], Round(cycle, n, i)[k + 1]>> = CycleEdge(cycle, j)
<1> DEFINE at(k) == IF i + k <= n THEN i + k ELSE i + k - n
           walk == Round(cycle, n, i)
<1>1. Len(cycle) = n
  OBVIOUS
<1>2. \A k \in 0..n : at(k) \in 1..n
  OBVIOUS
<1>3. \A k \in 0..n : walk[k] = cycle[at(k)]
  BY DEF Round
<1>4. walk \in [0..n -> Wallets]
  BY <1>2 DEF Round
<1>5. at(0) = i /\ at(n) = i /\ 0 \in 0..n /\ n \in 0..n /\ 1 \in 0..n
  OBVIOUS
<1>6. \A k \in 0..(n - 1) :
        k \in 0..n /\ k + 1 \in 0..n /\ at(k + 1) = IF at(k) = n THEN 1 ELSE at(k) + 1
  OBVIOUS
<1> HIDE DEF at, walk
<1>7. \A k \in 0..(n - 1) : CycleEdge(cycle, at(k)) = <<walk[k], walk[k + 1]>>
  <2> SUFFICES ASSUME NEW k \in 0..(n - 1)
               PROVE  CycleEdge(cycle, at(k)) = <<walk[k], walk[k + 1]>>
    OBVIOUS
  <2>1. k \in 0..n /\ k + 1 \in 0..n /\ at(k + 1) = IF at(k) = n THEN 1 ELSE at(k) + 1
    BY <1>6
  <2>2. walk[k] = cycle[at(k)] /\ walk[k + 1] = cycle[IF at(k) = n THEN 1 ELSE at(k) + 1]
    BY <1>3, <2>1
  <2> QED BY <1>1, <2>2 DEF CycleEdge
<1>8. CycleEdge(cycle, i) = <<walk[0], walk[1]>>
  <2>1. 0 \in 0..(n - 1) /\ 0 + 1 = 1
    OBVIOUS
  <2> QED BY <1>5, <1>7, <2>1
<1>9. \A k \in 0..(n - 1) : \E j \in 1..n : <<walk[k], walk[k + 1]>> = CycleEdge(cycle, j)
  BY <1>2, <1>6, <1>7
<1>10. walk[n] = walk[0]
  BY <1>3, <1>5
<1> QED BY <1>4, <1>8, <1>9, <1>10 DEF walk

\* With the certificate, the checked edge closes no cycle that the check can see.
LEMMA NoCycleThroughTheEdge ==
  ASSUME NEW G, NEW source, NEW target, Unreached(G, source, target),
         NEW n \in 1..(MaxDepth + 1), NEW cycle \in [1..n -> Wallets],
         \A j \in 1..n : CycleEdge(cycle, j) \in G \/ CycleEdge(cycle, j) = <<source, target>>,
         NEW i \in 1..n, CycleEdge(cycle, i) = <<source, target>>
  PROVE  FALSE
<1>1. MaxDepth \in Nat /\ n \in Nat \ {0} /\ n - 1 \in 0..MaxDepth
  BY BoundsAssumption
<1>2. PICK levels : Levels(levels, G, target) /\ source \notin levels[MaxDepth]
  BY DEF Unreached
<1> DEFINE walk == Round(cycle, n, i)
<1>3. /\ walk \in [0..n -> Wallets] /\ walk[n] = walk[0]
      /\ CycleEdge(cycle, i) = <<walk[0], walk[1]>>
      /\ \A k \in 0..(n - 1) : \E j \in 1..n : <<walk[k], walk[k + 1]>> = CycleEdge(cycle, j)
  BY <1>1, RoundIs
<1> HIDE DEF walk
<1>4. walk[0] = source /\ walk[1] = target /\ walk[n] = source
  BY <1>3
<1>5. ASSUME NEW k \in 0..(n - 1)
      PROVE  <<walk[k], walk[k + 1]>> \in G \/ walk[k] = source
  <2>1. PICK j \in 1..n : <<walk[k], walk[k + 1]>> = CycleEdge(cycle, j)
    BY <1>3
  <2>2. <<walk[k], walk[k + 1]>> \in G \/ <<walk[k], walk[k + 1]>> = <<source, target>>
    BY <2>1, Zenon
  <2> QED BY <2>2
<1>6. \A d \in 0..MaxDepth : source \notin levels[d]
  BY <1>2, LevelsGrow
<1> DEFINE Bad == {d \in 0..(n - 1) : walk[d + 1] \notin levels[d]}
<1>7. Bad = {}
  <2> SUFFICES ASSUME Bad # {} PROVE FALSE
    OBVIOUS
  <2>1. 0 \notin Bad /\ Bad \in SUBSET (0..(n - 1)) /\ n - 1 \in Nat
    BY <1>1, <1>2, <1>4 DEF Levels
  <2>2. PICK d \in 1..(n - 1) : d \in Bad /\ d - 1 \in 0..(n - 1) /\ d - 1 \notin Bad
    <3> HIDE DEF Bad
    <3> QED BY <2>1, FirstFailure
  <2>3. /\ d \in 0..(n - 1) /\ d \in 1..MaxDepth /\ d - 1 \in 0..MaxDepth
        /\ (d - 1) + 1 = d /\ d + 1 \in 0..n
    BY <1>1, <2>2
  <2>4. walk[d] \in levels[d - 1]
    BY <2>2, <2>3
  <2>5. walk[d] # source
    BY <1>6, <2>3, <2>4
  <2>6. <<walk[d], walk[d + 1]>> \in G /\ walk[d + 1] \in Wallets
    BY <1>3, <1>5, <2>3, <2>5
  <2>7. walk[d + 1] \in levels[d]
    BY <1>2, <2>3, <2>4, <2>6 DEF Levels
  <2> QED BY <2>2, <2>7
<1>8. walk[n] \in levels[n - 1]
  <2>1. n - 1 \in 0..(n - 1) /\ (n - 1) + 1 = n
    BY <1>1
  <2> QED BY <1>7, <2>1
<1> QED BY <1>1, <1>4, <1>6, <1>8

-----------------------------------------------------------------------------
(***************************************************************************)
(* Races.  Between its check and its recording a request keeps a           *)
(* certificate for the graph without the edges added since, which unseen   *)
(* holds: so a cycle that its edge closes has one of those in it.          *)
(***************************************************************************)
CyclesOf(G) ==
  {cycle \in UNION {[1..n -> Wallets] : n \in 1..(MaxDepth + 1)} :
     \A i \in DOMAIN cycle : CycleEdge(cycle, i) \in G}

AllRaced(G, pairs) ==
  \A cycle \in CyclesOf(G) :
    \E i, j \in DOMAIN cycle : <<CycleEdge(cycle, i), CycleEdge(cycle, j)>> \in pairs

Watched(q, G, since) ==
  /\ since \subseteq G
  /\ q.stage = "idle" => since = {}
  /\ q.stage # "idle" /\ IsEdge(q.event) =>
       Unreached(G \ since, q.event.wallet, q.event.counterparty)

RaceInv ==
  /\ unseen = [s \in Slots |-> unseen[s]]
  /\ \A s \in Slots : Watched(recording[s], Edges, unseen[s])
  /\ raced \subseteq Edges \X Edges
  /\ AllRaced(Edges, raced)

\* An edge that is added races all that were added since its check; the cycles that
\* are left have two edges that raced.
LEMMA AddingKeepsAllRaced ==
  ASSUME NEW G, NEW K, NEW fresh, K \subseteq G \cup fresh,
         NEW since, NEW pairs, AllRaced(G, pairs), NEW source, NEW target,
         fresh = {} \/ (fresh = {<<source, target>>} /\ Unreached(G \ since, source, target))
  PROVE  AllRaced(K, (pairs \cup (fresh \X since)) \cap (K \X K))
<1> DEFINE left == (pairs \cup (fresh \X since)) \cap (K \X K)
<1> SUFFICES ASSUME NEW cycle \in CyclesOf(K)
             PROVE  \E i, j \in DOMAIN cycle : <<CycleEdge(cycle, i), CycleEdge(cycle, j)>> \in left
  BY DEF AllRaced
<1>1. PICK n \in 1..(MaxDepth + 1) : cycle \in [1..n -> Wallets]
  BY DEF CyclesOf
<1>2. DOMAIN cycle = 1..n /\ \A i \in 1..n : CycleEdge(cycle, i) \in K
  BY <1>1 DEF CyclesOf
<1>3. CASE \A i \in 1..n : CycleEdge(cycle, i) \in G
  <2>1. cycle \in CyclesOf(G)
    BY <1>1, <1>2, <1>3 DEF CyclesOf
  <2>2. PICK i \in DOMAIN cycle, j \in DOMAIN cycle :
          <<CycleEdge(cycle, i), CycleEdge(cycle, j)>> \in pairs
    BY <2>1, Zenon DEF AllRaced
  <2>3. CycleEdge(cycle, i) \in K /\ CycleEdge(cycle, j) \in K
    BY <1>2
  <2> QED BY <2>2, <2>3
<1>4. ASSUME NEW i \in 1..n, CycleEdge(cycle, i) \notin G
      PROVE  \E k, j \in DOMAIN cycle : <<CycleEdge(cycle, k), CycleEdge(cycle, j)>> \in left
  <2>1. CycleEdge(cycle, i) \in fresh
    BY <1>2, <1>4
  <2>2. /\ fresh = {<<source, target>>} /\ Unreached(G \ since, source, target)
        /\ CycleEdge(cycle, i) = <<source, target>>
    BY <2>1
  <2>3. CASE \E j \in 1..n : CycleEdge(cycle, j) \in since
    <3>1. PICK j \in 1..n : CycleEdge(cycle, j) \in since
      BY <2>3
    <3>2. <<CycleEdge(cycle, i), CycleEdge(cycle, j)>> \in left
      BY <1>2, <2>1, <3>1
    <3> QED BY <1>2, <3>2
  <2>4. CASE \A j \in 1..n : CycleEdge(cycle, j) \notin since
    <3>1. ASSUME NEW j \in 1..n
          PROVE  CycleEdge(cycle, j) \in G \ since \/ CycleEdge(cycle, j) = <<source, target>>
      <4>1. CycleEdge(cycle, j) \in K /\ CycleEdge(cycle, j) \notin since
        BY <1>2, <2>4
      <4>2. CycleEdge(cycle, j) \in G \/ CycleEdge(cycle, j) \in fresh
        BY <4>1
      <4> QED BY <2>2, <4>1, <4>2
    <3> DEFINE H == G \ since
    <3>2. Unreached(H, source, target)
      BY <2>2
    <3>3. \A j \in 1..n : CycleEdge(cycle, j) \in H \/ CycleEdge(cycle, j) = <<source, target>>
      BY <3>1
    <3> HIDE DEF H
    <3> QED BY <1>1, <2>2, <3>2, <3>3, NoCycleThroughTheEdge
  <2> QED BY <2>3, <2>4
<1> HIDE DEF left
<1> QED BY <1>3, <1>4

\* A step that leaves the graph and the races alone.
LEMMA RacesUntouched ==
  ASSUME RaceInv, UNCHANGED <<endorsees, raced>>, unseen' = [s \in Slots |-> unseen'[s]],
         \A s \in Slots : Watched(recording'[s], Edges, unseen'[s])
  PROVE  RaceInv'
<1>1. Edges' = Edges
  BY DEF Edges
<1>2. \A s \in Slots : Watched(recording[s], Edges, unseen[s])'
  BY <1>1 DEF Watched, IsEdge, Unreached, Levels
<1>3. AllRaced(Edges, raced)'
  BY <1>1 DEF RaceInv, AllRaced, CyclesOf, CycleEdge
<1> QED BY <1>1, <1>2, <1>3 DEF RaceInv

LEMMA EndedIsWatched == \A G : Watched(Idle, G, {})
BY DEF Watched, Idle

LEMMA BeginKeepsRaceInv ==
  ASSUME CountInv, RaceInv, NEW s \in Slots, Begin(s)
  PROVE  RaceInv'
<1>1. UNCHANGED <<endorsees, raced, unseen>>
  BY DEF Begin, historyVars
<1>2. PICK event \in Inputs :
        \/ UNCHANGED recording
        \/ /\ ~(IsEdge(event) /\ wouldCreateEndorsementCycle(event.wallet, event.counterparty))
           /\ recording' = [recording EXCEPT ![s] =
                              [stage |-> "verifying", id |-> events', event |-> event]]
  BY DEF Begin
<1>3. CASE UNCHANGED recording
  BY <1>1, <1>3, RacesUntouched DEF RaceInv
<1>4. CASE /\ ~(IsEdge(event) /\ wouldCreateEndorsementCycle(event.wallet, event.counterparty))
           /\ recording' = [recording EXCEPT ![s] =
                              [stage |-> "verifying", id |-> events', event |-> event]]
  <2> DEFINE q == [stage |-> "verifying", id |-> events', event |-> event]
  <2>1. \A t \in Slots : recording'[t] = IF t = s THEN q ELSE recording[t]
    BY <1>4 DEF CountInv
  <2>2. unseen[s] = {}
    BY DEF RaceInv, Watched, Begin, At
  <2>3. q.stage = "verifying" /\ q.event = event
    OBVIOUS
  <2> HIDE DEF q
  <2>4. IsEdge(event) => Unreached(Edges, event.wallet, event.counterparty)
    <3>1. event \in Events
      BY InputsAssumption
    <3>2. IsEdge(event) => event.wallet \in Wallets /\ event.counterparty \in Wallets
      BY <3>1 DEF Events, IsEdge
    <3>3. PICK a, b : a = event.wallet /\ b = event.counterparty
      OBVIOUS
    <3>4. IsEdge(event) => Unreached(Edges, a, b)
      BY <1>4, <3>2, <3>3, CheckCertifies
    <3> QED BY <3>3, <3>4
  <2>5. Watched(q, Edges, {})
    <3>1. Edges \ {} = Edges /\ {} \subseteq Edges
      OBVIOUS
    <3> QED BY <2>3, <2>4, <3>1 DEF Watched
  <2>6. \A t \in Slots : Watched(recording'[t], Edges, unseen'[t])
    BY <1>1, <2>1, <2>2, <2>5 DEF RaceInv
  <2> QED BY <1>1, <2>6, RacesUntouched DEF RaceInv
<1> QED BY <1>2, <1>3, <1>4

\* A request that ends without an edge.
LEMMA EndKeepsRaceInv ==
  ASSUME CountInv, RaceInv, NEW s \in Slots, Ends(s), UNCHANGED endorsees
  PROVE  RaceInv'
<1>1. /\ \A t \in Slots : recording'[t] = IF t = s THEN Idle ELSE recording[t]
      /\ \A t \in Slots : unseen'[t] = IF t = s THEN {} ELSE unseen[t]
      /\ unseen' = [t \in Slots |-> unseen'[t]] /\ UNCHANGED raced
  BY DEF Ends, CountInv, RaceInv
<1>2. \A t \in Slots : Watched(recording'[t], Edges, unseen'[t])
  BY <1>1, EndedIsWatched DEF RaceInv
<1> QED BY <1>1, <1>2, RacesUntouched

LEMMA SubmitKeepsRaceInv ==
  ASSUME CountInv, RaceInv, NEW s \in Slots, Submit(s)
  PROVE  RaceInv'
<1>1. UNCHANGED endorsees
  BY DEF Submit
<1>2. CASE Ends(s)
  BY <1>1, <1>2, EndKeepsRaceInv
<1>3. CASE recording' = [recording EXCEPT ![s].stage = "submitting"] /\ UNCHANGED historyVars
  <2> DEFINE k == recording[s]
             q == [k EXCEPT !.stage = "submitting"]
  <2>1. k \in [stage : {"verifying", "submitting"}, id : 1..MaxEvents, event : Inputs]
        /\ k.stage # "idle"
    <3>1. ~At(s, "idle")
      BY DEF Submit, At
    <3> QED BY <3>1, RequestIs DEF At
  <2>2. \A t \in Slots : recording'[t] = IF t = s THEN q ELSE recording[t]
    BY <1>3 DEF CountInv
  <2>3. Watched(k, Edges, unseen[s])
    BY DEF RaceInv
  <2> HIDE DEF k
  <2>4. q.stage = "submitting" /\ q.event = k.event
    BY <2>1
  <2> HIDE DEF q
  <2>5. Watched(q, Edges, unseen[s])
    BY <2>1, <2>3, <2>4 DEF Watched
  <2>6. \A t \in Slots : Watched(recording'[t], Edges, unseen'[t])
    BY <1>3, <2>2, <2>5 DEF RaceInv, historyVars
  <2> QED BY <1>1, <1>3, <2>6, RacesUntouched DEF RaceInv, historyVars
<1> QED BY <1>2, <1>3 DEF Submit

LEMMA FinishKeepsRaceInv ==
  ASSUME EInv, CountInv, RaceInv, NEW s \in Slots, Finish(s)
  PROVE  RaceInv'
<1> DEFINE q == recording[s]
           e == EdgeOf(Event(s))
           fresh == IF IsEdge(Event(s)) THEN {e} \ Edges ELSE {}
           K == Edges'
<1>1. At(s, "submitting") /\ q.event = Event(s) /\ q.stage # "idle"
  BY DEF Finish, Submitted, At, Event
<1>2. K = {x \in Wallets \X Wallets : Contains(endorsees'[x[1]], x[2])}
  BY DEF Edges
<1>3. /\ recording' = [recording EXCEPT ![s] = Idle]
      /\ unseen' = [t \in Slots |-> IF t = s \/ At(t, "idle") THEN {}
                                    ELSE (unseen[t] \union fresh) \intersect K]
      /\ raced' = (raced \union (fresh \X unseen[s])) \intersect (K \X K)
  BY <1>2, Zenon DEF Finish
<1>4. K \subseteq Edges \cup fresh
  <2>1. CASE ~IsEdge(Event(s))
    <3>1. endorsees' = endorsees
      BY <2>1 DEF Finish
    <3> QED BY <3>1 DEF Edges
  <2>2. CASE IsEdge(Event(s))
    <3>1. PICK a \in Wallets, b \in Wallets : a = Event(s).wallet /\ b = Event(s).counterparty
      BY <1>1, <2>2, OpenRequest
    <3>2. endorsees' = recordEndorsement(a, b)
      BY <2>2, <3>1 DEF Finish
    <3>3. \A w \in Wallets : \A x : Contains(endorsees'[w], x) =>
             Contains(endorsees[w], x) \/ (w = a /\ x = b)
      BY <3>2, RecordedSet
    <3>4. ASSUME NEW w \in Wallets, NEW x \in Wallets, <<w, x>> \in K
          PROVE  <<w, x>> \in Edges \cup fresh
      <4>1. Contains(endorsees'[w], x)
        BY <1>2, <3>4
      <4>2. <<w, x>> \in Edges \/ <<w, x>> = e
        BY <3>1, <3>3, <4>1, EdgesAre DEF EdgeOf
      <4> QED BY <2>2, <4>2
    <3> QED BY <1>2, <3>4
  <2> QED BY <2>1, <2>2
<1>5. Watched(q, Edges, unseen[s])
  BY DEF RaceInv
<1>6. /\ fresh = {} \/ fresh = {<<Event(s).wallet, Event(s).counterparty>>}
      /\ fresh # {} => Unreached(Edges \ unseen[s], Event(s).wallet, Event(s).counterparty)
  <2>1. IsEdge(Event(s)) => Unreached(Edges \ unseen[s], Event(s).wallet, Event(s).counterparty)
    BY <1>1, <1>5 DEF Watched
  <2> QED BY <2>1 DEF EdgeOf
<1> HIDE DEF q, e, fresh, K
<1>7. AllRaced(K, raced')
  <2>1. PICK a, b : a = Event(s).wallet /\ b = Event(s).counterparty
    OBVIOUS
  <2>2. fresh = {} \/ (fresh = {<<a, b>>} /\ Unreached(Edges \ unseen[s], a, b))
    BY <1>6, <2>1
  <2>3. AllRaced(Edges, raced)
    BY DEF RaceInv
  <2>4. AllRaced(K, (raced \union (fresh \X unseen[s])) \intersect (K \X K))
    BY <1>4, <2>2, <2>3, AddingKeepsAllRaced
  <2> QED BY <1>3, <2>4
<1>8. ASSUME NEW t \in Slots PROVE Watched(recording'[t], K, unseen'[t])
  <2>1. CASE t = s
    <3>1. recording'[t] = Idle /\ unseen'[t] = {}
      BY <1>3, <2>1 DEF CountInv
    <3> QED BY <3>1, EndedIsWatched
  <2>2. CASE t # s /\ At(t, "idle")
    <3>1. recording'[t] = recording[t] /\ unseen'[t] = {} /\ recording[t].stage = "idle"
      BY <1>3, <2>2 DEF CountInv, At
    <3> QED BY <3>1 DEF Watched
  <2>3. CASE t # s /\ ~At(t, "idle")
    <3> DEFINE k == recording[t]
               u == unseen'[t]
               was == unseen[t]
    <3>1. recording'[t] = k /\ u = (was \union fresh) \intersect K /\ k.stage # "idle"
      BY <1>3, <2>3 DEF CountInv, At
    <3>2. Watched(k, Edges, was)
      BY DEF RaceInv
    <3> HIDE DEF k, u, was
    <3>3. K \ u \subseteq Edges \ was
      BY <1>4, <3>1
    <3>4. IsEdge(k.event) => Unreached(K \ u, k.event.wallet, k.event.counterparty)
      <4>1. PICK a, b : a = k.event.wallet /\ b = k.event.counterparty
        OBVIOUS
      <4>2. IsEdge(k.event) => Unreached(Edges \ was, a, b)
        BY <3>1, <3>2, <4>1 DEF Watched
      <4>3. IsEdge(k.event) => Unreached(K \ u, a, b)
        BY <3>3, <4>2, PartUnreached
      <4> QED BY <4>1, <4>3
    <3>5. Watched(k, K, u)
      BY <3>1, <3>4 DEF Watched
    <3> QED BY <3>1, <3>5 DEF u
  <2> QED BY <2>1, <2>2, <2>3
<1>9. raced' \subseteq K \X K /\ unseen' = [t \in Slots |-> unseen'[t]]
  BY <1>3
<1>10. \A t \in Slots : Watched(recording[t], Edges, unseen[t])'
  BY <1>8 DEF K, Watched, IsEdge, Unreached, Levels
<1>11. AllRaced(Edges, raced)'
  BY <1>7 DEF K, AllRaced, CyclesOf, CycleEdge
<1> QED BY <1>9, <1>10, <1>11 DEF RaceInv, K

\* Without edges there are no cycles.
LEMMA NoEdgesNoRaces ==
  ASSUME NEW pairs
  PROVE  AllRaced({}, pairs)
<1>1. ASSUME NEW cycle \in CyclesOf({}) PROVE FALSE
  <2>1. PICK n \in 1..(MaxDepth + 1) : cycle \in [1..n -> Wallets]
    BY DEF CyclesOf
  <2>2. 1 \in DOMAIN cycle
    BY <2>1, BoundsAssumption
  <2> QED BY <2>2 DEF CyclesOf
<1> QED BY <1>1 DEF AllRaced

LEMMA NothingRaces ==
  ASSUME \A w \in Wallets : endorsees[w] = <<>>, unseen = [s \in Slots |-> {}],
         raced = {}, \A s \in Slots : recording[s] = Idle
  PROVE  RaceInv
<1>1. Edges = {}
  BY DEF Edges, Contains
<1>2. \A s \in Slots : unseen[s] = {}
  OBVIOUS
<1>3. \A s \in Slots : Watched(recording[s], Edges, unseen[s])
  BY <1>2, EndedIsWatched
<1> QED BY <1>1, <1>3, NoEdgesNoRaces DEF RaceInv

LEMMA CrashKeepsRaceInv == Crash => RaceInv'
<1> SUFFICES ASSUME Crash PROVE RaceInv'
  OBVIOUS
<1>1. /\ \A w \in Wallets : endorsees'[w] = <<>>
      /\ unseen' = [s \in Slots |-> {}] /\ raced' = {}
      /\ \A s \in Slots : recording'[s] = Idle
  BY DEF Crash
<1>2. Edges' = {}
  BY <1>1 DEF Edges, Contains
<1>3. AllRaced(Edges, raced)'
  <2>1. AllRaced({}, {})
    BY NoEdgesNoRaces
  <2> QED BY <1>1, <1>2, <2>1 DEF AllRaced, CyclesOf, CycleEdge
<1>4. ASSUME NEW s \in Slots PROVE Watched(recording[s], Edges, unseen[s])'
  <2>1. unseen'[s] = {} /\ recording'[s].stage = "idle"
    BY <1>1 DEF Idle
  <2> QED BY <2>1 DEF Watched
<1> QED BY <1>1, <1>2, <1>3, <1>4 DEF RaceInv

LEMMA RaceStep == EInv /\ CountInv /\ RaceInv /\ [Next]_vars => RaceInv'
<1> SUFFICES ASSUME EInv, CountInv, RaceInv, [Next]_vars PROVE RaceInv'
  OBVIOUS
<1>1. ASSUME NEW s \in Slots, Refused(s) \/ SubmitFails(s) PROVE RaceInv'
  BY <1>1, EndKeepsRaceInv DEF Refused, SubmitFails
<1>2. CASE \/ \E m \in wire : Take(m)
           \/ \E edge \in taken : Land(edge)
           \/ Tick \/ cleanupExpiredHashes \/ UNCHANGED vars
  <2>1. UNCHANGED <<endorsees, recording, unseen, raced>>
    BY <1>2 DEF Take, Land, Tick, cleanupExpiredHashes, vars, historyVars
  <2> QED BY <2>1, RacesUntouched DEF RaceInv
<1> QED BY <1>1, <1>2, BeginKeepsRaceInv, SubmitKeepsRaceInv, FinishKeepsRaceInv,
           CrashKeepsRaceInv DEF Next

LEMMA RaceBegins == Init => RaceInv
<1> SUFFICES ASSUME Init PROVE RaceInv
  OBVIOUS
<1>1. /\ \A w \in Wallets : endorsees[w] = <<>>
      /\ unseen = [s \in Slots |-> {}] /\ raced = {}
      /\ \A s \in Slots : recording[s] = Idle
  BY DEF Init
<1> QED BY <1>1, NothingRaces

\* Between its check and its recording an edge is known to close no cycle with the
\* edges that were there at its check, in every reachable state.
THEOREM RaceInvariance == Spec => [](EInv /\ CountInv /\ HashInv /\ RaceInv)
<1>1. EInv /\ CountInv /\ RaceInv /\ [Next]_vars => RaceInv'
  BY RaceStep
<1> QED BY <1>1, RaceBegins, GraphInvariance, HashInvariance, PTL DEF Spec

\* A cycle within the depth that wouldCreateEndorsementCycle searches exists only if
\* two of its endorsements overlapped, one checked before the other was recorded.
THEOREM OnlyRacesMakeCycles == Spec => []CyclesOnlyFromRaces
<1>1. RaceInv => CyclesOnlyFromRaces
  BY DEF RaceInv, AllRaced, CyclesOf, CyclesOnlyFromRaces, Cycles
<1> QED BY <1>1, RaceInvariance, PTL

\* Every variable has its type, and the endorsees of a wallet are a set within the cap.
THEOREM EndorsementsTyped == Spec => []TypeOK
<1>1. EInv /\ CountInv /\ HashInv /\ RaceInv => TypeOK
  <2> SUFFICES ASSUME EInv, CountInv, HashInv, RaceInv PROVE TypeOK
    OBVIOUS
  <2>1. hashes \in Seq([hash : [event : Inputs, salt : 0..MaxTime], at : 0..MaxTime])
    BY DEF HashInv, Chronicle, Hashes
  <2>2. unseen \in [Slots -> SUBSET Edges]
    BY DEF RaceInv, Watched
  <2> QED BY <2>1, <2>2 DEF TypeOK, EInv, GraphTypes, CountInv, RaceInv
<1> QED BY <1>1, RaceInvariance, PTL
=============================================================================
