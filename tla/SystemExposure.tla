--------------------------- MODULE SystemExposure ---------------------------
(***************************************************************************)
(* The credit cap ledger (src/lib/system-exposure.ts) and the one place    *)
(* that commits to it, the end of underwrite() (src/underwriting.ts), over *)
(* the shared write queue of JsonStore, with crashes and restarts.         *)
(*                                                                         *)
(* Amounts.  The code keeps dollars as doubles rounded to cents.  Here the *)
(* ledger is a number of cents, and an amount that has not been rounded    *)
(* yet is a number of tenths of a cent, so that Math.round(x * 100) / 100  *)
(* keeps its effect.                                                       *)
(***************************************************************************)
EXTENDS JsonStore, FiniteSets, FiniteSetsExt, Functions

CONSTANTS
  Wallets,
  MaxSystemExposure,  \* MAX_SYSTEM_EXPOSURE, in cents
  MaxWalletShare,     \* MAX_WALLET_SHARE, in cents
  RawLimits,          \* limits computeUnderwritingLimit is about to round
  ExposureFile,       \* the ledger's file; the other Paths are other stores'
  OtherContent,       \* what another store saves
  MaxCommits,         \* bound: ledgers committed in a behaviour
  MaxQueue            \* bound: tasks waiting in the promise chain

ASSUME WalletsAssumption == IsFiniteSet(Wallets)
ASSUME CapsAssumption ==
  /\ MaxSystemExposure \in Nat
  /\ MaxWalletShare \in Nat
  /\ RawLimits \subseteq Nat
ASSUME FilesAssumption == ExposureFile \in Paths

Ledgers == [total : Nat, wallets : [Wallets -> Nat]]
Snapshots == [ledger : Ledgers, updatedAt : Nat]

ASSUME ContentAssumption ==
  /\ OtherContent \notin {NoFile, Torn}
  /\ NoFile \notin Snapshots
  /\ Torn \notin Snapshots
ASSUME BoundsAssumption == MaxCommits \in Nat /\ MaxQueue \in Nat

VARIABLES
  up,                   \* the process is running
  totalSystemExposure,  \* in cents
  walletExposure,       \* cents per wallet; 0 is "no entry in the Map"
  history,              \* (history) every ledger committed so far, in order
  granted,              \* (history) cents granted to clients since the last reset
  saveLost,             \* (history) the newest snapshot's write failed
  rolledBack            \* (history) a restart resumed from an outdated ledger

ledgerVars == <<totalSystemExposure, walletExposure>>
vars == <<storeVars, up, ledgerVars, history, granted, saveLost, rolledBack>>

\* Mutant: a wallet without an entry has no exposure at all, not 0 (no "?? 0").
NoWallets == <<>>

ZeroWallets == [w \in Wallets |-> 0]
Ledger(total, wallets) == [total |-> total, wallets |-> wallets]
EmptyLedger == Ledger(0, ZeroWallets)
MemoryLedger == Ledger(totalSystemExposure, walletExposure)

(***************************************************************************)
(* Arithmetic of the two caps.                                             *)
(***************************************************************************)

\* Math.round(x * 100) / 100 on an amount in tenths of a cent, in cents.
RoundToCents(tenths) == (tenths + 5) \div 10

Least(a, b) == IF a <= b THEN a ELSE b

\* Math.max(0, cap - used).
Remaining(cap, used) == IF used <= cap THEN cap - used ELSE 0

GlobalRemaining == Remaining(MaxSystemExposure, totalSystemExposure)
WalletRemaining(w) == Remaining(MaxWalletShare, walletExposure[w])

\* Mutants: one of the two caps is left out of the minimum.
CappedByTotalOnly(w, tenths) == RoundToCents(Least(tenths, 10 * GlobalRemaining))
CappedByShareOnly(w, tenths) == RoundToCents(Least(tenths, 10 * WalletRemaining(w)))

\* Both caps applied to an amount in tenths of a cent, rounded to cents.
CappedAmount(w, tenths) ==
  RoundToCents(Least(tenths, Least(10 * GlobalRemaining, 10 * WalletRemaining(w))))

capToSystemCapacity(w, limit) == CappedAmount(w, 10 * limit)

\* What addSystemExposure(w, amount) reserves; 0 is each of its early returns.
Reserved(w, tenths) ==
  IF tenths = 0 \/ GlobalRemaining = 0 \/ WalletRemaining(w) = 0
  THEN 0
  ELSE CappedAmount(w, tenths)

(***************************************************************************)
(* saveToDisk: a snapshot of the ledger and the time it was taken, which   *)
(* is its place in the history.                                            *)
(***************************************************************************)
\* (Mutant: the snapshot is taken before the counters are updated.)
saveToDiskStale(ledger) ==
  /\ history' = Append(history, ledger)
  /\ queueJsonWrite(ExposureFile,
                    [ledger |-> MemoryLedger, updatedAt |-> Len(history) + 1])
  /\ saveLost' = FALSE

saveToDisk(ledger) ==
  /\ history' = Append(history, ledger)
  /\ queueJsonWrite(ExposureFile, [ledger |-> ledger, updatedAt |-> Len(history) + 1])
  /\ saveLost' = FALSE

MayCommit ==
  /\ up
  /\ StoreQuiet
  /\ Len(history) < MaxCommits
  /\ Len(writeQueue) < MaxQueue

\* Mutant: the total is assigned, not increased.
addByAssignment(w, reserved) ==
  LET ledger == Ledger(reserved, [walletExposure EXCEPT ![w] = @ + reserved])
  IN  /\ totalSystemExposure' = ledger.total
      /\ walletExposure' = ledger.wallets
      /\ saveToDisk(ledger)

addSystemExposure(w, reserved) ==
  LET ledger == Ledger(totalSystemExposure + reserved,
                       [walletExposure EXCEPT ![w] = @ + reserved])
  IN  /\ totalSystemExposure' = ledger.total
      /\ walletExposure' = ledger.wallets
      /\ saveToDisk(ledger)

(***************************************************************************)
(* The end of underwrite(): everything after its last await runs in one    *)
(* turn.  A denied wallet, or one for which no capacity is left, commits   *)
(* nothing and its answer carries the limit 0.                             *)
(***************************************************************************)
Underwrite(w, raw) ==
  LET quoted == capToSystemCapacity(w, RoundToCents(raw))
      reserved == Reserved(w, 10 * quoted)
  IN  /\ MayCommit
      /\ reserved > 0
      /\ addSystemExposure(w, reserved)
      /\ granted' = granted + reserved
      /\ UNCHANGED <<up, rolledBack>>

resetSystemExposure ==
  /\ MayCommit
  /\ totalSystemExposure' = 0
  /\ walletExposure' = ZeroWallets
  /\ saveToDisk(EmptyLedger)
  /\ granted' = 0
  /\ rolledBack' = FALSE
  /\ UNCHANGED up

\* The rate limiter or the webhook list saves its own state on the same chain.
OtherStoreSaves(p) ==
  /\ up
  /\ StoreQuiet
  /\ p # ExposureFile
  /\ Len(writeQueue) < MaxQueue
  /\ queueJsonWrite(p, OtherContent)
  /\ UNCHANGED <<up, ledgerVars, history, granted, saveLost, rolledBack>>

WriteStep ==
  /\ up
  /\ StoreStep
  /\ UNCHANGED <<up, ledgerVars, history, granted, saveLost, rolledBack>>

\* No snapshot of the ledger waits behind the head of the chain.
HeadIsNewestSave ==
  /\ Head(writeQueue).path = ExposureFile
  /\ \A i \in 2..Len(writeQueue) : writeQueue[i].path # ExposureFile

\* The onError of saveToDisk only logs.
WriteStepFails ==
  /\ up
  /\ WriteFails
  /\ saveLost' = (saveLost \/ HeadIsNewestSave)
  /\ UNCHANGED <<up, ledgerVars, history, granted, rolledBack>>

Crash ==
  /\ up
  /\ up' = FALSE
  /\ StoreCrash
  /\ totalSystemExposure' = 0
  /\ walletExposure' = ZeroWallets
  /\ UNCHANGED <<history, granted, saveLost, rolledBack>>

(***************************************************************************)
(* A new process: the module's top level runs loadFromDisk().              *)
(***************************************************************************)
\* (Mutant: the reload restores the total and forgets the wallets.)
LoadedTotalOnly ==
  LET state == readJsonFile(ExposureFile, NoFile)
  IN  IF state = NoFile THEN EmptyLedger ELSE Ledger(state.ledger.total, ZeroWallets)

LoadedLedger ==
  LET state == readJsonFile(ExposureFile, NoFile)
  IN  IF state = NoFile THEN EmptyLedger ELSE state.ledger

\* The ledger committed last, by whichever process.
NewestLedger == IF history = <<>> THEN EmptyLedger ELSE history[Len(history)]

loadFromDisk ==
  /\ ~up
  /\ up' = TRUE
  /\ totalSystemExposure' = LoadedLedger.total
  /\ walletExposure' = LoadedLedger.wallets
  /\ saveLost' = FALSE
  /\ rolledBack' = (rolledBack \/ LoadedLedger # NewestLedger)
  /\ UNCHANGED <<storeVars, history, granted>>

Init ==
  /\ StoreInit
  /\ up = TRUE
  /\ totalSystemExposure = 0
  /\ walletExposure = ZeroWallets
  /\ history = <<>>
  /\ granted = 0
  /\ saveLost = FALSE
  /\ rolledBack = FALSE

Next ==
  \/ \E w \in Wallets, raw \in RawLimits : Underwrite(w, raw)
  \/ resetSystemExposure
  \/ \E p \in Paths : OtherStoreSaves(p)
  \/ WriteStep
  \/ WriteStepFails
  \/ Crash
  \/ loadFromDisk

Spec == Init /\ [][Next]_vars

(***************************************************************************)
(* Microtasks always run before the process waits for anything else, and   *)
(* the supervisor restarts a dead process.                                 *)
(***************************************************************************)
Fairness == WF_vars(WriteStep) /\ WF_vars(loadFromDisk)

FairSpec == Spec /\ Fairness

(***************************************************************************)
(* Properties.                                                             *)
(***************************************************************************)
Contents == Snapshots \union {OtherContent}

\* Every variable has its type, the process's and the files' alike.
TypeOK ==
  /\ writeQueue \in Seq([path : Paths, value : Contents])
  /\ writing \in WritePhases
  /\ tmpFile \in [Paths -> Contents \union {NoFile, Torn}]
  /\ diskFile \in [Paths -> Contents \union {NoFile, Torn}]
  /\ up \in BOOLEAN
  /\ totalSystemExposure \in Nat
  /\ walletExposure \in [Wallets -> Nat]
  /\ history \in Seq(Ledgers)
  /\ granted \in Nat
  /\ saveLost \in BOOLEAN
  /\ rolledBack \in BOOLEAN

Within(l) ==
  /\ l.total <= MaxSystemExposure
  /\ \A w \in Wallets : l.wallets[w] <= MaxWalletShare

\* No sequence of commits, failed writes, crashes and reloads takes the ledger
\* in memory past the global cap or a wallet past its share
\* (addSystemExposure's two caps).
CapsHold == Within(MemoryLedger)

\* The total and the per-wallet entries are two pieces of state that are
\* added to, cleared, saved and loaded separately: they never disagree.
LedgerBalanced ==
  totalSystemExposure = SumFunctionOnSet(walletExposure, Wallets)

\* A reader of a file, a restart in particular, finds no file or a complete
\* snapshot, wherever the process died (writeJsonFileSync's rename).
NeverTorn == \A p \in Paths : diskFile[p] # Torn

\* While the process runs, the ledger in memory is the one the file will hold
\* once the chain has drained, unless the write of the newest snapshot failed.
NewestSaveOnItsWay ==
  LET saves == {i \in 1..Len(writeQueue) : writeQueue[i].path = ExposureFile}
      newest == IF saves = {} THEN LoadedLedger
                ELSE writeQueue[Max(saves)].value.ledger
  IN  up /\ ~saveLost => newest = MemoryLedger

\* What the running process counts as outstanding is what clients were granted
\* since the last reset, unless a restart resumed from an outdated ledger.
GrantsAccountedFor ==
  up /\ ~rolledBack => granted = totalSystemExposure

\* Which ledger of the history the file holds; 0 when it holds none.
DiskVersion ==
  IF diskFile[ExposureFile] \in {NoFile, Torn}
  THEN 0 ELSE diskFile[ExposureFile].updatedAt

\* The shared chain applies the snapshots of the ledger in the order they were
\* taken: the file never goes back to an older one.
DiskMovesForward ==
  [][diskFile'[ExposureFile] # diskFile[ExposureFile]
       => DiskVersion' > DiskVersion]_vars

\* The n-th snapshot is waiting in the chain.
Pending(n) ==
  \E i \in 1..Len(writeQueue) :
    writeQueue[i].path = ExposureFile /\ writeQueue[i].value.updatedAt = n

\* A snapshot handed to the chain, or a later one, reaches the file, unless the
\* process dies or the newest write fails first; the failed write of another
\* store on the same chain does not stop it (queueJsonWrite's catch).
SaveReachesDisk ==
  \A n \in 1..MaxCommits : Pending(n) ~> (DiskVersion >= n \/ saveLost \/ ~up)

(***************************************************************************)
(* The exposure store implements the abstract ledger; while the process is *)
(* down its ledger counts as the empty one.                                *)
(***************************************************************************)
CommittedLedgers == {EmptyLedger} \union {history[i] : i \in 1..Len(history)}

Abstract == INSTANCE CreditLedger
              WITH ledger <- MemoryLedger, committed <- CommittedLedgers

ImplementsCreditLedger == Abstract!Spec

\* "Persists to disk on every commit so the cap holds across restarts"
\* (system-exposure.ts:90): the credit granted since the last reset, whatever
\* the restarts in between, stays within the cap.
CapHoldsAcrossRestarts == granted <= MaxSystemExposure
=============================================================================
