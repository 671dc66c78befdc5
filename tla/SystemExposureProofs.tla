------------------------ MODULE SystemExposureProofs ------------------------
(***************************************************************************)
(* Proofs about the exposure ledger, for every finite set of wallets,      *)
(* every pair of caps, set of requested limits and bound.                  *)
(*                                                                         *)
(* The caps hold in memory only if they hold in whatever a restart may     *)
(* load, that is in every snapshot on disk, half-written or still waiting  *)
(* in the chain.  The inductive invariant therefore ties each of those     *)
(* snapshots to the history of committed ledgers, all of which are within  *)
(* the caps, in their order, and the total the sum of the wallets.         *)
(***************************************************************************)
EXTENDS SystemExposure, CollectionProofs

(***************************************************************************)
(* The inductive invariant.                                                *)
(***************************************************************************)

\* A snapshot of the n-th ledger of history h.
Committed(h, c) ==
  /\ c \in Snapshots
  /\ c.updatedAt \in 1..Len(h)
  /\ c.ledger = h[c.updatedAt]

Proper(h, p, c) == IF p = ExposureFile THEN Committed(h, c) ELSE c = OtherContent

HistoryWithinCaps == \A i \in 1..Len(history) : Within(history[i])

QueueProper ==
  \A i \in 1..Len(writeQueue) : Proper(history, writeQueue[i].path, writeQueue[i].value)

DiskProper == \A p \in Paths : diskFile[p] = NoFile \/ Proper(history, p, diskFile[p])

\* A write in progress works for the head of the chain, and what it is about to
\* rename is that task's snapshot, complete.
WriteInProgress ==
  /\ writing # "idle" => writeQueue # <<>>
  /\ writing = "rename" => tmpFile[Head(writeQueue).path] = Head(writeQueue).value

IInv ==
  /\ TypeOK
  /\ CapsHold
  /\ HistoryWithinCaps
  /\ QueueProper
  /\ DiskProper
  /\ WriteInProgress

(***************************************************************************)
(* Arithmetic: rounding to cents never rounds past a whole number of cents *)
(* that bounded the amount, so neither cap can be overshot by rounding.    *)
(***************************************************************************)
LEMMA RoundingStaysBelow ==
  ASSUME NEW t \in Nat, NEW c \in Nat, t <= 10 * c
  PROVE  RoundToCents(t) \in Nat /\ RoundToCents(t) <= c
  BY DEF RoundToCents

\* A positive remainder under a cap is exactly what may still be added.
LEMMA RemainingIsRoom ==
  ASSUME NEW cap \in Nat, NEW used \in Nat
  PROVE  /\ Remaining(cap, used) \in Nat
         /\ Remaining(cap, used) > 0 => used + Remaining(cap, used) = cap
         /\ Remaining(cap, used) <= cap
  BY DEF Remaining

\* What addSystemExposure reserves fits under both caps.
LEMMA ReservedFits ==
  ASSUME TypeOK, NEW w \in Wallets, NEW t \in Nat
  PROVE  /\ Reserved(w, t) \in Nat
         /\ Reserved(w, t) > 0 =>
              /\ totalSystemExposure + Reserved(w, t) <= MaxSystemExposure
              /\ walletExposure[w] + Reserved(w, t) <= MaxWalletShare
<1> DEFINE g == GlobalRemaining
           r == WalletRemaining(w)
           m == Least(t, Least(10 * g, 10 * r))
<1>1. /\ totalSystemExposure \in Nat /\ walletExposure[w] \in Nat
      /\ MaxSystemExposure \in Nat /\ MaxWalletShare \in Nat
  BY CapsAssumption DEF TypeOK
<1>2. g \in Nat /\ (g > 0 => totalSystemExposure + g = MaxSystemExposure)
  BY <1>1, RemainingIsRoom DEF GlobalRemaining
<1>3. r \in Nat /\ (r > 0 => walletExposure[w] + r = MaxWalletShare)
  BY <1>1, RemainingIsRoom DEF WalletRemaining
<1>4. m \in Nat /\ m <= 10 * g /\ m <= 10 * r
  BY <1>2, <1>3 DEF Least
<1>5. CappedAmount(w, t) = RoundToCents(m)
  BY DEF CappedAmount
<1>6. CappedAmount(w, t) \in Nat /\ CappedAmount(w, t) <= g /\ CappedAmount(w, t) <= r
  <2> HIDE DEF m, g, r
  <2> QED BY <1>2, <1>3, <1>4, <1>5, RoundingStaysBelow
<1>7. CASE t = 0 \/ g = 0 \/ r = 0
  BY <1>7 DEF Reserved
<1>8. CASE ~(t = 0 \/ g = 0 \/ r = 0)
  <2>1. Reserved(w, t) = CappedAmount(w, t)
    BY <1>8 DEF Reserved
  <2> HIDE DEF m, g, r
  <2> QED BY <2>1, <1>1, <1>2, <1>3, <1>6, <1>8
<1> QED BY <1>7, <1>8

(***************************************************************************)
(* The steps.  A snapshot that is committed stays committed, because the   *)
(* history only grows.                                                     *)
(***************************************************************************)
LEMMA ProperStays ==
  ASSUME NEW h \in Seq(Ledgers), NEW l \in Ledgers, NEW p, NEW c, Proper(h, p, c)
  PROVE  Proper(Append(h, l), p, c)
  BY DEF Proper, Committed

LEMMA EmptyLedgerIsOne == EmptyLedger \in Ledgers /\ Within(EmptyLedger)
  BY CapsAssumption DEF EmptyLedger, Ledger, ZeroWallets, Ledgers, Within

\* Committing a ledger that is within the caps, whichever operation does it.
LEMMA CommitKeepsIInv ==
  ASSUME IInv, NEW l \in Ledgers, Within(l),
         StoreQuiet, saveToDisk(l),
         totalSystemExposure' = l.total, walletExposure' = l.wallets,
         granted' \in Nat, rolledBack' \in BOOLEAN, UNCHANGED up
  PROVE  IInv'
<1> DEFINE task == [path |-> ExposureFile,
                    value |-> [ledger |-> l, updatedAt |-> Len(history) + 1]]
<1>1. /\ history' = Append(history, l)
      /\ writeQueue' = Append(writeQueue, task)
      /\ UNCHANGED <<writing, tmpFile, diskFile>>
      /\ saveLost' = FALSE
  BY DEF saveToDisk, queueJsonWrite
<1>2. /\ history \in Seq(Ledgers)
      /\ history' \in Seq(Ledgers)
      /\ Len(history') = Len(history) + 1
      /\ history'[Len(history) + 1] = l
      /\ \A i \in 1..Len(history) : history'[i] = history[i]
  BY <1>1 DEF IInv, TypeOK
<1>3. task \in [path : Paths, value : Contents]
  BY <1>2, FilesAssumption DEF Contents, Snapshots
<1>4. Proper(history', task.path, task.value)
  BY <1>2 DEF Proper, Committed, Snapshots
<1>5. TypeOK'
  <2>1. writeQueue' \in Seq([path : Paths, value : Contents])
    <3> HIDE DEF task
    <3> QED BY <1>1, <1>3 DEF IInv, TypeOK
  <2>2. l.total \in Nat /\ l.wallets \in [Wallets -> Nat]
    BY DEF Ledgers
  <2> QED BY <1>1, <1>2, <2>1, <2>2 DEF IInv, TypeOK
<1>6. CapsHold'
  BY DEF CapsHold, Within, MemoryLedger, Ledger
<1>7. HistoryWithinCaps'
  BY <1>2 DEF IInv, HistoryWithinCaps, Within
<1>8. \A p, c : Proper(history, p, c) => Proper(history', p, c)
  BY <1>1, <1>2, ProperStays
<1>9. QueueProper'
  <2> SUFFICES ASSUME NEW i \in 1..Len(writeQueue')
               PROVE  Proper(history', writeQueue'[i].path, writeQueue'[i].value)
    BY DEF QueueProper
  <2> HIDE DEF task
  <2>1. writeQueue \in Seq([path : Paths, value : Contents])
    BY DEF IInv, TypeOK
  <2>2. CASE i \in 1..Len(writeQueue)
    <3>1. writeQueue'[i] = writeQueue[i]
      BY <1>1, <1>3, <2>1, <2>2
    <3> QED BY <3>1, <1>8, <2>2 DEF IInv, QueueProper
  <2>3. CASE i = Len(writeQueue) + 1
    <3>1. writeQueue'[i] = task
      BY <1>1, <1>3, <2>1, <2>3
    <3> QED BY <3>1, <1>4
  <2> QED BY <1>1, <1>3, <2>1, <2>2, <2>3
<1>10. DiskProper'
  BY <1>1, <1>8 DEF IInv, DiskProper
<1>11. WriteInProgress'
  BY <1>1 DEF IInv, WriteInProgress, StoreQuiet
<1> QED BY <1>5, <1>6, <1>7, <1>9, <1>10, <1>11 DEF IInv

\* The chain goes on with the next task: what is left of it is still proper.
LEMMA TailKeepsQueue ==
  ASSUME IInv, writeQueue # <<>>, writeQueue' = Tail(writeQueue), UNCHANGED history
  PROVE  /\ writeQueue' \in Seq([path : Paths, value : Contents])
         /\ QueueProper'
<1>1. writeQueue \in Seq([path : Paths, value : Contents])
  BY DEF IInv, TypeOK
<1>2. \A i \in 1..Len(writeQueue') :
        i + 1 \in 1..Len(writeQueue) /\ writeQueue'[i] = writeQueue[i + 1]
  BY <1>1
<1> QED BY <1>1, <1>2 DEF IInv, QueueProper

\* The head of the chain is a task like the others.
LEMMA HeadIsProper ==
  ASSUME IInv, writeQueue # <<>>
  PROVE  /\ Head(writeQueue) \in [path : Paths, value : Contents]
         /\ Proper(history, Head(writeQueue).path, Head(writeQueue).value)
<1> DEFINE T == [path : Paths, value : Contents]
<1>1. writeQueue \in Seq(T)
  BY DEF IInv, TypeOK
<1>2. 1 \in 1..Len(writeQueue) /\ Head(writeQueue) = writeQueue[1]
  BY <1>1
<1>3. writeQueue[1] \in T
  <2> HIDE DEF T
  <2> QED BY <1>1, <1>2
<1>4. Proper(history, writeQueue[1].path, writeQueue[1].value)
  BY <1>2 DEF IInv, QueueProper
<1> QED BY <1>2, <1>3, <1>4

\* What underwrite() quotes and what it reserves are numbers of cents.
LEMMA UnderwriteReserves ==
  ASSUME TypeOK, NEW w \in Wallets, NEW raw \in RawLimits
  PROVE  /\ capToSystemCapacity(w, RoundToCents(raw)) \in Nat
         /\ Reserved(w, 10 * capToSystemCapacity(w, RoundToCents(raw))) \in Nat
<1> DEFINE quoted == capToSystemCapacity(w, RoundToCents(raw))
<1>1. quoted \in Nat
  <2>1. GlobalRemaining \in Nat /\ WalletRemaining(w) \in Nat
    BY CapsAssumption, RemainingIsRoom DEF GlobalRemaining, WalletRemaining, TypeOK
  <2>2. RoundToCents(raw) \in Nat
    BY CapsAssumption DEF RoundToCents
  <2> QED
    BY <2>1, <2>2 DEF capToSystemCapacity, CappedAmount, RoundToCents, Least
<1>2. 10 * quoted \in Nat
  <2> HIDE DEF quoted
  <2> QED BY <1>1
<1> HIDE DEF quoted
<1>3. Reserved(w, 10 * quoted) \in Nat
  BY <1>2, ReservedFits
<1> QED BY <1>1, <1>3 DEF quoted

LEMMA UnderwriteKeepsIInv ==
  ASSUME IInv, NEW w \in Wallets, NEW raw \in RawLimits, Underwrite(w, raw)
  PROVE  IInv'
<1> DEFINE quoted == capToSystemCapacity(w, RoundToCents(raw))
           reserved == Reserved(w, 10 * quoted)
           l == Ledger(totalSystemExposure + reserved,
                       [walletExposure EXCEPT ![w] = @ + reserved])
<1>1. TypeOK /\ CapsHold
  BY DEF IInv
<1>2. quoted \in Nat
  BY <1>1, UnderwriteReserves
<1>3. /\ reserved \in Nat
      /\ totalSystemExposure + reserved <= MaxSystemExposure
      /\ walletExposure[w] + reserved <= MaxWalletShare
  <2>1. reserved > 0
    BY DEF Underwrite
  <2> HIDE DEF quoted
  <2> QED BY <1>1, <1>2, <2>1, ReservedFits
<1>4. StoreQuiet /\ addSystemExposure(w, reserved) /\ granted' = granted + reserved
      /\ UNCHANGED <<up, rolledBack>>
  BY DEF Underwrite, MayCommit
<1> HIDE DEF reserved
<1>5. l \in Ledgers
  BY <1>1, <1>3 DEF TypeOK, Ledger, Ledgers
<1>6. Within(l)
  BY <1>1, <1>3 DEF TypeOK, CapsHold, MemoryLedger, Ledger, Within
<1>7. saveToDisk(l) /\ totalSystemExposure' = l.total /\ walletExposure' = l.wallets
  BY <1>4 DEF addSystemExposure
<1>8. granted' \in Nat /\ rolledBack' \in BOOLEAN
  BY <1>1, <1>3, <1>4 DEF TypeOK
<1> HIDE DEF l
<1> QED BY <1>4, <1>5, <1>6, <1>7, <1>8, CommitKeepsIInv

LEMMA ResetKeepsIInv ==
  ASSUME IInv, resetSystemExposure
  PROVE  IInv'
<1>1. EmptyLedger.total = 0 /\ EmptyLedger.wallets = ZeroWallets
  BY DEF EmptyLedger, Ledger
<1> QED
  BY <1>1, EmptyLedgerIsOne, CommitKeepsIInv DEF resetSystemExposure, MayCommit

LEMMA OtherStoreKeepsIInv ==
  ASSUME IInv, NEW p \in Paths, OtherStoreSaves(p)
  PROVE  IInv'
<1> DEFINE task == [path |-> p, value |-> OtherContent]
<1>1. /\ writeQueue' = Append(writeQueue, task)
      /\ p # ExposureFile
      /\ writing = "idle"
      /\ UNCHANGED <<writing, tmpFile, diskFile, up, ledgerVars, history, granted,
                     saveLost, rolledBack>>
  BY DEF OtherStoreSaves, queueJsonWrite, StoreQuiet
<1>2. task \in [path : Paths, value : Contents]
  BY DEF Contents
<1>3. writeQueue \in Seq([path : Paths, value : Contents])
  BY DEF IInv, TypeOK
<1>4. TypeOK'
  <2>1. writeQueue' \in Seq([path : Paths, value : Contents])
    BY <1>1, <1>2, <1>3
  <2> QED BY <1>1, <2>1 DEF IInv, TypeOK, ledgerVars
<1>5. QueueProper'
  <2> SUFFICES ASSUME NEW i \in 1..Len(writeQueue')
               PROVE  Proper(history, writeQueue'[i].path, writeQueue'[i].value)
    BY <1>1 DEF QueueProper
  <2>1. Proper(history, task.path, task.value)
    BY <1>1 DEF Proper
  <2> HIDE DEF task
  <2>2. \/ i \in 1..Len(writeQueue) /\ writeQueue'[i] = writeQueue[i]
        \/ writeQueue'[i] = task
    BY <1>1, <1>2, <1>3
  <2> QED BY <2>1, <2>2 DEF IInv, QueueProper
<1>6. CapsHold' /\ HistoryWithinCaps' /\ DiskProper'
  BY <1>1 DEF IInv, CapsHold, MemoryLedger, HistoryWithinCaps, DiskProper, ledgerVars
<1>7. WriteInProgress'
  BY <1>1 DEF WriteInProgress
<1> QED BY <1>4, <1>5, <1>6, <1>7 DEF IInv

LEMMA WriteStepKeepsIInv ==
  ASSUME IInv, WriteStep
  PROVE  IInv'
<1> DEFINE p == Head(writeQueue).path
<1>1. /\ UNCHANGED <<up, ledgerVars, history, granted, saveLost, rolledBack>>
      /\ StoreStep
  BY DEF WriteStep
<1>2. CapsHold' /\ HistoryWithinCaps'
  BY <1>1 DEF IInv, CapsHold, MemoryLedger, HistoryWithinCaps, ledgerVars
<1>3. writeQueue # <<>>
  BY <1>1 DEF IInv, WriteInProgress, StoreStep, OpenTmp, FillTmp, RenameTmp
<1>4. /\ p \in Paths
      /\ Head(writeQueue).value \in Contents
      /\ Proper(history, p, Head(writeQueue).value)
  BY <1>3, HeadIsProper
<1>5. CASE OpenTmp
  <2>1. TypeOK'
    BY <1>1, <1>5 DEF IInv, TypeOK, OpenTmp, ledgerVars, WritePhases
  <2>2. QueueProper' /\ DiskProper'
    BY <1>1, <1>5 DEF IInv, QueueProper, DiskProper, OpenTmp
  <2>3. WriteInProgress'
    BY <1>5 DEF WriteInProgress, OpenTmp
  <2> QED BY <1>2, <2>1, <2>2, <2>3 DEF IInv
<1>6. CASE FillTmp
  <2>1. TypeOK'
    BY <1>1, <1>4, <1>6 DEF IInv, TypeOK, FillTmp, ledgerVars, WritePhases
  <2>2. QueueProper' /\ DiskProper'
    BY <1>1, <1>6 DEF IInv, QueueProper, DiskProper, FillTmp
  <2>3. WriteInProgress'
    BY <1>3, <1>4, <1>6 DEF IInv, TypeOK, WriteInProgress, FillTmp
  <2> QED BY <1>2, <2>1, <2>2, <2>3 DEF IInv
<1>7. CASE RenameTmp
  <2>1. /\ diskFile' = [diskFile EXCEPT ![p] = Head(writeQueue).value]
        /\ tmpFile' = [tmpFile EXCEPT ![p] = NoFile]
        /\ writing' = "idle"
        /\ writeQueue' = Tail(writeQueue)
    BY <1>7 DEF IInv, WriteInProgress, RenameTmp
  <2>2. writeQueue' \in Seq([path : Paths, value : Contents]) /\ QueueProper'
    BY <1>1, <1>3, <2>1, TailKeepsQueue
  <2>3. TypeOK'
    BY <1>1, <1>4, <2>1, <2>2 DEF IInv, TypeOK, ledgerVars, WritePhases
  <2>4. DiskProper'
    BY <1>1, <1>4, <2>1 DEF IInv, TypeOK, DiskProper
  <2>5. WriteInProgress'
    BY <2>1 DEF WriteInProgress
  <2> QED BY <1>2, <2>2, <2>3, <2>4, <2>5 DEF IInv
<1> QED BY <1>1, <1>5, <1>6, <1>7 DEF StoreStep

LEMMA WriteStepFailsKeepsIInv ==
  ASSUME IInv, WriteStepFails
  PROVE  IInv'
<1>1. /\ writeQueue # <<>>
      /\ writeQueue' = Tail(writeQueue)
      /\ writing' = "idle"
      /\ saveLost' = (saveLost \/ HeadIsNewestSave)
      /\ UNCHANGED <<tmpFile, diskFile, up, ledgerVars, history, granted, rolledBack>>
  BY DEF WriteStepFails, WriteFails
<1>2. writeQueue' \in Seq([path : Paths, value : Contents]) /\ QueueProper'
  BY <1>1, TailKeepsQueue
<1>3. saveLost' \in BOOLEAN
  BY <1>1 DEF IInv, TypeOK, HeadIsNewestSave
<1>4. TypeOK'
  BY <1>1, <1>2, <1>3 DEF IInv, TypeOK, ledgerVars, WritePhases
<1>5. CapsHold' /\ HistoryWithinCaps' /\ DiskProper' /\ WriteInProgress'
  BY <1>1 DEF IInv, CapsHold, MemoryLedger, HistoryWithinCaps, DiskProper,
              WriteInProgress, ledgerVars
<1> QED BY <1>2, <1>4, <1>5 DEF IInv

LEMMA CrashKeepsIInv ==
  ASSUME IInv, Crash
  PROVE  IInv'
<1>1. ZeroWallets \in [Wallets -> Nat]
  BY DEF ZeroWallets
<1>2. TypeOK'
  <2>1. /\ writeQueue' = <<>> /\ writing' = "idle" /\ up' = FALSE
        /\ totalSystemExposure' = 0 /\ walletExposure' = ZeroWallets
        /\ UNCHANGED <<tmpFile, diskFile, history, granted, saveLost, rolledBack>>
    BY DEF Crash, StoreCrash
  <2>2. writeQueue' \in Seq([path : Paths, value : Contents])
    BY <2>1
  <2> QED BY <1>1, <2>1, <2>2 DEF IInv, TypeOK, WritePhases
<1>3. CapsHold'
  BY CapsAssumption DEF CapsHold, MemoryLedger, Ledger, Within, Crash, ZeroWallets
<1>4. HistoryWithinCaps' /\ DiskProper' /\ QueueProper' /\ WriteInProgress'
  BY DEF IInv, HistoryWithinCaps, DiskProper, QueueProper, WriteInProgress, Crash,
         StoreCrash
<1> QED BY <1>2, <1>3, <1>4 DEF IInv

\* What a restart loads is the empty ledger or one that was committed.
LEMMA LoadedIsCommitted ==
  ASSUME IInv
  PROVE  /\ LoadedLedger \in Ledgers
         /\ Within(LoadedLedger)
         /\ LoadedLedger = EmptyLedger \/ \E i \in 1..Len(history) : LoadedLedger = history[i]
<1>1. CASE diskFile[ExposureFile] \in {NoFile, Torn}
  BY <1>1, EmptyLedgerIsOne DEF LoadedLedger, readJsonFile
<1>2. CASE diskFile[ExposureFile] \notin {NoFile, Torn}
  <2>1. LoadedLedger = diskFile[ExposureFile].ledger
    BY <1>2 DEF LoadedLedger, readJsonFile
  <2>2. Committed(history, diskFile[ExposureFile])
    BY <1>2, FilesAssumption DEF IInv, DiskProper, Proper
  <2>3. LoadedLedger \in Ledgers
    BY <2>1, <2>2 DEF Committed, Snapshots
  <2> QED BY <2>1, <2>2, <2>3 DEF IInv, HistoryWithinCaps, Committed
<1> QED BY <1>1, <1>2

LEMMA LoadKeepsIInv ==
  ASSUME IInv, loadFromDisk
  PROVE  IInv'
<1>1. /\ totalSystemExposure' = LoadedLedger.total
      /\ walletExposure' = LoadedLedger.wallets
      /\ up' = TRUE /\ saveLost' = FALSE
      /\ rolledBack' = (rolledBack \/ LoadedLedger # NewestLedger)
      /\ UNCHANGED <<writeQueue, writing, tmpFile, diskFile, history, granted>>
  BY DEF loadFromDisk, storeVars
<1>2. LoadedLedger.total \in Nat /\ LoadedLedger.wallets \in [Wallets -> Nat]
  BY LoadedIsCommitted DEF Ledgers
<1>3. TypeOK'
  BY <1>1, <1>2 DEF IInv, TypeOK
<1>4. CapsHold'
  BY <1>1, LoadedIsCommitted DEF CapsHold, MemoryLedger, Ledger, Within
<1>5. HistoryWithinCaps' /\ DiskProper' /\ QueueProper' /\ WriteInProgress'
  BY <1>1 DEF IInv, HistoryWithinCaps, DiskProper, QueueProper, WriteInProgress
<1> QED BY <1>3, <1>4, <1>5 DEF IInv

LEMMA InitIInv == Init => IInv
<1> SUFFICES ASSUME Init PROVE IInv
  OBVIOUS
<1>1. ZeroWallets \in [Wallets -> Nat]
  BY DEF ZeroWallets
<1>2. TypeOK
  <2>1. /\ writeQueue \in Seq([path : Paths, value : Contents])
        /\ history \in Seq(Ledgers)
    BY DEF Init, StoreInit
  <2>2. /\ tmpFile \in [Paths -> Contents \union {NoFile, Torn}]
        /\ diskFile \in [Paths -> Contents \union {NoFile, Torn}]
    BY DEF Init, StoreInit
  <2> QED BY <1>1, <2>1, <2>2 DEF Init, StoreInit, TypeOK, WritePhases
<1>3. CapsHold
  BY CapsAssumption DEF Init, CapsHold, MemoryLedger, Ledger, Within, ZeroWallets
<1>4. HistoryWithinCaps /\ DiskProper /\ QueueProper /\ WriteInProgress
  BY DEF Init, StoreInit, HistoryWithinCaps, DiskProper, QueueProper, WriteInProgress
<1> QED BY <1>2, <1>3, <1>4 DEF IInv

LEMMA NextKeepsIInv == IInv /\ [Next]_vars => IInv'
<1> SUFFICES ASSUME IInv, [Next]_vars PROVE IInv'
  OBVIOUS
<1>1. ASSUME NEW w \in Wallets, NEW raw \in RawLimits, Underwrite(w, raw) PROVE IInv'
  BY <1>1, UnderwriteKeepsIInv
<1>2. ASSUME NEW p \in Paths, OtherStoreSaves(p) PROVE IInv'
  BY <1>2, OtherStoreKeepsIInv
<1>3. CASE UNCHANGED vars
  BY <1>3 DEF vars, storeVars, ledgerVars, IInv, TypeOK, CapsHold, MemoryLedger,
              HistoryWithinCaps, QueueProper, DiskProper, WriteInProgress
<1> QED
  BY <1>1, <1>2, <1>3, ResetKeepsIInv, WriteStepKeepsIInv, WriteStepFailsKeepsIInv,
     CrashKeepsIInv, LoadKeepsIInv DEF Next

(***************************************************************************)
(* The theorems.                                                           *)
(***************************************************************************)

\* The inductive invariant holds in every reachable state.
THEOREM Invariance == Spec => []IInv
  BY InitIInv, NextKeepsIInv, PTL DEF Spec

\* The ledger, the chain and the files keep their types.
THEOREM TypeCorrect == Spec => []TypeOK
<1>1. IInv => TypeOK
  BY DEF IInv
<1> QED BY <1>1, Invariance, PTL

\* addSystemExposure's caps hold in every state, whatever commits, failed
\* writes, crashes and reloads led to it.
THEOREM CapsAlwaysHold == Spec => []CapsHold
<1>1. IInv => CapsHold
  BY DEF IInv
<1> QED BY <1>1, Invariance, PTL

\* writeJsonFileSync never exposes a torn file, wherever the process dies.
THEOREM FilesNeverTorn == Spec => []NeverTorn
<1>1. IInv => NeverTorn
  BY ContentAssumption, SentinelsDiffer DEF IInv, DiskProper, Proper, Committed, NeverTorn
<1> QED BY <1>1, Invariance, PTL

(***************************************************************************)
(* Refinement: every step of the store, with its chain and its files, is a *)
(* step of the abstract ledger or leaves it alone.                         *)
(***************************************************************************)
LEMMA CommittedGrows ==
  ASSUME IInv, NEW l, history' = Append(history, l), l \in Ledgers
  PROVE  CommittedLedgers' = CommittedLedgers \union {l}
<1>1. /\ Len(history') = Len(history) + 1
      /\ history'[Len(history) + 1] = l
      /\ \A i \in 1..Len(history) : history'[i] = history[i]
      /\ Len(history) \in Nat
  BY DEF IInv, TypeOK
<1>2. 1..Len(history') = 1..Len(history) \union {Len(history) + 1}
  BY <1>1
<1>3. {history'[i] : i \in 1..Len(history')} = {history[i] : i \in 1..Len(history)} \union {l}
  BY <1>1, <1>2
<1>4. EmptyLedger' = EmptyLedger
  BY DEF EmptyLedger, Ledger, ZeroWallets
<1> QED BY <1>3, <1>4 DEF CommittedLedgers

LEMMA UnderwriteRefines ==
  ASSUME IInv, NEW w \in Wallets, NEW raw \in RawLimits, Underwrite(w, raw)
  PROVE  Abstract!Grant
<1> DEFINE quoted == capToSystemCapacity(w, RoundToCents(raw))
           reserved == Reserved(w, 10 * quoted)
           l == [total   |-> MemoryLedger.total + reserved,
                 wallets |-> [MemoryLedger.wallets EXCEPT ![w] = @ + reserved]]
<1>1. IInv'
  BY UnderwriteKeepsIInv
<1>2. reserved > 0 /\ addSystemExposure(w, reserved)
  BY DEF Underwrite
<1>3. reserved \in Nat
  <2>1. TypeOK
    BY DEF IInv
  <2>2. GlobalRemaining \in Nat /\ WalletRemaining(w) \in Nat
    BY <2>1, CapsAssumption, RemainingIsRoom DEF GlobalRemaining, WalletRemaining, TypeOK
  <2>3. RoundToCents(raw) \in Nat
    BY CapsAssumption DEF RoundToCents
  <2>4. quoted \in Nat
    BY <2>2, <2>3 DEF capToSystemCapacity, CappedAmount, RoundToCents, Least
  <2> HIDE DEF quoted
  <2> QED BY <2>1, <2>4, ReservedFits
<1> HIDE DEF reserved
<1>4. /\ l = Ledger(totalSystemExposure + reserved,
                   [walletExposure EXCEPT ![w] = @ + reserved])
      /\ l \in Ledgers
  BY <1>3 DEF IInv, TypeOK, MemoryLedger, Ledger, Ledgers
<1>5. MemoryLedger' = l /\ history' = Append(history, l)
  BY <1>2, <1>4 DEF addSystemExposure, saveToDisk, MemoryLedger, Ledger
<1>6. Abstract!Within(l)
  <2>1. Within(l)
    BY <1>1, <1>5 DEF IInv, CapsHold, Within
  <2> QED BY <2>1 DEF Within, Abstract!Within
<1>7. reserved \in 1..MaxWalletShare
  <2>1. l.wallets[w] = walletExposure[w] + reserved /\ walletExposure[w] \in Nat
    BY <1>4 DEF IInv, TypeOK, Ledger
  <2> QED BY <1>2, <1>3, <1>6, <2>1, CapsAssumption DEF Abstract!Within
<1>8. CommittedLedgers' = CommittedLedgers \union {l}
  BY <1>4, <1>5, CommittedGrows
<1> QED BY <1>5, <1>6, <1>7, <1>8 DEF Abstract!Grant, Abstract!Commit

LEMMA ResetRefines ==
  ASSUME IInv, resetSystemExposure
  PROVE  Abstract!Clear
<1>1. MemoryLedger' = EmptyLedger /\ history' = Append(history, EmptyLedger)
  BY DEF resetSystemExposure, saveToDisk, MemoryLedger, EmptyLedger, Ledger
<1>2. CommittedLedgers' = CommittedLedgers \union {EmptyLedger}
  BY <1>1, EmptyLedgerIsOne, CommittedGrows
<1>3. Abstract!EmptyLedger = EmptyLedger
  BY DEF Abstract!EmptyLedger, EmptyLedger, Ledger, ZeroWallets
<1> QED BY <1>1, <1>2, <1>3 DEF Abstract!Clear, Abstract!Commit

LEMMA CrashRefines ==
  ASSUME IInv, Crash
  PROVE  Abstract!Resume
<1>1. MemoryLedger' = EmptyLedger /\ UNCHANGED history
  BY DEF Crash, MemoryLedger, EmptyLedger, Ledger
<1>2. UNCHANGED CommittedLedgers
  BY <1>1 DEF CommittedLedgers, EmptyLedger, Ledger, ZeroWallets
<1>3. EmptyLedger \in CommittedLedgers
  BY DEF CommittedLedgers
<1> QED BY <1>1, <1>2, <1>3 DEF Abstract!Resume

LEMMA LoadRefines ==
  ASSUME IInv, loadFromDisk
  PROVE  Abstract!Resume
<1>1. MemoryLedger' = LoadedLedger
  <2>1. LoadedLedger = [total |-> LoadedLedger.total, wallets |-> LoadedLedger.wallets]
    BY LoadedIsCommitted DEF Ledgers
  <2> QED BY <2>1 DEF loadFromDisk, MemoryLedger, Ledger
<1>2. UNCHANGED CommittedLedgers
  BY DEF loadFromDisk, CommittedLedgers, EmptyLedger, Ledger, ZeroWallets
<1>3. LoadedLedger \in CommittedLedgers
  BY LoadedIsCommitted DEF CommittedLedgers
<1> QED BY <1>1, <1>2, <1>3 DEF Abstract!Resume

\* No client of the ledger can tell the store from the abstract ledger: grants
\* stay within both caps and a restart resumes from a committed ledger.
THEOREM Refinement == Spec => ImplementsCreditLedger
<1>1. Init => Abstract!Init
  <2>1. Abstract!EmptyLedger = EmptyLedger
    BY DEF Abstract!EmptyLedger, EmptyLedger, Ledger, ZeroWallets
  <2> QED
    BY <2>1 DEF Init, Abstract!Init, MemoryLedger, EmptyLedger, Ledger, CommittedLedgers
<1>2. IInv /\ [Next]_vars => [Abstract!Next]_<<MemoryLedger, CommittedLedgers>>
  <2> SUFFICES ASSUME IInv, [Next]_vars
               PROVE  Abstract!Next \/ UNCHANGED <<MemoryLedger, CommittedLedgers>>
    OBVIOUS
  <2>1. ASSUME NEW w \in Wallets, NEW raw \in RawLimits, Underwrite(w, raw)
        PROVE  Abstract!Next
    BY <2>1, UnderwriteRefines DEF Abstract!Next
  <2>2. CASE UNCHANGED <<ledgerVars, history>>
    BY <2>2 DEF ledgerVars, MemoryLedger, CommittedLedgers, EmptyLedger, Ledger, ZeroWallets
  <2>3. ASSUME NEW p \in Paths, OtherStoreSaves(p)
        PROVE  UNCHANGED <<ledgerVars, history>>
    BY <2>3 DEF OtherStoreSaves
  <2>4. CASE WriteStep \/ WriteStepFails \/ UNCHANGED vars
    BY <2>2, <2>4 DEF WriteStep, WriteStepFails, vars
  <2> QED
    BY <2>1, <2>2, <2>3, <2>4, ResetRefines, CrashRefines, LoadRefines
    DEF Next, Abstract!Next
<1> QED BY <1>1, <1>2, Invariance, PTL DEF Spec, ImplementsCreditLedger, Abstract!Spec

(***************************************************************************)
(* Order in the chain.  The last save of the ledger carries the ledger in  *)
(* memory; saves wait in the order of their versions, all of them newer    *)
(* than the file; and outside a rollback the memory is the newest ledger.  *)
(***************************************************************************)
IsSave(i) == writeQueue[i].path = ExposureFile

LastSave(i) == IsSave(i) /\ \A j \in 1..Len(writeQueue) : IsSave(j) => j <= i

ChainOrdered ==
  /\ \A i, j \in 1..Len(writeQueue) :
       IsSave(i) /\ IsSave(j) /\ i < j
         => writeQueue[i].value.updatedAt < writeQueue[j].value.updatedAt
  /\ \A i \in 1..Len(writeQueue) : IsSave(i) => DiskVersion < writeQueue[i].value.updatedAt

SomeSaveIsLast ==
  (\E i \in 1..Len(writeQueue) : IsSave(i)) => \E i \in 1..Len(writeQueue) : LastSave(i)

MemoryIsSaved ==
  up /\ ~saveLost =>
    /\ (\A i \in 1..Len(writeQueue) : ~IsSave(i)) => LoadedLedger = MemoryLedger
    /\ \A i \in 1..Len(writeQueue) : LastSave(i) => writeQueue[i].value.ledger = MemoryLedger

MemoryIsNewest ==
  ~rolledBack => /\ granted = NewestLedger.total
                 /\ up => MemoryLedger = NewestLedger

OInv ==
  /\ IInv
  /\ ~up => writeQueue = <<>>
  /\ ChainOrdered /\ SomeSaveIsLast /\ MemoryIsSaved /\ MemoryIsNewest

\* The file holds nothing, or a version of the ledger that was committed.
LEMMA VersionCommitted ==
  ASSUME IInv
  PROVE  /\ DiskVersion \in 0..Len(history)
         /\ \A i \in 1..Len(writeQueue) : IsSave(i) =>
              writeQueue[i].value.updatedAt \in 1..Len(history)
<1>1. history \in Seq(Ledgers)
  BY DEF IInv, TypeOK
<1>2. CASE diskFile[ExposureFile] = NoFile
  BY <1>1, <1>2 DEF DiskVersion, IInv, QueueProper, Proper, Committed, IsSave
<1>3. CASE diskFile[ExposureFile] # NoFile
  <2>1. Committed(history, diskFile[ExposureFile])
    BY <1>3, FilesAssumption DEF IInv, DiskProper, Proper
  <2> QED BY <1>1, <2>1 DEF DiskVersion, IInv, QueueProper, Proper, Committed, IsSave
<1> QED BY <1>2, <1>3

LEMMA CommitKeepsOInv ==
  ASSUME OInv, IInv', NEW l \in Ledgers, up, UNCHANGED up, saveToDisk(l), MemoryLedger' = l,
         ~rolledBack' => granted' = l.total
  PROVE  OInv'
<1> DEFINE task == [path |-> ExposureFile,
                    value |-> [ledger |-> l, updatedAt |-> Len(history) + 1]]
<1>0. PICK n : n = Len(writeQueue) + 1
  OBVIOUS
<1>1. /\ history' = Append(history, l) /\ writeQueue' = Append(writeQueue, task)
      /\ UNCHANGED diskFile
  BY DEF saveToDisk, queueJsonWrite
<1>2. IInv /\ history \in Seq(Ledgers) /\ Len(history) \in Nat
  BY DEF OInv, IInv, TypeOK
<1>3. /\ task \in [path : Paths, value : Contents] /\ task.path = ExposureFile
      /\ task.value.ledger = l /\ task.value.updatedAt = Len(history) + 1
  BY <1>2, FilesAssumption DEF Contents, Snapshots
<1>4. writeQueue \in Seq([path : Paths, value : Contents])
  BY <1>2 DEF IInv, TypeOK
<1> HIDE DEF task
<1>5. /\ Len(writeQueue) \in Nat /\ Len(writeQueue') = n
      /\ writeQueue'[n] = task
      /\ \A i \in 1..Len(writeQueue) : writeQueue'[i] = writeQueue[i]
  BY <1>0, <1>1, <1>3, <1>4
<1>6. n \in 1..Len(writeQueue') /\ 1..Len(writeQueue') = 1..Len(writeQueue) \cup {n}
  BY <1>0, <1>5
<1>7. IsSave(n)' /\ LastSave(n)'
  BY <1>0, <1>3, <1>5 DEF IsSave, LastSave
<1>8. \A i \in 1..Len(writeQueue') : LastSave(i)' => i = n
  BY <1>0, <1>5, <1>6, <1>7 DEF LastSave
<1>9. SomeSaveIsLast'
  BY <1>6, <1>7 DEF SomeSaveIsLast
<1>10. MemoryIsSaved'
  BY <1>3, <1>5, <1>6, <1>7, <1>8 DEF MemoryIsSaved
<1>11. DiskVersion' = DiskVersion
  BY <1>1 DEF DiskVersion
<1>12. ChainOrdered'
  <2>1. DiskVersion \in 0..Len(history)
    BY <1>2, VersionCommitted
  <2>2. \A i \in 1..Len(writeQueue) : IsSave(i) =>
          writeQueue[i].value.updatedAt \in 1..Len(history)
    BY <1>2, VersionCommitted
  <2>3. \A i \in 1..Len(writeQueue) : IsSave(i)' <=> IsSave(i)
    BY <1>5 DEF IsSave
  <2>4. \A i \in 1..Len(writeQueue') : IsSave(i)' => DiskVersion' < writeQueue'[i].value.updatedAt
    BY <1>0, <1>2, <1>3, <1>5, <1>6, <1>11, <2>1, <2>3 DEF OInv, ChainOrdered
  <2>5. \A i, j \in 1..Len(writeQueue') : IsSave(i)' /\ IsSave(j)' /\ i < j
          => writeQueue'[i].value.updatedAt < writeQueue'[j].value.updatedAt
    <3> SUFFICES ASSUME NEW i \in 1..Len(writeQueue'), NEW j \in 1..Len(writeQueue'),
                        IsSave(i)', IsSave(j)', i < j
                 PROVE  writeQueue'[i].value.updatedAt < writeQueue'[j].value.updatedAt
      OBVIOUS
    <3>1. i \in 1..Len(writeQueue)
      BY <1>0, <1>5
    <3>2. CASE j = n
      BY <1>2, <1>3, <1>5, <2>2, <2>3, <3>1, <3>2
    <3>3. CASE j # n
      <4>1. j \in 1..Len(writeQueue)
        BY <1>6, <3>3
      <4>2. IsSave(i) /\ IsSave(j)
        BY <2>3, <3>1, <4>1
      <4> QED BY <1>5, <3>1, <4>1, <4>2 DEF OInv, ChainOrdered
    <3> QED BY <3>2, <3>3
  <2> QED BY <2>4, <2>5 DEF ChainOrdered
<1>13. NewestLedger' = l
  <2>1. history' # <<>> /\ history'[Len(history')] = l
    BY <1>1, <1>2
  <2> QED BY <2>1 DEF NewestLedger
<1>14. MemoryIsNewest'
  BY <1>13 DEF MemoryIsNewest
<1> QED BY <1>9, <1>10, <1>12, <1>14 DEF OInv

LEMMA OtherStoreKeepsOInv ==
  ASSUME OInv, NEW p \in Paths, OtherStoreSaves(p)
  PROVE  OInv'
<1> DEFINE task == [path |-> p, value |-> OtherContent]
<1>0. PICK n : n = Len(writeQueue) + 1
  OBVIOUS
<1>1. /\ writeQueue' = Append(writeQueue, task) /\ up
      /\ UNCHANGED <<diskFile, up, ledgerVars, history, granted, saveLost, rolledBack>>
      /\ p # ExposureFile
  BY DEF OtherStoreSaves, queueJsonWrite
<1>2. IInv' /\ IInv
  BY OtherStoreKeepsIInv DEF OInv
<1>3. task \in [path : Paths, value : Contents] /\ task.path # ExposureFile
  BY <1>1 DEF Contents
<1>4. writeQueue \in Seq([path : Paths, value : Contents])
  BY <1>2 DEF IInv, TypeOK
<1> HIDE DEF task
<1>5. /\ Len(writeQueue) \in Nat /\ Len(writeQueue') = n
      /\ writeQueue'[n] = task
      /\ \A i \in 1..Len(writeQueue) : writeQueue'[i] = writeQueue[i]
      /\ 1..Len(writeQueue') = 1..Len(writeQueue) \cup {n}
  BY <1>0, <1>1, <1>3, <1>4
<1>6. /\ ~IsSave(n)'
      /\ \A i \in 1..Len(writeQueue) : IsSave(i)' <=> IsSave(i)
  BY <1>3, <1>5 DEF IsSave
<1>7. \A i \in 1..Len(writeQueue') : IsSave(i)' => i \in 1..Len(writeQueue)
  BY <1>5, <1>6
<1>8. \A i \in 1..Len(writeQueue) : LastSave(i)' <=> LastSave(i)
  BY <1>0, <1>5, <1>6, <1>7 DEF LastSave
<1>9. DiskVersion' = DiskVersion /\ LoadedLedger' = LoadedLedger
  BY <1>1 DEF DiskVersion, LoadedLedger, readJsonFile, EmptyLedger, Ledger, ZeroWallets
<1>10. MemoryLedger' = MemoryLedger /\ NewestLedger' = NewestLedger
  BY <1>1 DEF MemoryLedger, NewestLedger, Ledger, ledgerVars, EmptyLedger, ZeroWallets
<1>11. ChainOrdered'
  BY <1>5, <1>6, <1>7, <1>9 DEF OInv, ChainOrdered
<1>12. SomeSaveIsLast'
  BY <1>5, <1>6, <1>7, <1>8 DEF OInv, SomeSaveIsLast
<1>13. MemoryIsSaved'
  <2>1. \A i \in 1..Len(writeQueue') : LastSave(i)' => i \in 1..Len(writeQueue) /\ LastSave(i)
    BY <1>7, <1>8 DEF LastSave
  <2>2. (\A i \in 1..Len(writeQueue') : ~IsSave(i)') => \A i \in 1..Len(writeQueue) : ~IsSave(i)
    BY <1>5, <1>6
  <2> QED BY <1>1, <1>5, <1>9, <1>10, <2>1, <2>2 DEF OInv, MemoryIsSaved
<1>14. MemoryIsNewest'
  BY <1>1, <1>10 DEF OInv, MemoryIsNewest
<1> QED BY <1>1, <1>2, <1>11, <1>12, <1>13, <1>14 DEF OInv

\* What the chain looks like when its head is gone.
LEMMA SavesOfTail ==
  ASSUME OInv, writeQueue # <<>>, writeQueue' = Tail(writeQueue)
  PROVE  /\ Len(writeQueue) \in Nat /\ Len(writeQueue') = Len(writeQueue) - 1
         /\ Head(writeQueue) = writeQueue[1] /\ 1 \in 1..Len(writeQueue)
         /\ \A i \in 1..Len(writeQueue') :
              /\ i + 1 \in 1..Len(writeQueue)
              /\ writeQueue'[i] = writeQueue[i + 1]
              /\ IsSave(i)' <=> IsSave(i + 1)
              /\ LastSave(i)' => LastSave(i + 1)
         /\ SomeSaveIsLast'
         /\ (\A i \in 1..Len(writeQueue') : ~IsSave(i)') /\ IsSave(1) => LastSave(1)
         /\ (\A i \in 1..Len(writeQueue') : ~IsSave(i)') /\ ~IsSave(1)
              => \A i \in 1..Len(writeQueue) : ~IsSave(i)
<1>1. writeQueue \in Seq([path : Paths, value : Contents])
  BY DEF OInv, IInv, TypeOK
<1>2. /\ Len(writeQueue) \in Nat /\ Len(writeQueue') = Len(writeQueue) - 1
      /\ Head(writeQueue) = writeQueue[1] /\ 1 \in 1..Len(writeQueue)
      /\ \A i \in 1..Len(writeQueue') :
           i + 1 \in 1..Len(writeQueue) /\ writeQueue'[i] = writeQueue[i + 1]
  BY <1>1
<1>3. \A i \in 1..Len(writeQueue') : IsSave(i)' <=> IsSave(i + 1)
  BY <1>2 DEF IsSave
<1>4. \A j \in 1..Len(writeQueue) : j = 1 \/ (j - 1 \in 1..Len(writeQueue') /\ (j - 1) + 1 = j)
  BY <1>2
<1>5. \A j \in 1..Len(writeQueue) : j # 1 /\ IsSave(j) => IsSave(j - 1)'
  BY <1>3, <1>4
<1>6. \A i \in 1..Len(writeQueue') : LastSave(i)' => LastSave(i + 1)
  <2> SUFFICES ASSUME NEW i \in 1..Len(writeQueue'), LastSave(i)',
                      NEW j \in 1..Len(writeQueue), IsSave(j)
               PROVE  j <= i + 1
    BY <1>3 DEF LastSave
  <2>1. CASE j = 1
    BY <1>2, <2>1
  <2>2. CASE j # 1
    <3>1. j - 1 <= i
      BY <1>4, <1>5, <2>2 DEF LastSave
    <3> QED BY <1>2, <3>1
  <2> QED BY <2>1, <2>2
<1>7. SomeSaveIsLast'
  <2> SUFFICES ASSUME NEW k \in 1..Len(writeQueue'), IsSave(k)'
               PROVE  \E i \in 1..Len(writeQueue') : LastSave(i)'
    BY DEF SomeSaveIsLast
  <2>1. PICK m \in 1..Len(writeQueue) : LastSave(m)
    BY <1>2, <1>3 DEF OInv, SomeSaveIsLast
  <2>2. k + 1 <= m
    BY <1>2, <1>3, <2>1 DEF LastSave
  <2>3. m - 1 \in 1..Len(writeQueue') /\ IsSave(m - 1)'
    <3>1. m # 1
      BY <1>2, <2>2
    <3> QED BY <1>4, <1>5, <2>1, <3>1 DEF LastSave
  <2>4. \A j \in 1..Len(writeQueue') : IsSave(j)' => j <= m - 1
    <3> SUFFICES ASSUME NEW j \in 1..Len(writeQueue'), IsSave(j)' PROVE j <= m - 1
      OBVIOUS
    <3>1. j + 1 <= m
      BY <1>2, <1>3, <2>1 DEF LastSave
    <3> QED BY <1>2, <3>1
  <2>5. LastSave(m - 1)'
    BY <2>3, <2>4 DEF LastSave
  <2> QED BY <2>3, <2>5
<1>8. ASSUME \A i \in 1..Len(writeQueue') : ~IsSave(i)'
      PROVE  \A j \in 1..Len(writeQueue) : IsSave(j) => j = 1
  BY <1>4, <1>5, <1>8
<1> QED BY <1>2, <1>3, <1>6, <1>7, <1>8 DEF LastSave

\* A chain whose head is gone keeps its order, whatever became of that task, if
\* the file's version is then below every save that is left.
LEMMA TailKeepsOrder ==
  ASSUME OInv, writeQueue # <<>>, writeQueue' = Tail(writeQueue),
         \/ DiskVersion' = DiskVersion
         \/ IsSave(1) /\ DiskVersion' = writeQueue[1].value.updatedAt
  PROVE  ChainOrdered'
<1>1. /\ Len(writeQueue) \in Nat /\ Len(writeQueue') = Len(writeQueue) - 1
      /\ 1 \in 1..Len(writeQueue)
      /\ \A i \in 1..Len(writeQueue') :
              /\ i + 1 \in 1..Len(writeQueue)
              /\ writeQueue'[i] = writeQueue[i + 1]
              /\ IsSave(i)' <=> IsSave(i + 1)
  BY SavesOfTail
<1>2. \A i, j \in 1..Len(writeQueue') : IsSave(i)' /\ IsSave(j)' /\ i < j
        => writeQueue'[i].value.updatedAt < writeQueue'[j].value.updatedAt
  <2> SUFFICES ASSUME NEW i \in 1..Len(writeQueue'), NEW j \in 1..Len(writeQueue'),
                      IsSave(i)', IsSave(j)', i < j
               PROVE  writeQueue'[i].value.updatedAt < writeQueue'[j].value.updatedAt
    OBVIOUS
  <2>1. IsSave(i + 1) /\ IsSave(j + 1) /\ i + 1 < j + 1
    BY <1>1
  <2> QED BY <1>1, <2>1 DEF OInv, ChainOrdered
<1>3. \A i \in 1..Len(writeQueue') : IsSave(i)' => DiskVersion' < writeQueue'[i].value.updatedAt
  <2> SUFFICES ASSUME NEW i \in 1..Len(writeQueue'), IsSave(i)'
               PROVE  DiskVersion' < writeQueue'[i].value.updatedAt
    OBVIOUS
  <2>1. IsSave(i + 1) /\ i + 1 \in 1..Len(writeQueue) /\ 1 < i + 1
    BY <1>1
  <2> QED BY <1>1, <2>1 DEF OInv, ChainOrdered
<1> QED BY <1>2, <1>3 DEF ChainOrdered

LEMMA WriteStepKeepsOInv ==
  ASSUME OInv, WriteStep
  PROVE  OInv' /\ (diskFile'[ExposureFile] # diskFile[ExposureFile] => DiskVersion' > DiskVersion)
<1>1. /\ up /\ StoreStep
      /\ UNCHANGED <<up, totalSystemExposure, walletExposure, history, granted, saveLost, rolledBack>>
  BY DEF WriteStep, ledgerVars
<1>2. IInv /\ IInv'
  BY WriteStepKeepsIInv DEF OInv
<1>3. MemoryLedger' = MemoryLedger /\ NewestLedger' = NewestLedger
  BY <1>1 DEF MemoryLedger, NewestLedger, Ledger, EmptyLedger, ZeroWallets
<1>4. MemoryIsNewest'
  BY <1>1, <1>3 DEF OInv, MemoryIsNewest
<1>5. CASE OpenTmp \/ FillTmp
  <2>1. UNCHANGED <<writeQueue, diskFile>>
    BY <1>5 DEF OpenTmp, FillTmp
  <2>2. DiskVersion' = DiskVersion /\ LoadedLedger' = LoadedLedger
    BY <2>1 DEF DiskVersion, LoadedLedger, readJsonFile, EmptyLedger, Ledger, ZeroWallets
  <2>3. ChainOrdered' /\ SomeSaveIsLast'
    BY <2>1, <2>2 DEF OInv, ChainOrdered, SomeSaveIsLast, LastSave, IsSave
  <2>4. MemoryIsSaved'
    BY <1>1, <1>3, <2>1, <2>2 DEF OInv, MemoryIsSaved, LastSave, IsSave
  <2> QED BY <1>1, <1>2, <1>4, <2>1, <2>3, <2>4 DEF OInv
<1>6. CASE RenameTmp
  <2> DEFINE p == Head(writeQueue).path
  <2>1. /\ writeQueue # <<>> /\ writeQueue' = Tail(writeQueue)
        /\ diskFile' = [diskFile EXCEPT ![p] = Head(writeQueue).value]
    BY <1>2, <1>6 DEF IInv, WriteInProgress, RenameTmp
  <2>2. p \in Paths /\ Proper(history, p, Head(writeQueue).value)
    BY <1>2, <2>1, HeadIsProper
  <2>3. /\ Head(writeQueue) = writeQueue[1] /\ 1 \in 1..Len(writeQueue)
        /\ \A i \in 1..Len(writeQueue') :
              /\ i + 1 \in 1..Len(writeQueue)
              /\ writeQueue'[i] = writeQueue[i + 1]
              /\ IsSave(i)' <=> IsSave(i + 1)
              /\ LastSave(i)' => LastSave(i + 1)
        /\ SomeSaveIsLast'
        /\ (\A i \in 1..Len(writeQueue') : ~IsSave(i)') /\ IsSave(1) => LastSave(1)
        /\ (\A i \in 1..Len(writeQueue') : ~IsSave(i)') /\ ~IsSave(1)
              => \A i \in 1..Len(writeQueue) : ~IsSave(i)
    BY <2>1, SavesOfTail
  <2>4. diskFile \in [Paths -> Contents \union {NoFile, Torn}]
    BY <1>2 DEF IInv, TypeOK
  <2>5. CASE IsSave(1)
    <3>1. p = ExposureFile /\ Head(writeQueue).value = writeQueue[1].value
      BY <2>3, <2>5 DEF IsSave
    <3>2. diskFile'[ExposureFile] = writeQueue[1].value
      BY <2>1, <2>2, <2>4, <3>1
    <3>3. writeQueue[1].value \in Snapshots
      BY <2>2, <3>1 DEF Proper, Committed
    <3>4. /\ DiskVersion' = writeQueue[1].value.updatedAt
          /\ LoadedLedger' = writeQueue[1].value.ledger
      BY <3>2, <3>3, ContentAssumption DEF DiskVersion, LoadedLedger, readJsonFile
    <3>5. ChainOrdered'
      BY <2>1, <2>5, <3>4, TailKeepsOrder
    <3>6. MemoryIsSaved'
      BY <1>1, <1>3, <2>3, <2>5, <3>4 DEF OInv, MemoryIsSaved
    <3>7. DiskVersion \in Nat /\ DiskVersion < writeQueue[1].value.updatedAt
      BY <1>2, <2>3, <2>5, VersionCommitted DEF OInv, ChainOrdered
    <3>8. DiskVersion' > DiskVersion
      BY <3>3, <3>4, <3>7 DEF Snapshots
    <3> QED BY <1>1, <1>2, <1>4, <2>3, <3>5, <3>6, <3>8 DEF OInv
  <2>6. CASE ~IsSave(1)
    <3>1. p # ExposureFile
      BY <2>3, <2>6 DEF IsSave
    <3>2. diskFile'[ExposureFile] = diskFile[ExposureFile]
      BY <2>1, <2>4, <3>1
    <3>3. DiskVersion' = DiskVersion /\ LoadedLedger' = LoadedLedger
      BY <3>2 DEF DiskVersion, LoadedLedger, readJsonFile, EmptyLedger, Ledger, ZeroWallets
    <3>4. ChainOrdered'
      BY <2>1, <3>3, TailKeepsOrder
    <3>5. MemoryIsSaved'
      BY <1>1, <1>3, <2>3, <2>6, <3>3 DEF OInv, MemoryIsSaved
    <3> QED BY <1>1, <1>2, <1>4, <2>3, <3>2, <3>4, <3>5 DEF OInv
  <2> QED BY <2>5, <2>6
<1> QED BY <1>1, <1>5, <1>6 DEF StoreStep

LEMMA WriteStepFailsKeepsOInv ==
  ASSUME OInv, WriteStepFails
  PROVE  OInv'
<1>1. /\ up /\ writeQueue # <<>> /\ writeQueue' = Tail(writeQueue)
      /\ saveLost' = (saveLost \/ HeadIsNewestSave)
      /\ UNCHANGED <<diskFile, up, totalSystemExposure, walletExposure, history, granted, rolledBack>>
  BY DEF WriteStepFails, WriteFails, ledgerVars
<1>2. IInv /\ IInv'
  BY WriteStepFailsKeepsIInv DEF OInv
<1>3. /\ MemoryLedger' = MemoryLedger /\ NewestLedger' = NewestLedger
      /\ DiskVersion' = DiskVersion /\ LoadedLedger' = LoadedLedger
  BY <1>1 DEF MemoryLedger, NewestLedger, DiskVersion, LoadedLedger, readJsonFile,
              Ledger, EmptyLedger, ZeroWallets
<1>4. /\ Len(writeQueue) \in Nat /\ Len(writeQueue') = Len(writeQueue) - 1
      /\ Head(writeQueue) = writeQueue[1] /\ 1 \in 1..Len(writeQueue)
      /\ \A i \in 1..Len(writeQueue') :
              /\ i + 1 \in 1..Len(writeQueue)
              /\ writeQueue'[i] = writeQueue[i + 1]
              /\ IsSave(i)' <=> IsSave(i + 1)
              /\ LastSave(i)' => LastSave(i + 1)
      /\ SomeSaveIsLast'
      /\ (\A i \in 1..Len(writeQueue') : ~IsSave(i)') /\ IsSave(1) => LastSave(1)
      /\ (\A i \in 1..Len(writeQueue') : ~IsSave(i)') /\ ~IsSave(1)
            => \A i \in 1..Len(writeQueue) : ~IsSave(i)
  BY <1>1, SavesOfTail
<1>5. ChainOrdered'
  BY <1>1, <1>3, TailKeepsOrder
<1>6. LastSave(1) => HeadIsNewestSave
  BY <1>4 DEF LastSave, IsSave, HeadIsNewestSave
<1>7. saveLost \in BOOLEAN
  BY <1>2 DEF IInv, TypeOK
<1>8. ~saveLost' => ~saveLost /\ ~LastSave(1)
  BY <1>1, <1>6, <1>7
<1>9. MemoryIsSaved'
  BY <1>1, <1>3, <1>4, <1>8 DEF OInv, MemoryIsSaved
<1>10. MemoryIsNewest'
  BY <1>1, <1>3 DEF OInv, MemoryIsNewest
<1> QED BY <1>1, <1>2, <1>4, <1>5, <1>9, <1>10 DEF OInv

LEMMA RestartKeepsOInv ==
  ASSUME OInv, Crash \/ loadFromDisk
  PROVE  OInv'
<1>1. CASE Crash
  <2>1. /\ writeQueue' = <<>> /\ up' = FALSE
        /\ UNCHANGED <<diskFile, history, granted, rolledBack>>
    BY <1>1 DEF Crash, StoreCrash
  <2>2. IInv' /\ 1..Len(writeQueue') = {}
    BY <1>1, <2>1, CrashKeepsIInv DEF OInv
  <2>3. NewestLedger' = NewestLedger
    BY <2>1 DEF NewestLedger, Ledger, EmptyLedger, ZeroWallets
  <2> QED
    BY <2>1, <2>2, <2>3 DEF OInv, ChainOrdered, SomeSaveIsLast, MemoryIsSaved, MemoryIsNewest
<1>2. CASE loadFromDisk
  <2>1. /\ ~up /\ up' = TRUE
        /\ totalSystemExposure' = LoadedLedger.total /\ walletExposure' = LoadedLedger.wallets
        /\ rolledBack' = (rolledBack \/ LoadedLedger # NewestLedger)
        /\ UNCHANGED <<writeQueue, diskFile, history, granted>>
    BY <1>2 DEF loadFromDisk, storeVars
  <2>2. IInv /\ IInv' /\ writeQueue' = <<>> /\ 1..Len(writeQueue') = {}
    BY <1>2, <2>1, LoadKeepsIInv DEF OInv
  <2>3. LoadedLedger' = LoadedLedger /\ NewestLedger' = NewestLedger
    BY <2>1 DEF LoadedLedger, NewestLedger, readJsonFile, Ledger, EmptyLedger, ZeroWallets
  <2>4. MemoryLedger' = LoadedLedger
    <3>1. LoadedLedger = [total |-> LoadedLedger.total, wallets |-> LoadedLedger.wallets]
      BY <2>2, LoadedIsCommitted DEF Ledgers
    <3> QED BY <2>1, <3>1 DEF MemoryLedger, Ledger
  <2>5. rolledBack \in BOOLEAN
    BY <2>2 DEF IInv, TypeOK
  <2>6. ~rolledBack' => ~rolledBack /\ LoadedLedger = NewestLedger
    BY <2>1, <2>5
  <2>7. MemoryIsNewest'
    BY <2>1, <2>3, <2>4, <2>6 DEF OInv, MemoryIsNewest
  <2> QED
    BY <2>1, <2>2, <2>3, <2>4, <2>7 DEF OInv, ChainOrdered, SomeSaveIsLast, MemoryIsSaved
<1> QED BY <1>1, <1>2

\* Both operations that commit a ledger keep the memory the newest one.
LEMMA OperationsKeepOInv ==
  ASSUME OInv, (\E w \in Wallets, raw \in RawLimits : Underwrite(w, raw)) \/ resetSystemExposure
  PROVE  OInv'
<1>1. IInv /\ history \in Seq(Ledgers)
  BY DEF OInv, IInv, TypeOK
<1>2. ASSUME NEW w \in Wallets, NEW raw \in RawLimits, Underwrite(w, raw)
      PROVE  OInv'
  <2>1. IInv'
    BY <1>1, <1>2, UnderwriteKeepsIInv
  <2>2. PICK reserved : /\ addSystemExposure(w, reserved) /\ up /\ UNCHANGED <<up, rolledBack>>
                        /\ granted' = granted + reserved
    BY <1>2 DEF Underwrite, MayCommit
  <2> DEFINE l == Ledger(totalSystemExposure + reserved,
                         [walletExposure EXCEPT ![w] = @ + reserved])
  <2>3. /\ saveToDisk(l) /\ MemoryLedger' = l /\ l.total = totalSystemExposure + reserved
    BY <2>2 DEF addSystemExposure, MemoryLedger, Ledger
  <2>4. ~rolledBack' => granted' = l.total
    <3>1. ~rolledBack => granted = totalSystemExposure
      BY <2>2 DEF OInv, MemoryIsNewest, MemoryLedger, Ledger
    <3> QED BY <2>2, <2>3, <3>1
  <2>5. l \in Ledgers
    <3>1. totalSystemExposure' \in Nat /\ walletExposure' \in [Wallets -> Nat]
      BY <2>1 DEF IInv, TypeOK
    <3>2. l = [total |-> totalSystemExposure', wallets |-> walletExposure']
      BY <2>3 DEF MemoryLedger, Ledger
    <3> HIDE DEF l
    <3> QED BY <3>1, <3>2 DEF Ledgers
  <2> HIDE DEF l
  <2> QED BY <2>1, <2>2, <2>3, <2>4, <2>5, CommitKeepsOInv
<1>3. CASE resetSystemExposure
  <2>1. IInv'
    BY <1>1, <1>3, ResetKeepsIInv
  <2>2. /\ up /\ UNCHANGED up /\ saveToDisk(EmptyLedger) /\ MemoryLedger' = EmptyLedger
        /\ granted' = EmptyLedger.total
    BY <1>3 DEF resetSystemExposure, MayCommit, MemoryLedger, EmptyLedger, Ledger
  <2> QED BY <2>1, <2>2, EmptyLedgerIsOne, CommitKeepsOInv
<1> QED BY <1>2, <1>3

LEMMA InitOInv == Init => OInv
<1> SUFFICES ASSUME Init PROVE OInv
  OBVIOUS
<1>1. /\ writeQueue = <<>> /\ 1..Len(writeQueue) = {}
      /\ diskFile[ExposureFile] = NoFile /\ history = <<>> /\ granted = 0 /\ up = TRUE
      /\ totalSystemExposure = 0 /\ walletExposure = ZeroWallets
  BY FilesAssumption DEF Init, StoreInit
<1>2. LoadedLedger = EmptyLedger /\ NewestLedger = EmptyLedger /\ MemoryLedger = EmptyLedger
      /\ EmptyLedger.total = 0
  BY <1>1 DEF LoadedLedger, NewestLedger, MemoryLedger, readJsonFile, EmptyLedger, Ledger
<1> QED
  BY <1>1, <1>2, InitIInv
  DEF OInv, ChainOrdered, SomeSaveIsLast, MemoryIsSaved, MemoryIsNewest

LEMMA NextOInv ==
  ASSUME OInv, [Next]_vars
  PROVE  OInv' /\ (diskFile'[ExposureFile] # diskFile[ExposureFile] => DiskVersion' > DiskVersion)
<1>1. ASSUME NEW p \in Paths, OtherStoreSaves(p)
      PROVE  OInv' /\ UNCHANGED diskFile
  BY <1>1, OtherStoreKeepsOInv DEF OtherStoreSaves, queueJsonWrite
<1>2. CASE \/ \E w \in Wallets, raw \in RawLimits : Underwrite(w, raw)
           \/ resetSystemExposure
  BY <1>2, OperationsKeepOInv
  DEF Underwrite, addSystemExposure, resetSystemExposure, saveToDisk, queueJsonWrite
<1>3. CASE WriteStepFails \/ Crash \/ loadFromDisk
  BY <1>3, WriteStepFailsKeepsOInv, RestartKeepsOInv
  DEF WriteStepFails, WriteFails, Crash, StoreCrash, loadFromDisk, storeVars
<1>4. CASE UNCHANGED vars
  <2>1. UNCHANGED <<writeQueue, writing, tmpFile, diskFile, up, totalSystemExposure,
                    walletExposure, history, granted, saveLost, rolledBack>>
    BY <1>4 DEF vars, storeVars, ledgerVars
  <2>2. IInv'
    BY <1>4, NextKeepsIInv DEF OInv
  <2>3. /\ LoadedLedger' = LoadedLedger /\ NewestLedger' = NewestLedger
        /\ MemoryLedger' = MemoryLedger /\ DiskVersion' = DiskVersion
    BY <2>1 DEF LoadedLedger, NewestLedger, MemoryLedger, DiskVersion, readJsonFile,
                EmptyLedger, Ledger, ZeroWallets
  <2> QED
    BY <2>1, <2>2, <2>3
    DEF OInv, ChainOrdered, SomeSaveIsLast, MemoryIsSaved, MemoryIsNewest, LastSave, IsSave
<1> QED BY <1>1, <1>2, <1>3, <1>4, WriteStepKeepsOInv DEF Next

\* The ordering invariant holds in every reachable state.
THEOREM OrderInvariance == Spec => []OInv
<1>1. OInv /\ [Next]_vars => OInv'
  BY NextOInv
<1> QED BY <1>1, InitOInv, PTL DEF Spec

\* queueJsonWrite's chain applies the snapshots in the order they were taken:
\* the file never goes back to an older ledger, over crashes and failed writes.
THEOREM FileMovesForward == Spec => DiskMovesForward
<1>1. OInv /\ [Next]_vars =>
        [diskFile'[ExposureFile] # diskFile[ExposureFile] => DiskVersion' > DiskVersion]_vars
  BY NextOInv
<1> QED BY <1>1, OrderInvariance, PTL DEF Spec, DiskMovesForward

\* What a running process counts as outstanding is what it granted since the
\* last reset, unless a restart resumed from an outdated ledger.
THEOREM GrantsAreAccounted == Spec => []GrantsAccountedFor
<1>1. OInv => GrantsAccountedFor
  BY DEF OInv, MemoryIsNewest, GrantsAccountedFor, MemoryLedger, Ledger
<1> QED BY <1>1, OrderInvariance, PTL

\* The ledger in memory is what the file will hold when the chain has drained,
\* unless the newest save has failed.
THEOREM NewestSaveComes == Spec => []NewestSaveOnItsWay
<1>1. OInv => NewestSaveOnItsWay
  <2> SUFFICES ASSUME OInv, up, ~saveLost PROVE NewestSaveOnItsWay
    BY DEF NewestSaveOnItsWay
  <2> DEFINE saves == {i \in 1..Len(writeQueue) : writeQueue[i].path = ExposureFile}
  <2>1. CASE saves = {}
    <3>1. \A i \in 1..Len(writeQueue) : ~IsSave(i)
      BY <2>1 DEF IsSave
    <3> QED BY <2>1, <3>1 DEF OInv, MemoryIsSaved, NewestSaveOnItsWay
  <2>2. CASE saves # {}
    <3>1. Len(writeQueue) \in Nat
      BY DEF OInv, IInv, TypeOK
    <3>2. PICK m \in 1..Len(writeQueue) : LastSave(m)
      BY <2>2 DEF OInv, SomeSaveIsLast, IsSave
    <3>3. m \in saves /\ \A j \in saves : m >= j
      BY <3>1, <3>2 DEF LastSave, IsSave
    <3>4. Max(saves) \in saves /\ \A j \in saves : Max(saves) >= j
      <4> HIDE DEF saves
      <4> QED BY <3>3 DEF Max
    <3>5. LastSave(Max(saves))
      BY <3>1, <3>4 DEF LastSave, IsSave
    <3> QED BY <2>2, <3>4, <3>5 DEF OInv, MemoryIsSaved, NewestSaveOnItsWay
  <2> QED BY <2>1, <2>2
<1> QED BY <1>1, OrderInvariance, PTL

-----------------------------------------------------------------------------
(* The total is the sum of the wallets. *)

Balanced(l) == l.total = SumOver(l.wallets, Wallets)

\* Whatever a restart may load is balanced, as it was committed once.
BInv ==
  /\ Balanced(MemoryLedger)
  /\ \A i \in 1..Len(history) : Balanced(history[i])

LEMMA EmptyLedgerBalanced == Balanced(EmptyLedger)
  BY SumOfZeros, WalletsAssumption DEF Balanced, EmptyLedger, Ledger, ZeroWallets

\* Committing a balanced ledger, whichever operation does it.
LEMMA CommitKeepsBInv ==
  ASSUME IInv, BInv, NEW l \in Ledgers, Balanced(l), saveToDisk(l),
         totalSystemExposure' = l.total, walletExposure' = l.wallets
  PROVE  BInv'
<1>1. history' = Append(history, l) /\ history \in Seq(Ledgers)
  BY DEF saveToDisk, IInv, TypeOK
<1>2. \A i \in 1..Len(history') :
        history'[i] = l \/ (i \in 1..Len(history) /\ history'[i] = history[i])
  BY <1>1
<1>3. \A i \in 1..Len(history') : Balanced(history'[i])
  <2> SUFFICES ASSUME NEW i \in 1..Len(history') PROVE Balanced(history'[i])
    OBVIOUS
  <2>1. CASE history'[i] = l
    BY <2>1
  <2>2. CASE i \in 1..Len(history) /\ history'[i] = history[i]
    <3>1. Balanced(history[i])
      BY <2>2 DEF BInv
    <3> QED BY <2>2, <3>1
  <2> QED BY <1>2, <2>1, <2>2
<1>4. Balanced(MemoryLedger)'
  BY DEF Balanced, MemoryLedger, Ledger
<1> QED BY <1>3, <1>4 DEF BInv, Balanced

\* Granting raises the total and one wallet's entry by the same amount.
LEMMA UnderwriteKeepsBInv ==
  ASSUME IInv, BInv, NEW w \in Wallets, NEW raw \in RawLimits, Underwrite(w, raw)
  PROVE  BInv'
<1> DEFINE reserved == Reserved(w, 10 * capToSystemCapacity(w, RoundToCents(raw)))
           wallets == [walletExposure EXCEPT ![w] = @ + reserved]
           l == Ledger(totalSystemExposure + reserved, wallets)
<1>1. addSystemExposure(w, reserved)
  BY DEF Underwrite
<1>2. reserved \in Nat /\ totalSystemExposure \in Nat /\ walletExposure \in [Wallets -> Nat]
  BY UnderwriteReserves DEF IInv, TypeOK
<1> HIDE DEF reserved
<1>3. saveToDisk(l) /\ totalSystemExposure' = l.total /\ walletExposure' = l.wallets
  BY <1>1 DEF addSystemExposure
<1>4. l.total = totalSystemExposure + reserved /\ l.wallets = wallets /\ l \in Ledgers
  BY <1>2 DEF Ledger, Ledgers
<1>5. SumOver(wallets, Wallets) = SumOver(walletExposure, Wallets) + reserved
  BY <1>2, SumRaised, WalletsAssumption
<1>6. totalSystemExposure = SumOver(walletExposure, Wallets)
  BY DEF BInv, Balanced, MemoryLedger, Ledger
<1>7. Balanced(l)
  BY <1>4, <1>5, <1>6, Zenon DEF Balanced
<1> HIDE DEF l
<1> QED BY <1>3, <1>4, <1>7, CommitKeepsBInv

LEMMA ResetKeepsBInv ==
  ASSUME IInv, BInv, resetSystemExposure
  PROVE  BInv'
<1>1. EmptyLedger.total = 0 /\ EmptyLedger.wallets = ZeroWallets
  BY DEF EmptyLedger, Ledger
<1> QED
  BY <1>1, EmptyLedgerIsOne, EmptyLedgerBalanced, CommitKeepsBInv DEF resetSystemExposure

\* The death of the process empties the ledger, and a restart loads one that
\* was committed: neither leaves a total without its wallets.
LEMMA RestartKeepsBInv ==
  ASSUME IInv, BInv, Crash \/ loadFromDisk
  PROVE  BInv'
<1>1. PICK l : /\ totalSystemExposure' = l.total /\ walletExposure' = l.wallets
               /\ l = EmptyLedger \/ \E i \in 1..Len(history) : l = history[i]
  <2>1. CASE Crash
    <3>1. totalSystemExposure' = EmptyLedger.total /\ walletExposure' = EmptyLedger.wallets
      BY <2>1 DEF Crash, EmptyLedger, Ledger
    <3> QED BY <3>1, Zenon
  <2>2. CASE loadFromDisk
    BY <2>2, LoadedIsCommitted, Zenon DEF loadFromDisk
  <2> QED BY <2>1, <2>2
<1>2. Balanced(l)
  BY <1>1, EmptyLedgerBalanced DEF BInv
<1>3. Balanced(MemoryLedger)'
  BY <1>1, <1>2 DEF Balanced, MemoryLedger, Ledger
<1>4. UNCHANGED history
  BY DEF Crash, loadFromDisk
<1> QED BY <1>3, <1>4 DEF BInv, Balanced

LEMMA BInvInductive ==
  ASSUME IInv, BInv, [Next]_vars
  PROVE  BInv'
<1>1. ASSUME UNCHANGED <<ledgerVars, history>> PROVE BInv'
  BY <1>1 DEF BInv, Balanced, MemoryLedger, Ledger, ledgerVars
<1>2. ASSUME NEW w \in Wallets, NEW raw \in RawLimits, Underwrite(w, raw) PROVE BInv'
  BY <1>2, UnderwriteKeepsBInv
<1>3. ASSUME NEW p \in Paths, OtherStoreSaves(p) PROVE BInv'
  BY <1>1, <1>3 DEF OtherStoreSaves
<1>4. CASE WriteStep \/ WriteStepFails
  BY <1>1, <1>4 DEF WriteStep, WriteStepFails
<1>5. CASE UNCHANGED vars
  BY <1>1, <1>5 DEF vars
<1> QED
  BY <1>2, <1>3, <1>4, <1>5, ResetKeepsBInv, RestartKeepsBInv DEF Next

\* addSystemExposure, resetSystemExposure and loadFromDisk change the total and
\* the entries separately, and yet the total is always the sum of the entries,
\* over crashes, failed writes and reloads.
THEOREM TotalIsTheSum == Spec => []LedgerBalanced
<1>1. Init => BInv
  <2> SUFFICES ASSUME Init PROVE BInv
    OBVIOUS
  <2>1. Balanced(MemoryLedger)
    BY EmptyLedgerBalanced DEF Init, MemoryLedger, EmptyLedger
  <2> QED BY <2>1 DEF Init, BInv
<1>2. IInv /\ BInv /\ [Next]_vars => BInv'
  BY BInvInductive
<1>3. BInv => LedgerBalanced
  <2>1. LedgerBalanced <=> totalSystemExposure = SumOver(walletExposure, Wallets)
    BY DEF LedgerBalanced, SumOver
  <2> QED BY <2>1 DEF BInv, Balanced, MemoryLedger, Ledger
<1> QED BY <1>1, <1>2, <1>3, Invariance, PTL DEF Spec
=============================================================================
