------------------------------ MODULE JsonStore ------------------------------
(***************************************************************************)
(* The JSON persistence helper of the service (src/lib/json-store.ts).     *)
(*                                                                         *)
(* Three components keep their state in memory and hand complete snapshots *)
(* to queueJsonWrite: the exposure ledger, the rate limiter and the        *)
(* webhook subscriber list.  All of them share ONE promise chain, so the   *)
(* snapshots are written in the order they were taken, one at a time.      *)
(*                                                                         *)
(* A write is synchronous JavaScript (writeFileSync, then renameSync), so  *)
(* no other handler runs between its two system calls; the process can     *)
(* still die there, which is why a write is three steps here.              *)
(*                                                                         *)
(* The module is passive: it has the state and the steps of the store, and *)
(* the modules that persist something extend it.                           *)
(***************************************************************************)
EXTENDS Naturals, Sequences

CONSTANTS
  Paths,    \* the files the service persists to
  NoFile,   \* a path at which there is no file yet
  Torn      \* what a half-finished writeFileSync leaves behind

ASSUME SentinelsDiffer == NoFile # Torn

VARIABLES
  writeQueue,  \* the pending tasks of the promise chain: [path, value]
  writing,     \* how far the task at the head of the chain has got
  tmpFile,     \* tmpFile[p]: the content of p + ".tmp"
  diskFile     \* diskFile[p]: the content of p, what a restart reads

storeVars == <<writeQueue, writing, tmpFile, diskFile>>

WritePhases == {"idle", "tmp", "rename"}

StoreInit ==
  /\ writeQueue = <<>>
  /\ writing = "idle"
  /\ tmpFile = [p \in Paths |-> NoFile]
  /\ diskFile = [p \in Paths |-> NoFile]

(***************************************************************************)
(* Between two turns of the event loop no write is half done: handlers run *)
(* only then.                                                              *)
(***************************************************************************)
StoreQuiet == writing = "idle"

\* Mutant: the newest snapshot is written first.
queueJsonWriteLifo(path, value) ==
  /\ writeQueue' = <<[path |-> path, value |-> value]>> \o writeQueue
  /\ UNCHANGED <<writing, tmpFile, diskFile>>

\* queueJsonWrite: append the snapshot to the promise chain.
queueJsonWrite(path, value) ==
  /\ writeQueue' = Append(writeQueue, [path |-> path, value |-> value])
  /\ UNCHANGED <<writing, tmpFile, diskFile>>

\* Mutant: the target is opened and truncated in place.
OpenTarget ==
  /\ writing = "idle"
  /\ writeQueue # <<>>
  /\ writing' = "tmp"
  /\ diskFile' = [diskFile EXCEPT ![Head(writeQueue).path] = Torn]
  /\ UNCHANGED <<writeQueue, tmpFile>>

(***************************************************************************)
(* writeJsonFileSync: open and truncate the temporary file, finish writing *)
(* it, rename it over the target.                                          *)
(***************************************************************************)
OpenTmp ==
  /\ writing = "idle"
  /\ writeQueue # <<>>
  /\ writing' = "tmp"
  /\ tmpFile' = [tmpFile EXCEPT ![Head(writeQueue).path] = Torn]
  /\ UNCHANGED <<writeQueue, diskFile>>

FillTmp ==
  /\ writing = "tmp"
  /\ writing' = "rename"
  /\ tmpFile' = [tmpFile EXCEPT ![Head(writeQueue).path] = Head(writeQueue).value]
  /\ UNCHANGED <<writeQueue, diskFile>>

RenameTmp ==
  LET p == Head(writeQueue).path
  IN  /\ writing = "rename"
      /\ writing' = "idle"
      /\ diskFile' = [diskFile EXCEPT ![p] = tmpFile[p]]
      /\ tmpFile' = [tmpFile EXCEPT ![p] = NoFile]
      /\ writeQueue' = Tail(writeQueue)

\* Mutant: the throw rejects the chain, and every later task is skipped.
WriteRejectsChain ==
  /\ writeQueue # <<>>
  /\ writing' = "idle"
  /\ writeQueue' = <<>>
  /\ UNCHANGED <<tmpFile, diskFile>>

(***************************************************************************)
(* Any of the system calls may throw (ENOSPC, EACCES...).  The task reports *)
(* it through onError and settles, so the chain goes on with the next one;  *)
(* the snapshot is dropped and nothing retries it.                         *)
(***************************************************************************)
WriteFails ==
  /\ writeQueue # <<>>
  /\ writing' = "idle"
  /\ writeQueue' = Tail(writeQueue)
  /\ UNCHANGED <<tmpFile, diskFile>>

StoreStep == OpenTmp \/ FillTmp \/ RenameTmp

\* The process dies: the chain is memory, the two files are not.
StoreCrash ==
  /\ writeQueue' = <<>>
  /\ writing' = "idle"
  /\ UNCHANGED <<tmpFile, diskFile>>

\* readJsonFile: the parsed file, or the fallback when it is missing or garbage.
readJsonFile(path, fallback) ==
  IF diskFile[path] \in {NoFile, Torn} THEN fallback ELSE diskFile[path]
=============================================================================
