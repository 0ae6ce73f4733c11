-------------------------- MODULE SyncTransaction --------------------------
(***************************************************************************)
(* SimpleSyncRWTransaction (src/src/generic/key_value_filesystem.ts): the  *)
(* undo log with which the synchronous key-value file systems roll back a  *)
(* transaction when a put throws.  Reads and writes go to the store at     *)
(* once; `originalData` remembers the first value seen of each key.        *)
(***************************************************************************)
EXTENDS Naturals

CONSTANTS
  Keys,        \* bound: the keys of the store
  Values,      \* bound: the buffers put into it
  None,        \* undefined: the key is not in the store
  Unstashed    \* the key is not in originalData

ASSUME ValuesAssumption ==
  None \notin Values /\ Unstashed \notin Values /\ None # Unstashed

VARIABLES
  syncStore,     \* the SimpleSyncStore
  originalData,  \* the transaction's stash
  modifiedKeys,  \* keys it wrote; a list without duplicates whose order does not matter
  phase,         \* "none", "open", or "failed": a put has thrown
  snapshot       \* history: the store when the transaction began

txVars == <<syncStore, originalData, modifiedKeys, phase, snapshot>>

Maybe == Values \union {None}

TxTypeOK ==
  /\ syncStore \in [Keys -> Maybe]
  /\ originalData \in [Keys -> Maybe \union {Unstashed}]
  /\ modifiedKeys \subseteq Keys
  /\ phase \in {"none", "open", "failed"}
  /\ snapshot \in [Keys -> Maybe]

TxInit ==
  /\ syncStore \in [Keys -> Maybe]
  /\ originalData = [k \in Keys |-> Unstashed]
  /\ modifiedKeys = {}
  /\ phase = "none"
  /\ snapshot = syncStore

(* beginTransaction *)
Begin ==
  /\ phase = "none"
  /\ originalData' = [k \in Keys |-> Unstashed]
  /\ modifiedKeys' = {}
  /\ phase' = "open"
  /\ snapshot' = syncStore
  /\ UNCHANGED syncStore

(* stashOldValue: "Keep only the earliest value in the transaction." *)
(* Mutant: the latest value is kept. *)
StashedLatest(k, value) == [originalData EXCEPT ![k] = value]
Stashed(k, value) ==
  IF originalData[k] = Unstashed THEN [originalData EXCEPT ![k] = value] ELSE originalData

(* markModified *)
(* Mutant: only keys the transaction has read are stashed. *)
MarkModifiedOnly(k) ==
  /\ modifiedKeys' = modifiedKeys \union {k}
  /\ UNCHANGED originalData
MarkModified(k) ==
  /\ modifiedKeys' = modifiedKeys \union {k}
  /\ originalData' = IF k \in modifiedKeys THEN originalData ELSE Stashed(k, syncStore[k])

Get(k) ==
  /\ phase = "open"
  /\ originalData' = Stashed(k, syncStore[k])
  /\ UNCHANGED <<syncStore, modifiedKeys, phase, snapshot>>

(* put: an existing key stays when overwrite is false; a full store throws,
   after the key was marked modified.  addNewNode swallows the throw and goes
   on, every other caller aborts. *)
PutKey(k, v, overwrite) ==
  /\ phase = "open"
  /\ MarkModified(k)
  /\ \/ /\ syncStore' = IF overwrite \/ syncStore[k] = None THEN [syncStore EXCEPT ![k] = v] ELSE syncStore
        /\ UNCHANGED phase
     \/ phase' \in {"open", "failed"} /\ UNCHANGED syncStore
  /\ UNCHANGED snapshot

DelKey(k) ==
  /\ phase = "open"
  /\ MarkModified(k)
  /\ syncStore' = [syncStore EXCEPT ![k] = None]
  /\ UNCHANGED <<phase, snapshot>>

(* "NOP": the writes are in the store already *)
Commit ==
  /\ phase = "open"
  /\ phase' = "none"
  /\ UNCHANGED <<syncStore, originalData, modifiedKeys, snapshot>>

(* "Rollback old values." *)
RolledBack ==
  [k \in Keys |-> IF k \in modifiedKeys THEN originalData[k] ELSE syncStore[k]]

Abort ==
  /\ phase = "failed"
  /\ syncStore' = RolledBack
  /\ phase' = "none"
  /\ UNCHANGED <<originalData, modifiedKeys, snapshot>>

TxNext ==
  \/ Begin \/ Commit \/ Abort
  \/ \E k \in Keys :
       \/ Get(k) \/ DelKey(k)
       \/ \E v \in Values, overwrite \in BOOLEAN : PutKey(k, v, overwrite)

TxSpec == TxInit /\ [][TxNext]_txVars

----------------------------------------------------------------------------
(* An abort leaves the store as the transaction found it ("Aborts and      *)
(* rolls back the transaction."), whatever it read, put and deleted, and   *)
(* in whatever order.                                                      *)
AbortRestores == [][Abort => syncStore' = snapshot]_txVars

(* The undo log is sufficient at every moment, so that a throw anywhere    *)
(* can be undone: what was not modified is as it was, and what was         *)
(* modified or read has its first value stashed.                           *)
UndoLogSufficient ==
  phase # "none" =>
    /\ \A k \in Keys \ modifiedKeys : syncStore[k] = snapshot[k]
    /\ \A k \in Keys : originalData[k] # Unstashed => originalData[k] = snapshot[k]
    /\ \A k \in modifiedKeys : originalData[k] # Unstashed
=============================================================================
