------------------------ MODULE AsyncKeyValueHistory ------------------------
(***************************************************************************)
(* AsyncKeyValueFS with two history variables, for what the file system    *)
(* promises to clients that wait for its callbacks: whether calls have     *)
(* overlapped, and whether a handle that outlived its file was synced over *)
(* a directory with entries.                                               *)
(***************************************************************************)
EXTENDS AsyncKeyValueFS

VARIABLES
  alone,     \* history: no call was made while another was under way
  clobbered  \* history: a directory with entries became a file, while alone

AtWork == {c \in Clients : Busy(c)}

Overwritten ==
  \E i \in Ids : IsDir(store, i) /\ ~ IsEmptyDirAt(store, i) /\ IsFile(store', i)

HistoryInit == Init /\ alone = TRUE /\ clobbered = FALSE
HistoryNext ==
  /\ Next
  /\ alone' = (alone /\ Cardinality(AtWork') <= 1)
  /\ clobbered' = (alone' /\ (clobbered \/ Overwritten))
HistorySpec == HistoryInit /\ [][HistoryNext]_<<vars, alone, clobbered>>

(* To clients that wait for each other's callbacks no stale id is ever shown: *)
(* what the cache says of a path is what the store says.  One thing spoils    *)
(* it, a handle synced over a directory with entries: the cache goes on       *)
(* leading to them below what is a file now.                                  *)
CoherentAlone == alone => TypeOK /\ (~ clobbered => CacheCoherent)

(* ... and no call leaves a key behind that nothing leads to, whatever the    *)
(* two transactions of rmdir or a rename that fails have done: with the same  *)
(* exception, the entries of a directory written over.                        *)
NoOrphansAlone == alone /\ ~ clobbered => NoOrphans
=============================================================================
