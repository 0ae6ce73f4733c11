------------------------------ MODULE LockedFS ------------------------------
(***************************************************************************)
(* LockedFS and its Mutex (src/src/generic/locked_fs.ts, mutex.ts): every  *)
(* asynchronous call takes the mutex, runs in the wrapped file system, and *)
(* releases the mutex in its callback.  The wrapped file system is         *)
(* external here; OverlayFS is the one the repository wraps, and it does   *)
(* call back twice and does throw, so both are part of the model.          *)
(***************************************************************************)
EXTENDS Integers, SequencesExt

CONSTANT AsyncCalls  \* bound: the calls that can be under way at a time

VARIABLES
  locked,      \* _locked
  waiters,     \* _waiters
  immediates,  \* calls that setImmediate will let in
  inside,      \* calls running in the wrapped file system
  lingering,   \* calls that answered and will answer again
  dead,        \* calls whose client is never called back
  arrived,     \* history: the calls not let in yet, in the order they were made
  twice        \* history: some call was answered a second time

lockVars == <<locked, waiters, immediates, inside, lingering, dead, arrived, twice>>

Pending == Range(waiters) \union Range(immediates) \union inside \union dead

LockTypeOK ==
  /\ locked \in BOOLEAN
  /\ waiters \in Seq(AsyncCalls) /\ immediates \in Seq(AsyncCalls)
  /\ inside \subseteq AsyncCalls /\ lingering \subseteq AsyncCalls /\ dead \subseteq AsyncCalls
  /\ twice \in BOOLEAN

LockInit ==
  /\ locked = FALSE /\ twice = FALSE
  /\ waiters = <<>> /\ immediates = <<>> /\ arrived = <<>>
  /\ inside = {} /\ lingering = {} /\ dead = {}

(* The closure given to lock: the wrapped file system takes the call, or throws. *)
Enter(c) ==
  \/ inside' = inside \union {c} /\ UNCHANGED dead
  \/ dead' = dead \union {c} /\ UNCHANGED inside

(* Mutex.lock, by any asynchronous operation of LockedFS *)
Lock(c) ==
  /\ c \notin Pending
  /\ \/ /\ ~ locked
        /\ locked' = TRUE
        /\ Enter(c)
        /\ UNCHANGED <<waiters, arrived>>
     \/ /\ locked
        /\ waiters' = Append(waiters, c)
        /\ arrived' = Append(arrived, c)
        /\ UNCHANGED <<locked, inside, dead>>
  /\ UNCHANGED <<immediates, lingering, twice>>

RunImmediate ==
  /\ immediates # <<>>
  /\ Enter(Head(immediates))
  /\ immediates' = Tail(immediates)
  /\ arrived' = RemoveAt(arrived, CHOOSE i \in DOMAIN arrived : arrived[i] = Head(immediates))
  /\ UNCHANGED <<locked, waiters, lingering, twice>>

(* Mutants of Unlock: _locked reset although a waiter was promised the
   mutex; the waiters forgotten; pop where the code has shift. *)
UnlockReleasing ==
  /\ locked' = FALSE
  /\ IF waiters = <<>>
     THEN UNCHANGED <<waiters, immediates>>
     ELSE immediates' = Append(immediates, Head(waiters)) /\ waiters' = Tail(waiters)
UnlockForgetting == locked' = FALSE /\ UNCHANGED <<waiters, immediates>>
UnlockPopping ==
  /\ locked' = (waiters # <<>>)
  /\ IF waiters = <<>>
     THEN UNCHANGED <<waiters, immediates>>
     ELSE /\ immediates' = Append(immediates, waiters[Len(waiters)])
          /\ waiters' = SubSeq(waiters, 1, Len(waiters) - 1)
(* Mutex.unlock of a locked mutex: "don't unlock - we want to queue up next" *)
Unlock ==
  /\ locked' = (waiters # <<>>)
  /\ IF waiters = <<>>
     THEN UNCHANGED <<waiters, immediates>>
     ELSE /\ immediates' = Append(immediates, Head(waiters))
          /\ waiters' = Tail(waiters)

(* The wrapped file system calls back; unlock throws if the mutex is not
   locked, and then the client is never called. *)
Answer(c) ==
  /\ c \in inside
  /\ inside' = inside \ {c}
  /\ \/ locked /\ Unlock /\ UNCHANGED dead
     \/ ~ locked /\ dead' = dead \union {c} /\ UNCHANGED <<locked, waiters, immediates>>
  /\ \/ UNCHANGED lingering
     \/ lingering' = lingering \union {c}
  /\ UNCHANGED <<arrived, twice>>

(* It calls back a second time. *)
AnswerAgain(c) ==
  /\ c \in lingering
  /\ lingering' = lingering \ {c}
  /\ twice' = TRUE
  /\ \/ locked /\ Unlock
     \/ ~ locked /\ UNCHANGED <<locked, waiters, immediates>>
  /\ UNCHANGED <<inside, dead, arrived>>

LockNext ==
  \/ RunImmediate
  \/ \E c \in AsyncCalls : Lock(c) \/ Answer(c) \/ AnswerAgain(c)

LockSpec == LockInit /\ [][LockNext]_lockVars

(* Immediates run, and the wrapped file system answers each call it took. *)
Fairness == WF_lockVars(RunImmediate) /\ \A c \in AsyncCalls : WF_lockVars(Answer(c))
FairLockSpec == LockSpec /\ Fairness

----------------------------------------------------------------------------
(* At most one call is in the wrapped file system, as long as that answers *)
(* no call twice: "We wrap these objects in a LockedFS to prevent races"   *)
(* (OverlayFS).  A call that throws does no harm here.                     *)
OneAtATime == twice \/ \A c, d \in inside : c = d

(* A synchronous call, which passes when the mutex is not locked and       *)
(* throws 'invalid sync call' otherwise, finds nothing under way: no call  *)
(* inside, and none that has been promised the mutex.                      *)
SyncCallsAlone == ~ locked /\ ~ twice => inside = {} /\ immediates = <<>>

(* Calls enter in the order they were made: no call that finds the mutex  *)
(* free overtakes one that setImmediate is about to let in.                *)
NoOvertaking ==
  [][\A c \in AsyncCalls :
       c \in (inside' \union dead') \ (inside \union dead)
         => twice \/ arrived = <<>> \/ c = Head(arrived)]_lockVars

(* "an unlock immediately followed by a lock won't cause starvation"       *)
(* (mutex.ts): every call made is answered, unless the wrapped file system *)
(* has thrown at a call or answered one twice.                             *)
EveryCallAnswered ==
  \A c \in AsyncCalls : c \in Pending ~> c \notin Pending \/ dead # {} \/ twice

(* A call never waits for a mutex nobody holds, whatever the wrapped file  *)
(* system does: unlock hands the mutex over in the step that takes the     *)
(* waiter off the queue.                                                   *)
NoForgottenWaiter == ~ locked => waiters = <<>>

----------------------------------------------------------------------------
(* What the comments say and the code does not do: TLC finds each of these  *)
(* violated; the README tells how.                                          *)

(* The races LockedFS is there to prevent do not happen, over OverlayFS,   *)
(* which answers stat twice: "We wrap these objects in a LockedFS to       *)
(* prevent races" (OverlayFS.ts).                                          *)
RacesPrevented == \A c, d \in inside : c = d
=============================================================================
