------------------------------ MODULE OverlayFS ------------------------------
(***************************************************************************)
(* OverlayFS (src/src/backend/OverlayFS.ts) by its synchronous methods: a  *)
(* read-only file system, a writable one over it, and the log of what was  *)
(* deleted.  Both file systems are external, and trees.  A method is a     *)
(* list of steps, each at most one change of the writable file system, so  *)
(* that the tab may go away, or the writable file system fail, between any *)
(* two.  A call made inside a method is a step that puts its own steps in  *)
(* its place.                                                              *)
(***************************************************************************)
EXTENDS DeletionLog

CONSTANT Readables   \* the trees that the readable file system may hold

(* A file system of finitely many files, each in a directory *)
ASSUME ReadablesAssumption ==
  \A t \in Readables :
    /\ t \in Trees /\ IsDirAt(t, <<>>) /\ IsFiniteSet({p \in Paths : t[p] # Absent})
    /\ \A p \in Paths \ {<<>>} : t[p] # Absent => IsDirAt(t, Parent(p))

VARIABLES
  readable,   \* _readable, which never changes
  writable,   \* _writable
  todo,       \* what the call under way has yet to do
  call,       \* the call under way, the tree before it, and after it if it can be done
  answer,     \* "none" while it runs, "returned", "threw"; "failed" if the store did
  careful     \* history: no call of those that OverlayFS gets wrong, nor a lost log

ovVars == <<readable, writable, todo, call, answer, careful>>
vars == <<logVars, ovVars>>

----------------------------------------------------------------------------
(* What the two layers show together. *)

Shown(w, deleted) ==
  [p \in Paths |-> IF w[p] # Absent THEN w[p]
                   ELSE IF p \in deleted THEN Absent ELSE readable[p]]
View == Shown(writable, DeletedFiles)

InWritable(p) == writable[p] # Absent
InReadable(p) == readable[p] # Absent

Children(t, p) == IF IsDirAt(t, p) THEN {q \in Paths : q # <<>> /\ Front(q) = p /\ t[q] # Absent}
                  ELSE {}
(* readdirSync: in the root the log is looked up as "//name", and not found. *)
Listing(p) ==
  Children(writable, p) \union (Children(readable, p) \ IF p = <<>> THEN {} ELSE DeletedFiles)

(* The ancestors of p below the last that the writable file system has *)
MissingParents(p) ==
  LET there == Max({i \in 0 .. Len(Parent(p)) : InWritable(SubSeq(p, 1, i))})
  IN [i \in 1 .. Len(Parent(p)) - there |-> SubSeq(p, 1, there + i)]

----------------------------------------------------------------------------
(* Steps *)

Step(do, p) == [do |-> do, p |-> p, new |-> p, bytes |-> Empty]
StepTo(do, p, new) == [Step(do, p) EXCEPT !.new = new]
StepWith(do, p, c) == [Step(do, p) EXCEPT !.bytes = c]

Running == todo # <<>>
step == Head(todo)

Continue(steps) ==
  /\ todo' = steps \o Tail(todo)
  /\ answer' = IF todo' = <<>> THEN "returned" ELSE answer
  /\ UNCHANGED <<readable, call, careful>>
(* Mutant: the error is noted, and the steps stay. *)
LeaveUnfinished(how) ==
  /\ answer' = how
  /\ UNCHANGED <<todo, readable, call, careful>>
Leave(how) ==
  /\ todo' = <<>> /\ answer' = how
  /\ UNCHANGED <<readable, call, careful>>

Goto(steps) == Continue(steps) /\ UNCHANGED <<writable, logVars>>
Throw == Leave("threw") /\ UNCHANGED <<writable, logVars>>

(* The methods of the writable file system *)
CanDo(s) ==
  \/ s.do = "_writable.mkdirSync" /\ CanCreate(writable, s.p)
  \/ s.do = "_writable.rmdirSync" /\ CanRmdir(writable, s.p)
  \/ s.do = "_writable.unlinkSync" /\ CanUnlink(writable, s.p)
  \/ s.do = "_writable.renameSync" /\ CanRename(writable, s.p, s.new)
  \/ s.do = "_writable.openSync" /\ (CanCreate(writable, s.p) \/ IsFileAt(writable, s.p))
  \/ s.do = "_writable.write" /\ IsFileAt(writable, s.p)
Done(s) ==
  CASE s.do = "_writable.mkdirSync" -> With(writable, s.p, Dir)
    [] s.do \in {"_writable.rmdirSync", "_writable.unlinkSync"} -> With(writable, s.p, Absent)
    [] s.do = "_writable.renameSync" -> Renamed(writable, s.p, s.new)
    [] s.do \in {"_writable.openSync", "_writable.write"} -> With(writable, s.p, File(s.bytes))
OnWritable == {"_writable.mkdirSync", "_writable.rmdirSync", "_writable.unlinkSync",
               "_writable.renameSync", "_writable.openSync", "_writable.write"}

DoWritable ==
  /\ step.do \in OnWritable
  /\ IF CanDo(step)
     THEN writable' = Done(step) /\ Continue(<<>>) /\ UNCHANGED logVars
     ELSE Throw

CreateParents(p) ==
  LET missing == MissingParents(p)
  IN [i \in 1 .. Len(missing) |-> Step("createParentDirectory", missing[i])]

Open(p) == CreateParents(p) \o <<Step("_writable.openSync", p)>>

----------------------------------------------------------------------------
(* The methods, and the parts of them after a call that changes something. *)

CreateParentDirectory ==
  /\ step.do = "createParentDirectory"
  /\ IF View[step.p] = Absent THEN Throw ELSE Goto(<<Step("_writable.mkdirSync", step.p)>>)

MkdirSync ==
  /\ step.do = "mkdirSync"
  /\ IF View[step.p] # Absent THEN Throw
     ELSE Goto(CreateParents(step.p) \o <<Step("_writable.mkdirSync", step.p)>>)

(* writeFileSync with "w", which openSync passes to the writable file system *)
WriteFileSync ==
  /\ step.do = "writeFileSync"
  /\ Goto(Open(step.p) \o <<StepWith("_writable.write", step.p, step.bytes)>>)

(* truncateSync, an open with "r+": a file of the readable file system is
   copied when it is closed. *)
TruncateSync ==
  /\ step.do = "truncateSync"
  /\ \/ InWritable(step.p) /\ Goto(<<StepWith("_writable.write", step.p, step.bytes)>>)
     \/ /\ ~ InWritable(step.p) /\ IsFileAt(View, step.p)
        /\ Goto(Open(step.p) \o <<StepWith("_writable.write", step.p, step.bytes)>>)
     \/ ~ InWritable(step.p) /\ ~ IsFileAt(View, step.p) /\ Throw

(* Mutant: nothing is logged for a file that the writable file system had. *)
UnlinkSyncUnlogged ==
  /\ step.do = "unlinkSync"
  /\ IF View[step.p] = Absent THEN Throw
     ELSE Goto(IF InWritable(step.p) THEN <<Step("_writable.unlinkSync", step.p)>>
               ELSE <<Step("deletePath", step.p)>>)
UnlinkSync ==
  /\ step.do = "unlinkSync"
  /\ IF View[step.p] = Absent THEN Throw
     ELSE Goto((IF InWritable(step.p) THEN <<Step("_writable.unlinkSync", step.p)>> ELSE <<>>)
               \o <<Step("deleteIfExists", step.p)>>)

DeleteIfExists ==
  /\ step.do = "deleteIfExists"
  /\ Goto(IF View[step.p] = Absent THEN <<>> ELSE <<Step("deletePath", step.p)>>)

(* Mutant: the directory is deleted instead. *)
DeleteParent ==
  /\ step.do = "deletePath"
  /\ DeletePath(Parent(step.p))
  /\ Continue(<<>>) /\ UNCHANGED writable
Delete ==
  /\ step.do = "deletePath"
  /\ DeletePath(step.p)
  /\ Continue(<<>>) /\ UNCHANGED writable

RmdirSync ==
  /\ step.do = "rmdirSync"
  /\ IF View[step.p] = Absent THEN Throw
     ELSE Goto((IF InWritable(step.p) THEN <<Step("_writable.rmdirSync", step.p)>> ELSE <<>>)
               \o <<Step("deleteIfEmpty", step.p)>>)

(* Mutant: what the writable file system had empty is deleted unseen. *)
DeleteUnseen ==
  /\ step.do = "deleteIfEmpty"
  /\ Goto(IF View[step.p] = Absent THEN <<>> ELSE <<Step("deletePath", step.p)>>)
DeleteIfEmpty ==
  /\ step.do = "deleteIfEmpty"
  /\ \/ View[step.p] = Absent /\ Goto(<<>>)
     \/ IsDirAt(View, step.p) /\ Listing(step.p) = {} /\ Goto(<<Step("deletePath", step.p)>>)
     \/ /\ View[step.p] # Absent /\ ~ (IsDirAt(View, step.p) /\ Listing(step.p) = {})
        /\ Throw

(* renameSync of a file: a copy and an unlink *)
RenameFileSync ==
  /\ step.do = "renameSync" /\ IsFileAt(View, step.p)
  /\ IF IsDirAt(View, step.new) THEN Throw
     ELSE Goto(<<StepWith("writeFileSync", step.new, View[step.p].bytes),
                 StepTo("unlinkOld", step.p, step.new)>>)

(* renameSync of a directory: the writable part moves, and what is readable
   is renamed one by one. *)
RenameDirSync ==
  /\ step.do = "renameSync" /\ IsDirAt(View, step.p)
  /\ LET old == step.p
         new == step.new
         free == View[new] = Absent \/ (IsDirAt(View, new) /\ Listing(new) = {})
         inWritable ==
           CASE InWritable(old) -> <<StepTo("_writable.renameSync", old, new)>>
             [] ~ InWritable(old) /\ ~ InWritable(new) -> <<Step("_writable.mkdirSync", new)>>
             [] OTHER -> <<>>
     IN \/ old = new /\ Goto(<<>>)
        \/ old # new /\ ~ free /\ Throw
        \/ /\ old # new /\ free
           /\ Goto(inWritable \o <<StepTo("renameChildren", old, new), StepTo("unlinkOld", old, new)>>)

RenameChildren ==
  /\ step.do = "renameChildren"
  /\ \/ ~ InReadable(step.p) /\ Goto(<<>>)
     \/ IsFileAt(readable, step.p) /\ Throw
     \/ /\ IsDirAt(readable, step.p)
        /\ \E names \in SetToSeqs(Children(readable, step.p)) :
             Goto([i \in DOMAIN names |->
                     StepTo("renameSync", names[i], Append(step.new, Last(names[i])))])

RenameNothing ==
  /\ step.do = "renameSync" /\ View[step.p] = Absent
  /\ Throw

UnlinkOld ==
  /\ step.do = "unlinkOld"
  /\ Goto(IF step.p # step.new /\ View[step.p] # Absent
          THEN <<Step("unlinkSync", step.p)>> ELSE <<>>)

(* chmodSync, chownSync, utimesSync: a copy to the writable file system *)
OperateOnWritable ==
  /\ step.do = "chmodSync"
  /\ \/ View[step.p] = Absent /\ Throw
     \/ InWritable(step.p) /\ Goto(<<>>)
     \/ /\ ~ InWritable(step.p)
        /\ IsDirAt(View, step.p) /\ Goto(<<Step("_writable.mkdirSync", step.p)>>)
     \/ /\ ~ InWritable(step.p)
        /\ IsFileAt(View, step.p) /\ Goto(<<StepWith("writeFileSync", step.p, readable[step.p].bytes)>>)

----------------------------------------------------------------------------
(* checkInitialized: a method called while there is an error of the log *)
Methods == {"mkdirSync", "writeFileSync", "truncateSync", "unlinkSync", "rmdirSync",
            "renameSync", "chmodSync"}
Checking == Methods \union {"createParentDirectory", "deleteIfExists", "deleteIfEmpty", "unlinkOld"}

CheckInitialized ==
  /\ step.do \in Checking /\ deleteLogError
  /\ ReportLogError
  /\ Leave("failed") /\ UNCHANGED writable

(* A writable file system that has synchronous methods writes the log before
   writeFile returns, so that no step is made meanwhile. *)
Run ==
  /\ Running /\ ~ updatePending
  /\ \/ CheckInitialized
     \/ /\ ~ (step.do \in Checking /\ deleteLogError)
        /\ \/ DoWritable \/ CreateParentDirectory
           \/ MkdirSync \/ WriteFileSync \/ TruncateSync \/ OperateOnWritable
           \/ UnlinkSync \/ DeleteIfExists \/ Delete
           \/ RmdirSync \/ DeleteIfEmpty
           \/ RenameFileSync \/ RenameDirSync \/ RenameChildren \/ RenameNothing \/ UnlinkOld

(* The writable file system throws. *)
Fail ==
  /\ Running /\ ~ updatePending
  /\ step.do \in OnWritable
  /\ Leave("failed") /\ UNCHANGED <<writable, logVars>>

----------------------------------------------------------------------------
(* Calls, what they promise, and which of them go wrong. *)

CanReplace(t, old, new) ==
  /\ IsFileAt(t, old) => t[new] = Absent \/ IsFileAt(t, new)
  /\ IsDirAt(t, old) => t[new] = Absent \/ (IsDirAt(t, new) /\ Children(t, new) = {})
Promised(s, t) ==
  CASE s.do = "mkdirSync" /\ CanCreate(t, s.p) -> With(t, s.p, Dir)
    [] s.do = "writeFileSync" /\ (CanCreate(t, s.p) \/ IsFileAt(t, s.p)) -> With(t, s.p, File(s.bytes))
    [] s.do = "truncateSync" /\ IsFileAt(t, s.p) -> With(t, s.p, File(s.bytes))
    [] s.do = "unlinkSync" /\ CanUnlink(t, s.p) -> With(t, s.p, Absent)
    [] s.do = "rmdirSync" /\ CanRmdir(t, s.p) -> With(t, s.p, Absent)
    [] /\ s.do = "renameSync" /\ CanReplace(t, s.p, s.new)
       /\ CanRename(With(t, s.new, Absent), s.p, s.new) -> Renamed(t, s.p, s.new)
    [] OTHER -> t

(* The layers differ in what they hold below p. *)
Mixed(p) ==
  \E q \in Below(p) : InReadable(q) /\ (InWritable(q) \/ q \in DeletedFiles)
OnlyReadable(p) == ~ InWritable(p) /\ View[p] # Absent
Careful(s) ==
  /\ s.do \in {"unlinkSync", "writeFileSync"} => ~ (OnlyReadable(s.p) /\ IsDirAt(View, s.p))
  /\ s.do \in {"mkdirSync", "writeFileSync", "renameSync"} =>
       \A q \in Paths : IsStrictPrefix(q, s.new) => ~ (OnlyReadable(q) /\ IsFileAt(View, q))
  /\ s.do = "renameSync" /\ IsDirAt(View, s.p) => ~ Mixed(s.p) /\ ~ IsFileAt(readable, s.p)

Idle == [step |-> Step("chmodSync", <<>>), before |-> EmptyTree, after |-> EmptyTree]

Call(s) ==
  /\ todo' = <<s>>
  /\ call' = [step |-> s, before |-> View, after |-> Promised(s, View)]
  /\ answer' = "none"
  /\ careful' = (careful /\ Careful(s))
  /\ UNCHANGED <<readable, writable, logVars>>

Return ==
  /\ call # Idle /\ ~ Running /\ ~ updatePending
  /\ call' = Idle /\ answer' = "none"
  /\ UNCHANGED <<readable, writable, todo, careful, logVars>>

(* The tab goes away.  _initialize finds both file systems as they were. *)
Restart ==
  /\ ReadLogFile
  /\ todo' = <<>> /\ call' = Idle /\ answer' = "none"
  /\ careful' = (careful /\ logFile = deleteLog)
  /\ UNCHANGED <<readable, writable>>

LogWrite == LogWrites /\ UNCHANGED ovVars

Init ==
  /\ LogInit
  /\ readable \in Readables /\ writable = EmptyTree
  /\ todo = <<>> /\ call = Idle /\ answer = "none" /\ careful = TRUE

(* Bounds: what is below old has a path below new; nothing is written that
   a file has already when it is new. *)
Fits(old, new) ==
  \A q \in Below(old) : View[q] # Absent \/ InReadable(q) => new \o SubSeq(q, Len(old) + 1, Len(q)) \in Paths

(* Bound: after a call that OverlayFS gets wrong there is no other. *)
Calls ==
  /\ call = Idle /\ careful
  /\ \E p \in Paths :
       \/ \E do \in {"mkdirSync", "unlinkSync", "rmdirSync", "chmodSync"} : Call(Step(do, p))
       \/ \E do \in {"writeFileSync", "truncateSync"}, c \in Contents \ {Empty} :
            Call(StepWith(do, p, c))
       \/ \E new \in Paths : Fits(p, new) /\ Call(StepTo("renameSync", p, new))

Next == Calls \/ Run \/ Return \/ Fail \/ LogWrite \/ Restart

Spec == Init /\ [][Next]_vars

(* A synchronous method runs to its end; so does a write of the log. *)
FairSpec == Spec /\ WF_vars(Run \/ Fail) /\ WF_vars(LogWrite)

----------------------------------------------------------------------------
Steps == [do : Checking \union OnWritable \union {"renameChildren", "deletePath"},
          p : Paths, new : Paths, bytes : Contents]
TypeOK ==
  /\ LogTypeOK
  /\ {readable, writable, call.before, call.after} \subseteq Trees
  /\ todo \in Seq(Steps)
  /\ answer \in {"none", "returned", "threw", "failed"}
  /\ careful \in BOOLEAN

(* A call that returns did what it promises, and one that throws, other    *)
(* than for a failing store, nothing, except the calls of Careful.         *)
AllOrNothing ==
  careful => /\ answer = "returned" => View = call.after
             /\ answer = "threw" => View = call.before

(* At every moment, and so after a crash or a failure anywhere, everything  *)
(* shown is in a directory that is shown: the order of the steps and of the *)
(* log sees to it.                                                          *)
StaysTree ==
  careful => \A p \in Paths \ {<<>>} : View[p] # Absent => IsDirAt(View, Front(p))

(* A call concerns its own paths, also if it does not get to its end.       *)
Touched(p) == IsPrefix(call.step.p, p) \/ IsPrefix(call.step.new, p)
OthersUntouched ==
  careful /\ call # Idle => \A p \in Paths : Touched(p) \/ View[p] = call.before[p]

(* Every call ends, renameSync's recursion with it.                         *)
EveryCallReturns == Running ~> ~ Running

----------------------------------------------------------------------------
(* What the comments say and the code does not do.                          *)

(* "Take care of writable first. Move any files there": a directory's files *)
(* move with it, as they are.                                               *)
RenameMovesFiles ==
  LET old == call.step.p
      new == call.step.new
  IN answer = "returned" /\ call.step.do = "renameSync" /\ old # new =>
       \A q \in Below(old) : IsFileAt(call.before, q) =>
         View[new \o SubSeq(q, Len(old) + 1, Len(q))] = call.before[q]

(* "check delete log on RO file system's listing, merge, return"            *)
ListingsShow == \A p \in Paths : IsDirAt(View, p) => Listing(p) = Children(View, p)

(* "Deletes are persisted via metadata stored on the writable file system." *)
(* A restart forgets at most the deletion being written.                    *)
DeletesPersist ==
  [][Restart /\ ~ behind => Len(logFile) >= Len(deleteLog) - 1]_vars
=============================================================================
