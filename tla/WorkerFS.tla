------------------------------ MODULE WorkerFS ------------------------------
(***************************************************************************)
(* WorkerFS (src/src/backend/WorkerFS.ts): the file system of another      *)
(* thread, the host, by messages.  A call is a request that carries the id *)
(* of its callback; a file that is opened is a File on the host, with a    *)
(* descriptor of the converter's, and a WorkerFile with a copy of what is  *)
(* in it, which travels back whole with every sync.  Messages are neither  *)
(* lost nor reordered; the host's file system answers when it likes, or    *)
(* fails.  There is one file name, in a directory that stays.              *)
(***************************************************************************)
EXTENDS PreloadFile, FiniteSets

CONSTANTS
  Flags,     \* bound: the flags of open
  Chunks,    \* bound: what is written at a time
  Lengths,   \* bound: what is truncated to
  MaxFiles,  \* bound: descriptors ever given
  MaxCalls,  \* bound: calls that wait at a time
  MaxSize    \* bound: what files grow to

ASSUME WorkerAssumption ==
  /\ Flags \subseteq FlagStrs \ Synchronous
  /\ Chunks \subseteq Seq(Bytes) /\ Lengths \subseteq Nat
  /\ MaxFiles \in Nat /\ MaxCalls \in Nat /\ MaxSize \in Nat

VARIABLES
  initialized, \* the worker's _isInitialized: the probe was answered
  callbacks,   \* the worker's _callbacks, by id: what they are for
  files,       \* its WorkerFiles, by the descriptor on the host
  opened,      \* those that are open
  toHost,      \* requests that were posted
  toWorker,    \* responses
  remote,      \* the host's _fileDescriptors
  nextFd,      \* its _nextId
  jobs,        \* what its file system was asked and has not answered
  store,       \* the node of the file, as it is stored
  lost,        \* callbacks that nothing will call: the host's listener threw
  current,     \* history: whose copies are of what is stored
  overtaken,   \* history: files that were changed while they were synced
  ended        \* history: files that a close was sent for

worker == <<initialized, callbacks, files, opened>>
host == <<remote, nextFd, jobs, store, lost>>
history == <<current, overtaken, ended>>
vars == <<worker, toHost, toWorker, host, history>>

Descriptors == 0 .. MaxFiles - 1
Missing == [data |-> <<>>, size |-> -1]
EmptyNode == [data |-> <<>>, size |-> 0]
NoFile == NewFile("", "r", EmptyNode)
Nobody == MaxFiles

----------------------------------------------------------------------------
(* Messages.  Buffers, flags and errors are copied, each as a "special
   argument"; of an error it matters only that it is one. *)

Request(method, cb) ==
  [method |-> method, cb |-> cb, fd |-> Nobody, flag |-> "r", data |-> <<>>, size |-> 0]
Response(cb, err) ==
  [cb |-> cb, err |-> err, fd |-> Nobody, flag |-> "r", data |-> <<>>, size |-> 0]

(* CallbackArgumentConverter.  Its ids count up; here they are given again,
   but never while one waits. *)
Waiting == DOMAIN callbacks
FreshId == CHOOSE id \in 0 .. MaxCalls : id \notin Waiting
Awaits(cb, method, fd) ==
  callbacks' = [i \in Waiting \union {cb} |->
                  IF i = cb THEN [method |-> method, fd |-> fd] ELSE callbacks[i]]
(* mutant: toLocalArg leaves it in the table *)
CallsAgain(cb) == callbacks' = callbacks
Forgets(cb) == callbacks' = [i \in Waiting \ {cb} |-> callbacks[i]]

Posts(request, fd) ==
  /\ Cardinality(Waiting) < MaxCalls
  /\ Awaits(request.cb, request.method, fd)
  /\ toHost' = Append(toHost, request)

----------------------------------------------------------------------------
(* The worker. *)

Open(flag) ==
  /\ Posts([Request("open", FreshId) EXCEPT !.flag = flag], Nobody)
  /\ UNCHANGED <<initialized, files, opened, toWorker, host, history>>

(* _rpc: of the methods of the file system that are not about a descriptor,
   unlink, which takes away what is open. *)
Rpc(method) ==
  /\ Posts(Request(method, FreshId), Nobody)
  /\ UNCHANGED <<initialized, files, opened, toWorker, host, history>>

(* write and ftruncate *)
SyncsOf(fd) == {i \in Waiting : callbacks[i].fd = fd}
Changes(fd, f) ==
  /\ files' = [files EXCEPT ![fd] = f]
  /\ overtaken' = IF SyncsOf(fd) = {} THEN overtaken ELSE overtaken \union {fd}
  /\ UNCHANGED <<initialized, callbacks, opened, toHost, toWorker, host, current, ended>>
Write(fd, bytes) ==
  /\ fd \in opened /\ GetPos(files[fd]) + Len(bytes) <= MaxSize
  /\ Changes(fd, WriteSync(files[fd], bytes, GetPos(files[fd])))
Truncate(fd, len) == fd \in opened /\ Changes(fd, TruncateSync(files[fd], len))

(* _syncClose: the whole buffer is sent.  A file that is not dirty is closed
   here only, and the host keeps its descriptor. *)
SyncClose(method, fd) ==
  /\ fd \in opened
  /\ LET f == files[fd]
     IN IF f.dirty
        THEN /\ Posts([Request(method, FreshId)
                         EXCEPT !.fd = fd, !.flag = f.flag, !.data = f.buffer, !.size = f.size], fd)
             /\ ended' = IF method = "close" THEN ended \union {fd} ELSE ended
             /\ overtaken' = IF SyncsOf(fd) = {} THEN overtaken \ {fd} ELSE overtaken
             /\ UNCHANGED <<files, opened>>
        ELSE /\ opened' = IF method = "close" THEN opened \ {fd} ELSE opened
             /\ files' = IF method = "close" THEN [files EXCEPT ![fd] = NoFile] ELSE files
             /\ UNCHANGED <<callbacks, toHost, overtaken, ended>>
  /\ UNCHANGED <<initialized, toWorker, host, current>>

(* The file that _argRemote2Local makes of what a response says of one. *)
LocalFile(r) == NewFile("file", r.flag, [data |-> r.data, size |-> r.size])

(* A response calls the callback back. *)
Receive ==
  /\ toWorker # <<>>
  /\ LET r == Head(toWorker)
         call == callbacks[r.cb]
         done == ~ r.err
     IN /\ Forgets(r.cb)
        /\ initialized' = (initialized \/ call.method = "probe")
        /\ files' =
             CASE done /\ call.method = "open" ->
                    [files EXCEPT ![r.fd] = LocalFile(r)]
               [] done /\ call.method = "sync" -> [files EXCEPT ![call.fd].dirty = FALSE]
               [] done /\ call.method = "close" -> [files EXCEPT ![call.fd] = NoFile]
               [] OTHER -> files
        /\ opened' =
             CASE done /\ call.method = "open" -> opened \union {r.fd}
               [] done /\ call.method = "close" -> opened \ {call.fd}
               [] OTHER -> opened
        /\ overtaken' = overtaken \intersect opened'
        /\ current' = IF call.method = "close" THEN current \ {call.fd} ELSE current
  /\ toWorker' = Tail(toWorker)
  /\ UNCHANGED <<toHost, host, ended>>

----------------------------------------------------------------------------
(* The host. *)

Answers(job, r) ==
  /\ toWorker' = Append(toWorker, r)
  /\ jobs' = jobs \ {job}

(* _applyFdChanges: "Replace entire contents of file", and then its length;
   of a file opened to append, "Write to end of file", the whole buffer. *)
(* mutant: without the length *)
WrittenOver(f, data) ==
  IF f.flag \in Appendable THEN WriteSync(f, data, GetPos(f))
  ELSE IF f.flag \in Writeable THEN WriteSync(f, data, 0) ELSE f
Applied(f, data) ==
  IF f.flag \in Appendable THEN WriteSync(f, data, GetPos(f))
  ELSE IF f.flag \in Writeable THEN TruncateSync(WriteSync(f, data, 0), Len(data))
  ELSE f

(* The listener.  The probe is answered at once; of a descriptor the buffer is
   written first, and the File takes it to be stored: what is asked of a
   descriptor that is gone throws.  All else is a call of the root. *)
Handle ==
  /\ toHost # <<>> /\ toHost' = Tail(toHost)
  /\ LET r == Head(toHost)
     IN \/ /\ r.method = "probe"
           /\ toWorker' = Append(toWorker, Response(r.cb, FALSE))
           /\ UNCHANGED <<remote, jobs, lost>>
        \/ /\ r.method # "probe" /\ r.fd = Nobody
           /\ jobs' = jobs \union {r}
           /\ UNCHANGED <<remote, lost, toWorker>>
        \/ /\ r.fd \in DOMAIN remote
           /\ LET f == Applied(remote[r.fd], r.data)
              IN /\ remote' = [remote EXCEPT ![r.fd] = f]
                 /\ jobs' = jobs \union {[r EXCEPT !.data = f.buffer, !.size = f.size]}
           /\ UNCHANGED <<lost, toWorker>>
        \/ /\ r.fd # Nobody /\ r.fd \notin DOMAIN remote
           /\ lost' = lost \union {r.cb}
           /\ UNCHANGED <<remote, jobs, toWorker>>
  /\ UNCHANGED <<worker, nextFd, store, history>>

(* open, and FileDescriptorArgumentConverter.toRemoteArg.  A file that cannot
   be read is sent without what is in it. *)
Given(f) == IF f.flag \in Readable THEN f.buffer ELSE <<>>
(* Bound: descriptors. *)
HostOpens(job) ==
  LET anew == store = Missing \/ job.flag \in Truncating
      node == IF anew THEN EmptyNode ELSE store
      f == NewFile("file", job.flag, node)
  IN /\ job.method = "open" /\ nextFd < MaxFiles
     /\ IF store = Missing THEN job.flag \in Creating ELSE job.flag \notin Exclusive
     /\ store' = node
     /\ remote' = [i \in DOMAIN remote \union {nextFd} |-> IF i = nextFd THEN f ELSE remote[i]]
     /\ nextFd' = nextFd + 1
     /\ current' = (IF anew THEN {} ELSE current) \union {nextFd}
     /\ Answers(job, [Response(job.cb, FALSE)
                        EXCEPT !.fd = nextFd, !.flag = job.flag, !.data = Given(f), !.size = f.size])

(* A close forgets the descriptor, also when it failed. *)
(* mutant: a sync too *)
ForgottenBySync(job) == [i \in DOMAIN remote \ {job.fd} |-> remote[i]]
AfterJob(job) ==
  [i \in DOMAIN remote \ (IF job.method = "close" THEN {job.fd} ELSE {}) |-> remote[i]]

(* sync or close of the File.  It stores its buffer as it was, or as the next
   request has changed it since. *)
HostSyncs(job) ==
  /\ job.method \in {"sync", "close"}
  /\ IF job.flag \in Writeable
     THEN /\ store # Missing
          /\ store' \in {[data |-> job.data, size |-> job.size]}
                         \union {NodeOf(remote[fd]) : fd \in {job.fd} \intersect DOMAIN remote}
          /\ current' = {job.fd} \intersect opened
     ELSE UNCHANGED <<store, current>>
  /\ remote' = AfterJob(job)
  /\ Answers(job, Response(job.cb, FALSE))
  /\ UNCHANGED nextFd

HostDoes(job) ==
  /\ job.method = "unlink" /\ store # Missing
  /\ store' = Missing
  /\ current' = {}
  /\ Answers(job, Response(job.cb, FALSE))
  /\ UNCHANGED <<remote, nextFd>>

(* Whatever goes wrong. *)
HostFails(job) ==
  /\ remote' = AfterJob(job)
  /\ Answers(job, Response(job.cb, TRUE))
  /\ UNCHANGED <<nextFd, store, current>>

Finish(job) ==
  /\ HostOpens(job) \/ HostSyncs(job) \/ HostDoes(job) \/ HostFails(job)
  /\ UNCHANGED <<worker, toHost, lost, overtaken, ended>>

----------------------------------------------------------------------------
(* _initialize: the probe is sent, and its answer makes the file system known. *)
Init ==
  /\ initialized = FALSE
  /\ callbacks = [i \in {0} |-> [method |-> "probe", fd |-> Nobody]]
  /\ toHost = <<Request("probe", 0)>> /\ toWorker = <<>>
  /\ files = [fd \in Descriptors |-> NoFile] /\ opened = {}
  /\ remote = [i \in {} |-> NoFile] /\ nextFd = 0 /\ jobs = {} /\ lost = {}
  /\ store \in {Missing, [data |-> <<Zero>>, size |-> 1]}
  /\ current = {} /\ overtaken = {} /\ ended = {}

Calls ==
  \/ \E flag \in Flags : Open(flag)
  \/ Rpc("unlink")
  \/ \E fd \in opened :
       \/ \E bytes \in Chunks : Write(fd, bytes)
       \/ \E len \in Lengths : Truncate(fd, len)
       \/ SyncClose("sync", fd) \/ SyncClose("close", fd)

Next == (initialized /\ Calls) \/ Receive \/ Handle \/ \E job \in jobs : Finish(job)

Spec == Init /\ [][Next]_vars

----------------------------------------------------------------------------
(* Every callback that waits is known to one message or one job, and they    *)
(* know of no other: none is called twice, nor with the answer to another.   *)
Ids(seq) == {seq[i].cb : i \in DOMAIN seq}
OneAnswerEach ==
  /\ Waiting = Ids(toHost) \union {job.cb : job \in jobs} \union Ids(toWorker) \union lost
  /\ Cardinality(Waiting) = Len(toHost) + Cardinality(jobs) + Len(toWorker) + Cardinality(lost)

(* A file that is open in the worker is open on the host as well, until a    *)
(* close of it was sent: what the host is asked of a descriptor it can do.   *)
OpenOnBothSides ==
  /\ opened \union DOMAIN remote \subseteq 0 .. nextFd - 1
  /\ opened \subseteq DOMAIN remote \union ended
  /\ \A i \in lost : callbacks[i].fd \in ended

(* A file that was synced, and is not dirty, is stored as the worker has it,  *)
(* if it was not changed meanwhile and no other has stored it since.  Not so  *)
(* a file that was opened to append.                                         *)
SyncedIsStored ==
  \A fd \in opened \ overtaken :
    ~ files[fd].dirty /\ fd \in current /\ files[fd].flag \notin Appendable
      => store = NodeOf(files[fd])
=============================================================================
