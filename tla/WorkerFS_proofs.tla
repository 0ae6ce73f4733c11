--------------------------- MODULE WorkerFS_proofs ---------------------------
(* Whatever files, flags and bounds there are: each callback of the worker    *)
(* is known to one message or job, and what the host is asked of a            *)
(* descriptor it has, unless it was closed.                                   *)
EXTENDS WorkerFS, SequenceTheorems, FiniteSetTheorems, TLAPS

----------------------------------------------------------------------------
(* The inductive invariant. *)

Members(seq) == {seq[i] : i \in DOMAIN seq}
IsQueue(seq) ==
  /\ seq \in Seq(Members(seq))
  /\ \A i, j \in DOMAIN seq : seq[i].cb = seq[j].cb => i = j
JobIds == {job.cb : job \in jobs}

(* No id is in two places. *)
IdsInv ==
  /\ IsQueue(toHost) /\ IsQueue(toWorker)
  /\ \A a, b \in jobs : a.cb = b.cb => a = b
  /\ Ids(toHost) \intersect JobIds = {} /\ Ids(toHost) \intersect Ids(toWorker) = {}
  /\ Ids(toHost) \intersect lost = {} /\ JobIds \intersect Ids(toWorker) = {}
  /\ JobIds \intersect lost = {} /\ Ids(toWorker) \intersect lost = {}
  /\ Waiting = Ids(toHost) \union JobIds \union Ids(toWorker) \union lost
  /\ Waiting \subseteq 0 .. MaxCalls
  /\ IsFiniteSet(jobs) /\ IsFiniteSet(lost)

(* The worker knows by the id what was asked; a close was told. *)
Known(r) ==
  /\ {"method", "cb", "fd"} \subseteq DOMAIN r
  /\ callbacks[r.cb] = [method |-> r.method, fd |-> r.fd]
  /\ r.method = "close" => r.fd \in ended
Alive == DOMAIN remote \union ended
KnownInv ==
  /\ \A r \in Members(toHost) : Known(r) /\ (r.fd # Nobody => r.fd \in Alive)
  /\ \A job \in jobs : Known(job)
  /\ \A r \in Members(toWorker) :
       ~ r.err /\ callbacks[r.cb].method = "open" => r.fd \in 0 .. nextFd - 1 /\ r.fd \in Alive

Inv == IdsInv /\ KnownInv /\ OpenOnBothSides /\ nextFd \in Nat

----------------------------------------------------------------------------
(* A queue with a message of a new id at its end, and without its first. *)
LEMMA Appended ==
  ASSUME NEW s, IsQueue(s), NEW x, x.cb \notin Ids(s)
  PROVE  /\ IsQueue(Append(s, x))
         /\ Members(Append(s, x)) = Members(s) \union {x}
         /\ Ids(Append(s, x)) = Ids(s) \union {x.cb}
<1> DEFINE t == Append(s, x)
           S == Members(s) \union {x}
<1>1. s \in Seq(S) /\ x \in S
  BY DEF IsQueue
<1>2. /\ t \in Seq(S) /\ Len(s) \in Nat /\ DOMAIN s = 1 .. Len(s) /\ DOMAIN t = 1 .. Len(s) + 1
      /\ \A i \in 1 .. Len(s) : t[i] = s[i]
      /\ t[Len(s) + 1] = x
  BY <1>1
<1>3. Members(t) = S
  BY <1>2 DEF Members
<1>4. Ids(t) = Ids(s) \union {x.cb}
  BY <1>2 DEF Ids
<1>5. \A i, j \in DOMAIN t : t[i].cb = t[j].cb => i = j
  BY <1>2 DEF IsQueue, Ids
<1> QED
  BY <1>2, <1>3, <1>4, <1>5 DEF IsQueue

LEMMA Removed ==
  ASSUME NEW s, IsQueue(s), s # <<>>
  PROVE  /\ IsQueue(Tail(s))
         /\ Members(Tail(s)) \subseteq Members(s)
         /\ Head(s) \in Members(s) /\ Head(s).cb \in Ids(s)
         /\ Ids(Tail(s)) = Ids(s) \ {Head(s).cb}
<1> DEFINE t == Tail(s)
           S == Members(s)
<1>1. /\ t \in Seq(S) /\ Len(s) \in Nat /\ Len(s) > 0 /\ DOMAIN s = 1 .. Len(s)
      /\ DOMAIN t = 1 .. Len(s) - 1
      /\ \A i \in 1 .. Len(s) - 1 : t[i] = s[i + 1]
      /\ Head(s) = s[1]
  BY DEF IsQueue
<1>2. t \in Seq(Members(t))
  <2>1. \A i \in 2 .. Len(s) : s[i] = t[i - 1] /\ i - 1 \in DOMAIN t
    BY <1>1
  <2>2. \A i \in 2 .. Len(s) : s[i] \in Members(t)
    BY <2>1 DEF Members
  <2>3. t = SubSeq(s, 2, Len(s))
    BY <1>1, TailIsSubSeq DEF IsQueue
  <2> DEFINE M == Members(t)
  <2>4. /\ \A i \in 2 .. Len(s) : s[i] \in M
        /\ 2 \in Int /\ Len(s) \in Int
    BY <1>1, <2>2
  <2> HIDE DEF M
  <2>5. SubSeq(s, 2, Len(s)) \in Seq(M)
    BY <2>4, SubSeqProperties
  <2> QED
    BY <2>3, <2>5 DEF M
<1>3. Members(t) \subseteq S /\ Head(s) \in S /\ Head(s).cb \in Ids(s)
  BY <1>1 DEF Members, Ids
<1>4. \A i, j \in DOMAIN t : t[i].cb = t[j].cb => i = j
  BY <1>1 DEF IsQueue
<1>5. ASSUME NEW id
      PROVE  id \in Ids(t) <=> id \in Ids(s) /\ id # Head(s).cb
  <2>1. ASSUME NEW i \in DOMAIN t, t[i].cb = id
        PROVE  id \in Ids(s) /\ id # Head(s).cb
    BY <2>1, <1>1 DEF Ids, IsQueue
  <2>2. ASSUME NEW i \in DOMAIN s, s[i].cb = id, id # Head(s).cb
        PROVE  id \in Ids(t)
    <3>1. i # 1
      BY <2>2, <1>1
    <3>2. i - 1 \in 1 .. Len(s) - 1 /\ (i - 1) + 1 = i
      BY <3>1, <1>1
    <3>3. i - 1 \in DOMAIN t /\ t[i - 1] = s[i]
      BY <3>2, <1>1
    <3> QED
      BY <3>3, <2>2 DEF Ids
  <2> QED
    BY <2>1, <2>2 DEF Ids
<1> QED
  BY <1>2, <1>3, <1>4, <1>5 DEF IsQueue

(* An id for a callback is free when the worker may call. *)
LEMMA Free ==
  ASSUME Waiting \subseteq 0 .. MaxCalls, Cardinality(Waiting) < MaxCalls
  PROVE  FreshId \in 0 .. MaxCalls /\ FreshId \notin Waiting
<1>1. Cardinality(0 .. MaxCalls) = MaxCalls + 1 /\ MaxCalls \in Nat
  BY FS_Interval, WorkerAssumption
<1>2. Waiting # 0 .. MaxCalls
  BY <1>1
<1> QED
  BY <1>2 DEF FreshId

LEMMA HaveIds == \A s : \A r \in Members(s) : r.cb \in Ids(s)
BY DEF Members, Ids

----------------------------------------------------------------------------
(* A request of the worker's, with a new id. *)
LEMMA Posted ==
  ASSUME Inv, NEW request, NEW fd, Posts(request, fd),
         request.cb = FreshId, request.fd = fd, {"method", "cb", "fd"} \subseteq DOMAIN request,
         fd # Nobody => fd \in Alive,
         ended \subseteq ended', request.method = "close" => fd \in ended',
         UNCHANGED <<opened, toWorker, host>>
  PROVE  Inv'
<1> USE DEF Inv, host
<1>1. /\ FreshId \in 0 .. MaxCalls /\ FreshId \notin Waiting
      /\ toHost' = Append(toHost, request)
      /\ Waiting' = Waiting \union {FreshId}
      /\ \A i \in Waiting : callbacks'[i] = callbacks[i]
      /\ callbacks'[FreshId] = [method |-> request.method, fd |-> request.fd]
  BY Free DEF IdsInv, Posts, Awaits, Waiting
<1>2. /\ IsQueue(toHost') /\ Members(toHost') = Members(toHost) \union {request}
      /\ Ids(toHost') = Ids(toHost) \union {FreshId}
  BY <1>1, Appended DEF IdsInv
<1>3. UNCHANGED <<JobIds, Ids(toWorker), Members(toWorker), IsQueue(toWorker)>> /\ Alive \subseteq Alive'
  BY DEF JobIds, Alive
<1>4. IdsInv'
  BY <1>1, <1>2, <1>3 DEF IdsInv
<1>5. /\ \A r \in Members(toHost) \union jobs \union Members(toWorker) : r.cb \in Waiting
      /\ lost \subseteq Waiting
  BY HaveIds DEF IdsInv, JobIds
<1>6. Known(request)'
  BY <1>1 DEF Known
<1>7. KnownInv'
  BY <1>1, <1>2, <1>3, <1>5, <1>6 DEF KnownInv, Known, Alive
<1>8. OpenOnBothSides'
  BY <1>1, <1>5 DEF OpenOnBothSides
<1> QED
  BY <1>4, <1>7, <1>8

(* What changes neither messages nor descriptors, but that a file may be closed. *)
LEMMA Quiet ==
  ASSUME Inv, opened' \subseteq opened, UNCHANGED <<callbacks, toHost, toWorker, host, ended>>
  PROVE  Inv'
<1>1. /\ UNCHANGED <<Waiting, JobIds, Alive, Ids(toHost), Ids(toWorker)>>
      /\ UNCHANGED <<Members(toHost), Members(toWorker), IsQueue(toHost), IsQueue(toWorker)>>
  BY DEF Waiting, JobIds, Alive, host
<1>2. IdsInv'
  BY <1>1 DEF Inv, IdsInv, host
<1>3. KnownInv'
  BY <1>1 DEF Inv, KnownInv, Known, host
<1>4. OpenOnBothSides' /\ nextFd' \in Nat
  BY DEF Inv, OpenOnBothSides, host
<1> QED
  BY <1>2, <1>3, <1>4 DEF Inv

LEMMA CallsKeep ==
  ASSUME Inv, Calls
  PROVE  Inv'
<1> USE DEF worker, history
<1>1. ASSUME NEW flag \in Flags, Open(flag)
      PROVE  Inv'
  BY <1>1, Posted DEF Open, Request
<1>2. CASE Rpc("unlink")
  BY <1>2, Posted DEF Rpc, Request
<1>3. ASSUME NEW fd \in opened, NEW f, Changes(fd, f)
      PROVE  Inv'
  BY <1>3, Quiet DEF Changes
<1>4. ASSUME NEW fd \in opened, NEW method \in {"sync", "close"}, SyncClose(method, fd)
      PROVE  Inv'
  <2>1. fd \in Alive
    BY DEF Inv, OpenOnBothSides, Alive
  <2>2. CASE files[fd].dirty
    BY <1>4, <2>1, <2>2, Posted DEF SyncClose, Request
  <2>3. CASE ~ files[fd].dirty
    BY <1>4, <2>3, Quiet DEF SyncClose
  <2> QED
    BY <2>2, <2>3
<1> QED
  BY <1>1, <1>2, <1>3, <1>4 DEF Calls, Write, Truncate

----------------------------------------------------------------------------
(* A response: its id is nowhere else, and is forgotten. *)
LEMMA ReceiveKeeps ==
  ASSUME Inv, Receive
  PROVE  Inv'
<1> DEFINE r == Head(toWorker)
<1> USE DEF Inv, host
<1>1. /\ toWorker # <<>> /\ toWorker' = Tail(toWorker)
      /\ UNCHANGED <<toHost, remote, nextFd, jobs, lost, ended>>
      /\ Waiting' = Waiting \ {r.cb}
      /\ \A i \in Waiting' : callbacks'[i] = callbacks[i]
  BY DEF Receive, Forgets, Waiting
<1>2. /\ IsQueue(toWorker') /\ Members(toWorker') \subseteq Members(toWorker)
      /\ Ids(toWorker') = Ids(toWorker) \ {r.cb}
      /\ r \in Members(toWorker) /\ r.cb \in Ids(toWorker)
  BY <1>1, Removed DEF IdsInv
<1>3. UNCHANGED <<JobIds, Alive, Ids(toHost), Members(toHost), IsQueue(toHost)>>
  BY <1>1 DEF JobIds, Alive
<1>4. IdsInv'
  BY <1>1, <1>2, <1>3 DEF IdsInv
<1>5. /\ \A m \in Members(toHost) \union jobs \union Members(toWorker') : m.cb \in Waiting'
      /\ lost \subseteq Waiting'
  <2>1. \A m \in Members(toHost) : m.cb \in Ids(toHost)
    BY HaveIds
  <2>2. \A m \in Members(toWorker') : m.cb \in Ids(toWorker')
    BY HaveIds
  <2>3. \A m \in jobs : m.cb \in JobIds
    BY DEF JobIds
  <2> QED
    BY <1>1, <1>2, <1>3, <1>4, <2>1, <2>2, <2>3 DEF IdsInv
<1>6. KnownInv'
  BY <1>1, <1>2, <1>3, <1>5 DEF KnownInv, Known
<1>7. opened' \subseteq opened \union
        (IF ~ r.err /\ callbacks[r.cb].method = "open" THEN {r.fd} ELSE {})
  BY DEF Receive
<1>8. OpenOnBothSides'
  BY <1>1, <1>2, <1>5, <1>7 DEF OpenOnBothSides, KnownInv, Alive
<1> QED
  BY <1>1, <1>4, <1>6, <1>8

(* The listener of the host: the request becomes a job, an answer, or is lost. *)
LEMMA HandleKeeps ==
  ASSUME Inv, Handle
  PROVE  Inv'
<1> DEFINE r == Head(toHost)
<1> USE DEF Inv
<1>1. /\ toHost # <<>> /\ toHost' = Tail(toHost)
      /\ UNCHANGED <<callbacks, opened, nextFd, ended>>
  BY DEF Handle, worker, history
<1>2. /\ IsQueue(toHost') /\ Members(toHost') \subseteq Members(toHost)
      /\ Ids(toHost') = Ids(toHost) \ {r.cb}
      /\ r \in Members(toHost) /\ r.cb \in Ids(toHost)
  BY <1>1, Removed DEF IdsInv
<1>3. Known(r) /\ (r.fd # Nobody => r.fd \in Alive)
  BY <1>2 DEF KnownInv
<1>4. UNCHANGED Waiting
  BY <1>1 DEF Waiting
<1>5. ASSUME NEW m, m.cb = r.cb, r.method = "probe", toWorker' = Append(toWorker, m),
             UNCHANGED <<remote, jobs, lost>>
      PROVE  Inv'
  <2>1. m.cb \notin Ids(toWorker)
    BY <1>2, <1>5 DEF IdsInv
  <2>2. /\ IsQueue(toWorker') /\ Members(toWorker') = Members(toWorker) \union {m}
        /\ Ids(toWorker') = Ids(toWorker) \union {r.cb}
    BY <1>5, <2>1, Appended DEF IdsInv
  <2>3. UNCHANGED <<JobIds, Alive>>
    BY <1>1, <1>5 DEF JobIds, Alive
  <2>4. IdsInv'
    <3>1. UNCHANGED <<jobs, lost>>
      BY <1>5
    <3> QED
      BY <1>2, <1>4, <2>2, <2>3, <3>1 DEF IdsInv
  <2>5. callbacks[m.cb].method = "probe"
    <3>1. callbacks[m.cb] = [method |-> r.method, fd |-> r.fd]
      BY <1>3, <1>5 DEF Known
    <3> QED
      BY <1>5, <3>1
  <2>6. KnownInv'
    BY <1>1, <1>2, <1>5, <2>2, <2>3, <2>5 DEF KnownInv, Known
  <2>7. OpenOnBothSides'
    BY <1>1, <1>5 DEF OpenOnBothSides
  <2> QED
    BY <1>1, <2>4, <2>6, <2>7
<1>6. ASSUME NEW job, job.cb = r.cb, Known(job), jobs' = jobs \union {job},
             DOMAIN remote' = DOMAIN remote, UNCHANGED <<lost, toWorker>>
      PROVE  Inv'
  <2>1. /\ JobIds' = JobIds \union {r.cb} /\ UNCHANGED <<Alive, Ids(toWorker), Members(toWorker), IsQueue(toWorker)>>
    BY <1>1, <1>6 DEF JobIds, Alive
  <2>2. IsFiniteSet(jobs')
    BY <1>6, FS_AddElement DEF IdsInv
  <2>3. \A a, b \in jobs' : a.cb = b.cb => a = b
    <3>1. \A a \in jobs : a.cb # r.cb
      BY <1>2 DEF IdsInv, JobIds
    <3> QED
      BY <1>6, <3>1 DEF IdsInv
  <2>4. IdsInv'
    BY <1>2, <1>4, <1>6, <2>1, <2>2, <2>3 DEF IdsInv
  <2>5. KnownInv'
    BY <1>1, <1>2, <1>6, <2>1 DEF KnownInv, Known
  <2>6. OpenOnBothSides'
    BY <1>1, <1>6 DEF OpenOnBothSides
  <2> QED
    BY <1>1, <2>4, <2>5, <2>6
<1>7. CASE r.fd # Nobody /\ r.fd \notin DOMAIN remote /\ lost' = lost \union {r.cb}
           /\ UNCHANGED <<remote, jobs, toWorker>>
  <2>1. UNCHANGED <<JobIds, Alive, Ids(toWorker), Members(toWorker), IsQueue(toWorker)>>
    BY <1>1, <1>7 DEF JobIds, Alive
  <2>2. IsFiniteSet(lost')
    BY <1>7, FS_AddElement DEF IdsInv
  <2>3. IdsInv'
    BY <1>2, <1>4, <1>7, <2>1, <2>2 DEF IdsInv
  <2>4. KnownInv'
    BY <1>1, <1>2, <1>7, <2>1 DEF KnownInv, Known
  <2>5. callbacks[r.cb].fd \in ended
    BY <1>3, <1>7 DEF Known, Alive
  <2>6. OpenOnBothSides'
    BY <1>1, <1>7, <2>5 DEF OpenOnBothSides
  <2> QED
    BY <1>1, <2>3, <2>4, <2>6
<1>8. CASE r.fd \in DOMAIN remote
           /\ \E f : /\ remote' = [remote EXCEPT ![r.fd] = f]
                     /\ jobs' = jobs \union {[r EXCEPT !.data = f.buffer, !.size = f.size]}
           /\ UNCHANGED <<lost, toWorker>>
  <2>1. PICK f : /\ remote' = [remote EXCEPT ![r.fd] = f]
                 /\ jobs' = jobs \union {[r EXCEPT !.data = f.buffer, !.size = f.size]}
    BY <1>8
  <2> DEFINE job == [r EXCEPT !.data = f.buffer, !.size = f.size]
  <2>2. job.cb = r.cb /\ Known(job)
    BY <1>3 DEF Known
  <2>3. DOMAIN remote' = DOMAIN remote
    BY <2>1
  <2> QED
    BY <1>6, <1>8, <2>1, <2>2, <2>3
<1>9. CASE jobs' = jobs \union {r} /\ UNCHANGED <<remote, lost, toWorker>>
  BY <1>3, <1>6, <1>9
<1>10. CASE toWorker' = Append(toWorker, Response(r.cb, FALSE)) /\ r.method = "probe"
            /\ UNCHANGED <<remote, jobs, lost>>
  <2>1. Response(r.cb, FALSE).cb = r.cb
    BY DEF Response
  <2> QED
    BY <1>5, <1>10, <2>1
<1> QED
  BY <1>7, <1>8, <1>9, <1>10 DEF Handle

LEMMA Further == \A n, m \in Nat : n <= m => \A i \in 0 .. n - 1 : i \in 0 .. m - 1
OBVIOUS

(* The answer of the host's file system to a job. *)
LEMMA Answered ==
  ASSUME Inv, NEW job \in jobs, NEW r, Answers(job, r), r.cb = job.cb,
         nextFd' \in Nat, nextFd <= nextFd',
         DOMAIN remote' \subseteq 0 .. nextFd' - 1, Alive \subseteq DOMAIN remote' \union ended,
         ~ r.err /\ job.method = "open" => r.fd \in DOMAIN remote',
         UNCHANGED <<worker, toHost, lost, ended>>
  PROVE  Inv'
<1> USE DEF Inv, worker
<1>1. r.cb \in JobIds /\ r.cb \notin Ids(toWorker)
  BY DEF JobIds, IdsInv
<1>2. /\ IsQueue(toWorker') /\ Members(toWorker') = Members(toWorker) \union {r}
      /\ Ids(toWorker') = Ids(toWorker) \union {r.cb}
  BY <1>1, Appended DEF IdsInv, Answers
<1>3. JobIds' = JobIds \ {r.cb} /\ jobs' \subseteq jobs /\ IsFiniteSet(jobs')
  BY FS_Subset DEF Answers, JobIds, IdsInv
<1>4. /\ UNCHANGED <<Waiting, Ids(toHost), Members(toHost), IsQueue(toHost)>>
      /\ Alive \subseteq Alive'
  BY DEF Waiting, Alive
<1>5. IdsInv'
  BY <1>1, <1>2, <1>3, <1>4 DEF IdsInv
<1>6. callbacks[r.cb].method = job.method
  <2>1. Known(job)
    BY DEF KnownInv
  <2> QED
    BY <2>1 DEF Known
<1>7. ~ r.err /\ callbacks[r.cb].method = "open" => r.fd \in 0 .. nextFd' - 1 /\ r.fd \in Alive'
  BY <1>6 DEF Alive
<1>8. \A fd \in 0 .. nextFd - 1 : fd \in 0 .. nextFd' - 1
  BY Further
<1>9. KnownInv'
  BY <1>2, <1>3, <1>4, <1>7, <1>8 DEF KnownInv, Known
<1>10. OpenOnBothSides'
  BY <1>4, <1>8 DEF OpenOnBothSides, Alive
<1> QED
  BY <1>5, <1>9, <1>10

LEMMA FinishKeeps ==
  ASSUME Inv, NEW job \in jobs, Finish(job)
  PROVE  Inv'
<1> USE DEF Finish
<1>1. /\ job.method = "close" => job.fd \in ended
      /\ nextFd \in Nat /\ DOMAIN remote \subseteq 0 .. nextFd - 1
  BY DEF Inv, KnownInv, Known, OpenOnBothSides
<1>2. CASE HostOpens(job)
  <2> DEFINE r == [Response(job.cb, FALSE)
                     EXCEPT !.fd = nextFd, !.flag = job.flag, !.data = Given(NewFile("file", job.flag,
                       IF store = Missing \/ job.flag \in Truncating THEN EmptyNode ELSE store)),
                       !.size = NewFile("file", job.flag,
                       IF store = Missing \/ job.flag \in Truncating THEN EmptyNode ELSE store).size]
  <2>1. Answers(job, r) /\ nextFd' = nextFd + 1 /\ DOMAIN remote' = DOMAIN remote \union {nextFd}
    BY <1>2 DEF HostOpens
  <2>2. r.cb = job.cb /\ r.fd = nextFd
    BY DEF Response
  <2>3. nextFd' \in Nat /\ nextFd <= nextFd' /\ DOMAIN remote' \subseteq 0 .. nextFd' - 1
    BY <1>1, <2>1
  <2> HIDE DEF r
  <2> QED
    BY <2>1, <2>2, <2>3, Answered DEF Alive
<1>3. ASSUME NEW err \in BOOLEAN, err \/ job.method # "open",
             Answers(job, Response(job.cb, err)), remote' = AfterJob(job) \/ remote' = remote,
             nextFd' = nextFd
      PROVE  Inv'
  <2>1. /\ DOMAIN remote' \subseteq DOMAIN remote
        /\ Alive \subseteq DOMAIN remote' \union ended
    BY <1>1, <1>3 DEF AfterJob, Alive
  <2>2. Response(job.cb, err).cb = job.cb /\ Response(job.cb, err).err = err
    BY DEF Response
  <2> QED
    BY <1>1, <1>3, <2>1, <2>2, Answered
<1>4. CASE HostSyncs(job)
  BY <1>3, <1>4 DEF HostSyncs
<1>5. CASE HostDoes(job)
  BY <1>3, <1>5 DEF HostDoes
<1>6. CASE HostFails(job)
  BY <1>3, <1>6 DEF HostFails
<1> QED
  BY <1>2, <1>4, <1>5, <1>6

----------------------------------------------------------------------------
LEMMA InitInv == Init => Inv
<1> SUFFICES ASSUME Init PROVE Inv
  OBVIOUS
<1>1. /\ toHost = <<Request("probe", 0)>> /\ toWorker = <<>> /\ jobs = {} /\ lost = {}
      /\ callbacks = [i \in {0} |-> [method |-> "probe", fd |-> Nobody]]
      /\ opened = {} /\ DOMAIN remote = {} /\ nextFd = 0
  BY DEF Init
<1>2. IsQueue(toWorker) /\ Ids(toWorker) = {} /\ Members(toWorker) = {}
  BY <1>1, EmptySeq DEF IsQueue, Ids, Members
<1>3. toHost = Append(<<>>, Request("probe", 0)) /\ Request("probe", 0).cb = 0
  BY <1>1 DEF Request
<1> DEFINE q == Request("probe", 0)
<1>4. IsQueue(toHost) /\ Ids(toHost) = {0} /\ Members(toHost) = {q}
  <2>1. IsQueue(<<>>) /\ Ids(<<>>) = {} /\ Members(<<>>) = {} /\ q.cb \notin Ids(<<>>)
    BY <1>1, <1>2
  <2> HIDE DEF q
  <2>2. /\ IsQueue(Append(<<>>, q)) /\ Members(Append(<<>>, q)) = Members(<<>>) \union {q}
        /\ Ids(Append(<<>>, q)) = Ids(<<>>) \union {q.cb}
    BY <2>1, Appended
  <2> QED
    BY <1>3, <2>1, <2>2 DEF q
<1>5. IdsInv
  BY <1>1, <1>2, <1>4, FS_EmptySet, WorkerAssumption DEF IdsInv, JobIds, Waiting
<1>6. KnownInv
  BY <1>1, <1>2, <1>4 DEF KnownInv, Known, Request
<1>7. OpenOnBothSides
  BY <1>1 DEF OpenOnBothSides
<1> QED
  BY <1>1, <1>5, <1>6, <1>7 DEF Inv

LEMMA NextInv ==
  ASSUME Inv, [Next]_vars
  PROVE  Inv'
<1>1. CASE UNCHANGED vars
  BY <1>1, Quiet DEF vars, worker, history
<1>2. CASE Next
  BY <1>2, CallsKeep, ReceiveKeeps, HandleKeeps, FinishKeeps DEF Next
<1> QED
  BY <1>1, <1>2

LEMMA InvAlways == Spec => []Inv
BY InitInv, NextInv, PTL DEF Spec

(* The messages of a queue are as many as their ids. *)
LEMMA QueueCounts ==
  ASSUME NEW s, IsQueue(s)
  PROVE  IsFiniteSet(Ids(s)) /\ Cardinality(Ids(s)) = Len(s)
<1>1. Len(s) \in Nat /\ DOMAIN s = 1 .. Len(s)
  BY DEF IsQueue
<1>2. IsFiniteSet(1 .. Len(s)) /\ Cardinality(1 .. Len(s)) = Len(s)
  <2>1. 1 \in Int /\ Len(s) \in Int /\ (IF 1 > Len(s) THEN 0 ELSE Len(s) - 1 + 1) = Len(s)
    BY <1>1
  <2> QED
    BY <2>1, FS_Interval
<1> DEFINE f == [i \in 1 .. Len(s) |-> s[i].cb]
<1>3. f \in Bijection(1 .. Len(s), Ids(s))
  BY <1>1 DEF IsQueue, Ids, Bijection, Injection, Surjection, IsInjective
<1>4. ExistsBijection(1 .. Len(s), Ids(s))
  BY <1>3 DEF ExistsBijection
<1> QED
  BY <1>2, <1>4, FS_Bijection

LEMMA JobsCount ==
  ASSUME IdsInv
  PROVE  IsFiniteSet(JobIds) /\ Cardinality(JobIds) = Cardinality(jobs)
<1> DEFINE f == [job \in jobs |-> job.cb]
<1>1. f \in Bijection(jobs, JobIds)
  BY DEF IdsInv, JobIds, Bijection, Injection, Surjection, IsInjective
<1>2. ExistsBijection(jobs, JobIds) /\ IsFiniteSet(jobs)
  BY <1>1 DEF ExistsBijection, IdsInv
<1> QED
  BY <1>2, FS_Bijection

LEMMA Apart ==
  ASSUME NEW A, NEW B, IsFiniteSet(A), IsFiniteSet(B), A \intersect B = {}
  PROVE  IsFiniteSet(A \union B) /\ Cardinality(A \union B) = Cardinality(A) + Cardinality(B)
<1>1. Cardinality({}) = 0 /\ Cardinality(A) \in Nat /\ Cardinality(B) \in Nat
  BY FS_EmptySet, FS_CardinalityType
<1>2. /\ IsFiniteSet(A \union B)
      /\ Cardinality(A \union B) = Cardinality(A) + Cardinality(B) - Cardinality(A \intersect B)
  BY FS_Union
<1>3. Cardinality(A \intersect B) = 0
  BY <1>1
<1> QED
  BY <1>1, <1>2, <1>3

LEMMA InvCounts == Inv => OneAnswerEach
<1> SUFFICES ASSUME Inv PROVE OneAnswerEach
  OBVIOUS
<1>1. /\ IsFiniteSet(Ids(toHost)) /\ Cardinality(Ids(toHost)) = Len(toHost)
      /\ IsFiniteSet(Ids(toWorker)) /\ Cardinality(Ids(toWorker)) = Len(toWorker)
      /\ IsFiniteSet(JobIds) /\ Cardinality(JobIds) = Cardinality(jobs)
      /\ IsFiniteSet(lost)
  BY QueueCounts, JobsCount DEF Inv, IdsInv
<1>2. /\ IsFiniteSet(Ids(toHost) \union JobIds)
      /\ Cardinality(Ids(toHost) \union JobIds) = Len(toHost) + Cardinality(jobs)
  BY <1>1, Apart, SMTT(30), ZenonT(30) DEF Inv, IdsInv
<1> DEFINE asked == Ids(toHost) \union JobIds
<1>3. asked \intersect Ids(toWorker) = {} /\ (asked \union Ids(toWorker)) \intersect lost = {}
  BY DEF Inv, IdsInv
<1>4. /\ IsFiniteSet(asked \union Ids(toWorker))
      /\ Cardinality(asked \union Ids(toWorker)) = Cardinality(asked) + Cardinality(Ids(toWorker))
  BY <1>1, <1>2, <1>3, Apart
<1>5. Cardinality(asked \union Ids(toWorker) \union lost)
        = Cardinality(asked \union Ids(toWorker)) + Cardinality(lost)
  BY <1>1, <1>3, <1>4, Apart
<1>6. Cardinality(Waiting) = Len(toHost) + Cardinality(jobs) + Len(toWorker) + Cardinality(lost)
  BY <1>1, <1>2, <1>4, <1>5 DEF Inv, IdsInv
<1> QED
  BY <1>6 DEF Inv, IdsInv, OneAnswerEach, JobIds

(* No callback of the worker is called twice or with what another asked: the *)
(* ids that _callbacks has are each in one message, one job or lost.         *)
THEOREM OneAnswerEachAlways == Spec => []OneAnswerEach
BY InvAlways, InvCounts, PTL

(* Of a descriptor that is open in the worker the host has the File, until   *)
(* a close was sent: only what is asked after that can be lost.              *)
THEOREM OpenOnBothSidesAlways == Spec => []OpenOnBothSides
<1>1. Inv => OpenOnBothSides
  BY DEF Inv
<1> QED
  BY <1>1, InvAlways, PTL

----------------------------------------------------------------------------
(* What a File has in it. *)

IsNode(n) == n \in [data : Seq(Bytes), size : Nat] /\ n.size = Len(n.data)
FileObjects ==
  [path : {"file"}, flag : Flags, buffer : Seq(Bytes), size : Nat, pos : Nat,
   dirty : BOOLEAN, unsaved : BOOLEAN]
IsLocal(f) == f \in FileObjects /\ (f.flag \notin Appendable => f.size = Len(f.buffer))
IsRemote(f) == f \in FileObjects /\ f.size = Len(f.buffer)

(* Files that are stored as they are synced. *)
Replaced == Writeable \ Appendable

LEMMA FlagsAre ==
  /\ Flags \subseteq FlagStrs \ Synchronous
  /\ \A flag \in Flags : flag \in Readable \union Truncating \union Appendable
BY WorkerAssumption DEF FlagStrs, Synchronous, Readable, Truncating, Appendable, Plus

LEMMA ZerosAre ==
  ASSUME NEW n \in Nat
  PROVE  Zeros(n) \in Seq(Bytes) /\ Len(Zeros(n)) = n
BY ByteAssumption DEF Zeros

LEMMA RoomIs ==
  ASSUME NEW f \in FileObjects, NEW end \in Nat
  PROVE  /\ Room(f, end) \in Seq(Bytes)
         /\ f.size = Len(f.buffer) => Len(Room(f, end)) = AtLeast(f.size, end)
<1>0. f.buffer \in Seq(Bytes) /\ Len(f.buffer) \in Nat /\ f.size \in Nat
  BY DEF FileObjects
<1>1. CASE end > f.size /\ end > Len(f.buffer)
  <2> DEFINE zeros == Zeros(end - Len(f.buffer))
  <2>1. end - Len(f.buffer) \in Nat
    BY <1>0, <1>1
  <2>2. zeros \in Seq(Bytes) /\ Len(zeros) = end - Len(f.buffer)
    BY <2>1, ZerosAre
  <2>3. Room(f, end) = f.buffer \o zeros
    BY <1>1 DEF Room
  <2> HIDE DEF zeros
  <2>4. Room(f, end) \in Seq(Bytes) /\ Len(Room(f, end)) = end
    BY <1>0, <2>2, <2>3, ConcatProperties
  <2> QED
    BY <1>0, <1>1, <2>4 DEF AtLeast
<1>2. CASE ~ (end > f.size /\ end > Len(f.buffer))
  <2>1. Room(f, end) = f.buffer
    BY <1>2 DEF Room
  <2> QED
    BY <1>0, <1>2, <2>1 DEF AtLeast
<1> QED
  BY <1>1, <1>2

LEMMA CopiedIs ==
  ASSUME NEW buffer \in Seq(Bytes), NEW bytes \in Seq(Bytes), NEW at \in Nat
  PROVE  Copied(buffer, bytes, at) \in Seq(Bytes) /\ Len(Copied(buffer, bytes, at)) = Len(buffer)
<1>1. Len(buffer) \in Nat /\ Len(bytes) \in Nat
  OBVIOUS
<1>2. ASSUME NEW i \in 1 .. Len(buffer)
      PROVE  (IF i \in at + 1 .. at + Len(bytes) THEN bytes[i - at] ELSE buffer[i]) \in Bytes
  <2>1. CASE i \in at + 1 .. at + Len(bytes)
    <3>1. i - at \in 1 .. Len(bytes)
      BY <1>1, <2>1
    <3> QED
      BY <2>1, <3>1, ElementOfSeq
  <2>2. CASE i \notin at + 1 .. at + Len(bytes)
    BY <2>2, ElementOfSeq
  <2> QED
    BY <2>1, <2>2
<1> QED
  BY <1>1, <1>2 DEF Copied

(* What a change leaves of a File: f becomes g. *)
Changed(f, g) ==
  /\ g \in FileObjects /\ g.flag = f.flag /\ g.dirty
  /\ f.size = Len(f.buffer) => g.size = Len(g.buffer)
  /\ f.flag \notin Writeable => NodeOf(g) = NodeOf(f)

LEMMA WriteChanges ==
  ASSUME NEW f \in FileObjects, NEW bytes \in Seq(Bytes), NEW at \in Nat
  PROVE  /\ Changed(f, WriteSync(f, bytes, at))
         /\ f.flag \in Writeable /\ f.size = Len(f.buffer)
              => Len(WriteSync(f, bytes, at).buffer) = AtLeast(f.size, at + Len(bytes))
<1>1. CASE f.flag \in Writeable
  <2> DEFINE end == at + Len(bytes)
             buffer == Copied(Room(f, end), bytes, at)
             g == [f EXCEPT !.dirty = TRUE, !.size = AtLeast(f.size, end), !.buffer = buffer,
                            !.pos = IF f.flag \in Synchronous THEN f.pos ELSE end]
  <2>1. end \in Nat
    OBVIOUS
  <2>2. /\ buffer \in Seq(Bytes)
        /\ f.size = Len(f.buffer) => Len(buffer) = AtLeast(f.size, end)
    BY <2>1, RoomIs, CopiedIs, SMTT(30), ZenonT(30)
  <2>3. AtLeast(f.size, end) \in Nat
    BY <2>1 DEF AtLeast, FileObjects
  <2>4. WriteSync(f, bytes, at) = g
    BY <1>1 DEF WriteSync, WriteBuffer
  <2> HIDE DEF buffer, end
  <2>5. /\ g \in FileObjects /\ g.flag = f.flag /\ g.dirty
        /\ g.buffer = buffer /\ g.size = AtLeast(f.size, end)
    BY <2>1, <2>2, <2>3 DEF FileObjects
  <2> QED
    BY <1>1, <2>2, <2>4, <2>5 DEF Changed, end
<1>2. CASE f.flag \notin Writeable
  BY <1>2 DEF WriteSync, Changed, FileObjects, NodeOf
<1> QED
  BY <1>1, <1>2

LEMMA TruncateChanges ==
  ASSUME NEW f \in FileObjects, NEW len \in Nat
  PROVE  /\ Changed(f, TruncateSync(f, len))
         /\ f.flag \in Writeable /\ len <= Len(f.buffer)
              => /\ TruncateSync(f, len).buffer = SubSeq(f.buffer, 1, len)
                 /\ TruncateSync(f, len).size = len
<1>0. f.buffer \in Seq(Bytes) /\ Len(f.buffer) \in Nat
  BY DEF FileObjects
<1>1. CASE f.flag \notin Writeable
  BY <1>1 DEF TruncateSync, Changed, FileObjects, NodeOf
<1>2. CASE f.flag \in Writeable /\ len > Len(f.buffer)
  <2>1. Zeros(len - Len(f.buffer)) \in Seq(Bytes)
    BY <1>0, <1>2, ZerosAre
  <2>2. TruncateSync(f, len) = WriteSync(f, Zeros(len - Len(f.buffer)), Len(f.buffer))
    BY <1>2 DEF TruncateSync
  <2> QED
    BY <1>0, <1>2, <2>1, <2>2, WriteChanges
<1>3. CASE f.flag \in Writeable /\ ~ len > Len(f.buffer)
  <2> DEFINE cut == SubSeq(f.buffer, 1, len)
             g == [f EXCEPT !.dirty = TRUE, !.size = len, !.buffer = cut]
  <2>1. cut \in Seq(Bytes) /\ Len(cut) = len
    BY <1>0, <1>3, SubSeqProperties
  <2>2. TruncateSync(f, len) = g
    BY <1>3 DEF TruncateSync
  <2> HIDE DEF cut
  <2>3. /\ g \in FileObjects /\ g.flag = f.flag /\ g.dirty
        /\ g.buffer = cut /\ g.size = len
    BY <2>1 DEF FileObjects
  <2> QED
    BY <1>3, <2>1, <2>2, <2>3 DEF Changed, cut
<1> QED
  BY <1>1, <1>2, <1>3

(* The host's File has in it what was sent, unless it is appended to. *)
LEMMA AppliedIs ==
  ASSUME NEW f, IsRemote(f), NEW data \in Seq(Bytes)
  PROVE  /\ IsRemote(Applied(f, data)) /\ Applied(f, data).flag = f.flag
         /\ f.flag \in Replaced => NodeOf(Applied(f, data)) = [data |-> data, size |-> Len(data)]
<1>0. f \in FileObjects /\ f.size = Len(f.buffer) /\ f.size \in Nat /\ Len(data) \in Nat
  BY DEF IsRemote, FileObjects
<1>1. CASE f.flag \in Appendable
  <2>1. GetPos(f) \in Nat
    BY <1>0, <1>1 DEF GetPos
  <2> QED
    BY <1>0, <1>1, <2>1, WriteChanges DEF Applied, IsRemote, Changed, Replaced
<1>2. CASE f.flag \in Replaced
  <2> DEFINE g == WriteSync(f, data, 0)
             h == TruncateSync(g, Len(data))
  <2>1. Applied(f, data) = h
    BY <1>2 DEF Applied, Replaced
  <2>2. /\ g \in FileObjects /\ g.flag = f.flag /\ g.size = Len(g.buffer)
        /\ Len(g.buffer) = AtLeast(f.size, Len(data)) /\ g.buffer \in Seq(Bytes)
    BY <1>0, <1>2, WriteChanges DEF Changed, Replaced, FileObjects
  <2>3. Len(data) <= Len(g.buffer) /\ f.flag \in Writeable
    BY <1>0, <1>2, <2>2 DEF AtLeast, Replaced
  <2>4. g.buffer = Copied(Room(f, Len(data)), data, 0)
    BY <1>0, <2>3 DEF WriteSync, WriteBuffer, FileObjects
  <2>5. \A i \in 1 .. Len(data) : g.buffer[i] = data[i]
    <3>1. Len(Room(f, Len(data))) \in Nat /\ Len(data) <= Len(Room(f, Len(data)))
      BY <1>0, RoomIs, SMTT(30), ZenonT(30) DEF AtLeast
    <3> QED
      BY <1>0, <2>4, <3>1 DEF Copied
  <2> HIDE DEF g
  <2>6. SubSeq(g.buffer, 1, Len(data)) = data
    <3> DEFINE cut == SubSeq(g.buffer, 1, Len(data))
    <3>1. cut \in Seq(Bytes) /\ Len(cut) = Len(data) /\ \A i \in 1 .. Len(data) : cut[i] = g.buffer[i]
      BY <1>0, <2>2, <2>3, SubSeqProperties
    <3> QED
      BY <2>5, <3>1, SeqEqual
  <2>7. Changed(g, h) /\ h.buffer = data /\ h.size = Len(data)
    BY <1>0, <2>2, <2>3, <2>6, TruncateChanges
  <2> QED
    BY <2>1, <2>2, <2>7 DEF Changed, IsRemote, NodeOf
<1>3. CASE f.flag \notin Writeable
  BY <1>3 DEF Applied, Appendable, Writeable, Truncating, Plus, Replaced
<1> QED
  BY <1>1, <1>2, <1>3 DEF Replaced

----------------------------------------------------------------------------
(* Where what is in a file is, on its way to the host and back. *)

Requests ==
  [method : {"probe", "open", "unlink", "sync", "close"}, cb : Nat, fd : Nat,
   flag : FlagStrs, data : Seq(Bytes), size : Nat]
Content(r) == [data |-> r.data, size |-> r.size]
Settled == opened \ overtaken

(* What was sent of a file that was not changed since is what it has. *)
Sent(r) ==
  /\ r \in Requests
  /\ r.method = "open" => r.flag \in Flags
  /\ r.method \in {"sync", "close"} <=> r.fd # Nobody
  /\ r.fd \in opened => r.flag = files[r.fd].flag
  /\ r.fd \in Settled /\ r.flag \in Replaced => Content(r) = NodeOf(files[r.fd])
Received(job) ==
  /\ Sent(job)
  /\ job.fd # Nobody => IsNode(Content(job))
  /\ job.fd \in Settled \intersect DOMAIN remote /\ job.flag \in Replaced
       => NodeOf(remote[job.fd]) = NodeOf(files[job.fd])
SentInv == (\A r \in Members(toHost) : Sent(r)) /\ (\A job \in jobs : Received(job))

(* A file that was opened on the host, and not yet here. *)
Arrives(r) == ~ r.err /\ callbacks[r.cb].method = "open"
Fresh(r) ==
  /\ r.fd \notin opened /\ \A i \in Waiting : callbacks[i].fd # r.fd
  /\ r.fd \in Descriptors
  /\ IsLocal(LocalFile(r))
  /\ r.fd \in DOMAIN remote => remote[r.fd].flag = r.flag
  /\ r.fd \in current /\ r.flag \notin Appendable => store = NodeOf(LocalFile(r))
(* A file that was synced there. *)
Stored(fd) == files[fd].flag \notin Appendable => store = NodeOf(files[fd])
Confirms(r) ==
  ~ r.err /\ callbacks[r.cb].method = "sync"
    => (callbacks[r.cb].fd \in Settled \intersect current => Stored(callbacks[r.cb].fd))
RepliesInv ==
  /\ \A r \in Members(toWorker) : (Arrives(r) => Fresh(r)) /\ Confirms(r)
  /\ \A r, s \in Members(toWorker) : Arrives(r) /\ Arrives(s) /\ r.fd = s.fd => r.cb = s.cb

CallbacksInv ==
  /\ nextFd <= MaxFiles
  /\ \A i \in Waiting : callbacks[i].fd \in 0 .. nextFd - 1 \union {Nobody}
FilesInv ==
  /\ store = Missing \/ IsNode(store)
  /\ DOMAIN files = Descriptors
  /\ \A fd \in DOMAIN remote : IsRemote(remote[fd])
  /\ \A fd \in opened :
       /\ IsLocal(files[fd])
       /\ fd \in DOMAIN remote => remote[fd].flag = files[fd].flag

(* A file that is only read is what is stored, whatever its _dirty says. *)
Clean(fd) == files[fd].flag \notin Writeable \/ (fd \notin overtaken /\ ~ files[fd].dirty)
StoredInv == \A fd \in opened \intersect current : Clean(fd) => Stored(fd)

DataInv == CallbacksInv /\ FilesInv /\ SentInv /\ RepliesInv /\ StoredInv

----------------------------------------------------------------------------
LEMMA Names ==
  ASSUME Inv, DataInv
  PROVE  /\ opened \subseteq Descriptors /\ opened \subseteq 0 .. nextFd - 1 /\ Nobody \notin opened
         /\ nextFd \in Nat /\ MaxFiles \in Nat /\ Nobody = MaxFiles /\ nextFd <= MaxFiles
         /\ \A r \in Members(toHost) \union jobs :
              r.cb \in Waiting /\ callbacks[r.cb].method = r.method /\ callbacks[r.cb].fd = r.fd
         /\ \A r \in Members(toWorker) : r.cb \in Waiting
<1>1. /\ opened \subseteq 0 .. nextFd - 1 /\ nextFd \in Nat /\ MaxFiles \in Nat
      /\ nextFd <= MaxFiles
  BY WorkerAssumption DEF Inv, OpenOnBothSides, DataInv, CallbacksInv
<1>2. opened \subseteq Descriptors /\ Nobody \notin opened
  BY <1>1 DEF Descriptors, Nobody
<1>3. ASSUME NEW r \in Members(toHost) \union jobs
      PROVE  r.cb \in Waiting /\ callbacks[r.cb].method = r.method /\ callbacks[r.cb].fd = r.fd
  <2>1. r.cb \in Waiting /\ Known(r)
    BY HaveIds DEF Inv, IdsInv, KnownInv, JobIds
  <2>2. callbacks[r.cb] = [method |-> r.method, fd |-> r.fd]
    BY <2>1 DEF Known
  <2> QED
    BY <2>1, <2>2
<1>4. \A r \in Members(toWorker) : r.cb \in Waiting
  BY HaveIds DEF Inv, IdsInv
<1> QED
  BY <1>1, <1>2, <1>3, <1>4 DEF Nobody

(* Of a file that no call waits for nothing is on its way. *)
LEMMA NothingSent ==
  ASSUME Inv, DataInv, NEW fd, SyncsOf(fd) = {}
  PROVE  /\ \A r \in Members(toHost) \union jobs : r.fd # fd
         /\ \A r \in Members(toWorker) : callbacks[r.cb].fd # fd
<1>1. \A i \in Waiting : callbacks[i].fd # fd
  BY DEF SyncsOf
<1>2. ASSUME NEW r \in Members(toHost) \union jobs
      PROVE  r.fd # fd
  <2>1. r.cb \in Waiting /\ callbacks[r.cb].fd = r.fd
    BY Names
  <2> QED
    BY <1>1, <2>1
<1> QED
  BY <1>1, <1>2, Names

LEMMA PostedKeepsData ==
  ASSUME Inv, DataInv, NEW request, NEW fd \in opened \union {Nobody}, Posts(request, fd),
         request.cb = FreshId, request.fd = fd, Sent(request)',
         \A g \in Settled' : g \in Settled \/ (SyncsOf(g) = {} /\ files[g].dirty),
         UNCHANGED <<files, opened, toWorker, host, current>>
  PROVE  DataInv'
<1> USE DEF host
<1>1. /\ FreshId \notin Waiting /\ toHost' = Append(toHost, request)
      /\ Waiting' = Waiting \union {FreshId}
      /\ \A i \in Waiting : callbacks'[i] = callbacks[i]
      /\ callbacks'[FreshId].fd = fd
  BY Free DEF Inv, IdsInv, Posts, Awaits, Waiting
<1>2. Members(toHost') = Members(toHost) \union {request}
  BY <1>1, Appended DEF Inv, IdsInv
<1>3. /\ Members(toWorker') = Members(toWorker)
      /\ \A r \in Members(toWorker) : callbacks'[r.cb] = callbacks[r.cb]
  BY <1>1, Names
<1>4. \A g \in Settled' : g \in opened
  BY DEF Settled
<1>5. CallbacksInv'
  BY <1>1, Names DEF DataInv, CallbacksInv
<1>6. FilesInv'
  BY DEF DataInv, FilesInv
<1>7. SentInv'
  <2>1. ASSUME NEW r \in Members(toHost) \union jobs, r.fd \in Settled'
        PROVE  r.fd \in Settled
    BY <2>1, NothingSent
  <2>2. ASSUME NEW r \in Members(toHost) \union jobs
        PROVE  Sent(r)'
    BY <2>1 DEF DataInv, SentInv, Received, Sent
  <2>3. ASSUME NEW job \in jobs
        PROVE  Received(job)'
    BY <2>1, <2>2 DEF DataInv, SentInv, Received
  <2> QED
    BY <1>2, <2>2, <2>3 DEF SentInv
<1>8. RepliesInv'
  <2>1. ASSUME NEW r \in Members(toWorker), Arrives(r)'
        PROVE  Arrives(r) /\ Fresh(r)'
    <3>1. Arrives(r) /\ Fresh(r)
      BY <1>3, <2>1 DEF DataInv, RepliesInv, Arrives
    <3>2. fd # r.fd
      BY <3>1, Names DEF Fresh, Descriptors
    <3> QED
      BY <1>1, <3>1, <3>2 DEF Fresh
  <2>2. ASSUME NEW r \in Members(toWorker)
        PROVE  Confirms(r)'
    <3>1. Confirms(r)
      BY DEF DataInv, RepliesInv
    <3>2. callbacks[r.cb].fd \in Settled' => callbacks[r.cb].fd \in Settled
      BY NothingSent
    <3> QED
      BY <1>3, <3>1, <3>2 DEF Confirms, Stored
  <2> QED
    BY <1>3, <2>1, <2>2 DEF DataInv, RepliesInv
<1>9. StoredInv'
  <2> SUFFICES ASSUME NEW g \in opened \intersect current, Clean(g)' PROVE Stored(g)'
    BY DEF StoredInv
  <2>1. Clean(g)
    BY DEF Clean, Settled
  <2> QED
    BY <2>1 DEF DataInv, StoredInv, Stored
<1> QED
  BY <1>5, <1>6, <1>7, <1>8, <1>9 DEF DataInv

LEMMA ChangesKeepData ==
  ASSUME Inv, DataInv, NEW fd \in opened, NEW f, Changes(fd, f), Changed(files[fd], f)
  PROVE  DataInv'
<1>1. /\ UNCHANGED <<callbacks, opened, toHost, toWorker, remote, nextFd, jobs, store, current>>
      /\ files' = [files EXCEPT ![fd] = f]
      /\ fd \in Settled' => SyncsOf(fd) = {}
      /\ \A g \in Settled' : g \in Settled
  BY DEF Changes, host, Settled
<1>2. /\ DOMAIN files' = DOMAIN files /\ files'[fd] = f
      /\ \A g : g # fd => files'[g] = files[g]
  BY <1>1, Names DEF DataInv, FilesInv
<1>3. IsLocal(f) /\ f.flag = files[fd].flag
  BY DEF Changed, IsLocal, DataInv, FilesInv
<1>4. UNCHANGED <<Waiting, Members(toHost), Members(toWorker)>>
  BY <1>1 DEF Waiting
<1>5. CallbacksInv'
  BY <1>1, <1>4 DEF DataInv, CallbacksInv
<1>6. FilesInv'
  BY <1>1, <1>2, <1>3 DEF DataInv, FilesInv
<1>7. SentInv'
  <2>1. ASSUME NEW r \in Members(toHost) \union jobs
        PROVE  (r.fd \in Settled' => r.fd # fd /\ r.fd \in Settled) /\ Sent(r)'
    <3>1. r.fd \in Settled' => r.fd # fd /\ r.fd \in Settled
      BY <1>1, NothingSent
    <3>2. Sent(r)
      BY DEF DataInv, SentInv, Received
    <3> QED
      BY <1>1, <1>2, <1>3, <3>1, <3>2 DEF Sent
  <2>2. ASSUME NEW job \in jobs
        PROVE  Received(job)'
    <3>1. Received(job) /\ Sent(job)'
      BY <2>1 DEF DataInv, SentInv
    <3> QED
      BY <1>1, <1>2, <2>1, <3>1 DEF Received
  <2> QED
    BY <1>1, <1>4, <2>1, <2>2 DEF SentInv
<1>8. RepliesInv'
  <2>1. ASSUME NEW r \in Members(toWorker), Arrives(r)
        PROVE  Fresh(r)'
    BY <1>1, <1>4, <2>1 DEF DataInv, RepliesInv, Fresh, LocalFile
  <2>2. ASSUME NEW r \in Members(toWorker)
        PROVE  Confirms(r)'
    <3>1. Confirms(r)
      BY DEF DataInv, RepliesInv
    <3>2. callbacks[r.cb].fd \in Settled' => callbacks[r.cb].fd # fd
      BY <1>1, NothingSent
    <3> QED
      BY <1>1, <1>2, <3>1, <3>2 DEF Confirms, Stored
  <2> QED
    BY <1>1, <1>4, <2>1, <2>2 DEF DataInv, RepliesInv, Arrives
<1>9. StoredInv'
  <2> SUFFICES ASSUME NEW g \in opened \intersect current, Clean(g)' PROVE Stored(g)'
    BY <1>1 DEF StoredInv
  <2>1. CASE g # fd
    <3>1. Clean(g)
      BY <1>1, <1>2, <2>1 DEF Clean, Settled
    <3> QED
      BY <1>1, <1>2, <2>1, <3>1 DEF DataInv, StoredInv, Stored
  <2>2. CASE g = fd
    <3>1. files[fd].flag \notin Writeable /\ NodeOf(f) = NodeOf(files[fd])
      BY <1>2, <1>3, <2>2 DEF Clean, Changed
    <3> QED
      BY <1>1, <1>2, <1>3, <2>2, <3>1 DEF DataInv, StoredInv, Stored, Clean
  <2> QED
    BY <2>1, <2>2
<1> QED
  BY <1>5, <1>6, <1>7, <1>8, <1>9 DEF DataInv

(* What takes away files and messages, or makes a file that is stored clean. *)
LEMMA LessKeepsData ==
  ASSUME Inv, DataInv,
         opened' \subseteq opened, current' \subseteq current, Settled' \subseteq Settled,
         DOMAIN files' = DOMAIN files,
         \A g \in opened' :
           \/ files'[g] = files[g]
           \/ /\ files'[g] = [files[g] EXCEPT !.dirty = FALSE]
              /\ g \in Settled \intersect current => Stored(g),
         Waiting' \subseteq Waiting, \A i \in Waiting' : callbacks'[i] = callbacks[i],
         Members(toHost') \subseteq Members(toHost),
         Members(toWorker') \subseteq Members(toWorker),
         \A r \in Members(toWorker') : r.cb \in Waiting',
         UNCHANGED <<remote, nextFd, jobs, store>>
  PROVE  DataInv'
<1>1. \A g \in opened' :
        IsLocal(files'[g]) /\ files'[g].flag = files[g].flag /\ NodeOf(files'[g]) = NodeOf(files[g])
  <2> SUFFICES ASSUME NEW g \in opened'
               PROVE  /\ IsLocal(files'[g]) /\ files'[g].flag = files[g].flag
                      /\ NodeOf(files'[g]) = NodeOf(files[g])
    OBVIOUS
  <2>1. IsLocal(files[g])
    BY DEF DataInv, FilesInv
  <2>2. CASE files'[g] = files[g]
    BY <2>1, <2>2
  <2>3. CASE files'[g] = [files[g] EXCEPT !.dirty = FALSE]
    BY <2>1, <2>3 DEF IsLocal, FileObjects, NodeOf
  <2> QED
    BY <2>2, <2>3
<1>2. Settled' \subseteq opened'
  BY DEF Settled
<1>3. CallbacksInv'
  BY DEF DataInv, CallbacksInv
<1>4. FilesInv'
  BY <1>1 DEF DataInv, FilesInv
<1>5. SentInv'
  <2>1. ASSUME NEW r \in Members(toHost) \union jobs
        PROVE  Sent(r)'
    <3>1. Sent(r)
      BY DEF DataInv, SentInv, Received
    <3> QED
      BY <1>1, <1>2, <3>1 DEF Sent
  <2>2. ASSUME NEW job \in jobs
        PROVE  Received(job)'
    <3>1. Received(job) /\ Sent(job)'
      BY <2>1 DEF DataInv, SentInv
    <3> QED
      BY <1>1, <1>2, <3>1 DEF Received
  <2> QED
    BY <2>1, <2>2 DEF SentInv
<1>6. RepliesInv'
  <2>1. ASSUME NEW r \in Members(toWorker'), Arrives(r)'
        PROVE  Arrives(r) /\ Fresh(r)'
    <3>1. Arrives(r) /\ Fresh(r)
      BY <2>1 DEF DataInv, RepliesInv, Arrives
    <3> QED
      BY <3>1 DEF Fresh, LocalFile
  <2>2. ASSUME NEW r \in Members(toWorker')
        PROVE  Confirms(r)'
    <3>1. Confirms(r) /\ callbacks'[r.cb] = callbacks[r.cb]
      BY DEF DataInv, RepliesInv
    <3> QED
      BY <1>1, <1>2, <3>1 DEF Confirms, Stored
  <2> QED
    BY <2>1, <2>2 DEF DataInv, RepliesInv
<1>7. StoredInv'
  <2> SUFFICES ASSUME NEW g \in opened' \intersect current', Clean(g)' PROVE Stored(g)'
    BY DEF StoredInv
  <2>1. Stored(g)
    <3>1. files'[g] = files[g] \/ Stored(g) \/ g \notin Settled
      OBVIOUS
    <3>2. g \notin Settled => g \notin Settled' /\ files[g].flag \notin Writeable
      BY <1>1 DEF Clean, Settled
    <3>3. files'[g] = files[g] \/ g \notin Settled => Clean(g)
      BY <3>2 DEF Clean, Settled
    <3> QED
      BY <3>1, <3>3 DEF DataInv, StoredInv
  <2> QED
    BY <1>1, <2>1 DEF Stored
<1> QED
  BY <1>3, <1>4, <1>5, <1>6, <1>7 DEF DataInv

LEMMA RequestsAre ==
  ASSUME Inv, DataInv, NEW request, NEW fd, Posts(request, fd)
  PROVE  FreshId \in Nat
<1>1. FreshId \in 0 .. MaxCalls
  BY Free DEF Posts, Inv, IdsInv
<1> QED
  BY <1>1, WorkerAssumption

LEMMA SyncCloseKeepsData ==
  ASSUME Inv, DataInv, NEW fd \in opened, NEW method \in {"sync", "close"}, SyncClose(method, fd)
  PROVE  DataInv'
<1> DEFINE f == files[fd]
<1>1. CASE f.dirty
  <2>1. PICK request :
          /\ request = [Request(method, FreshId)
                          EXCEPT !.fd = fd, !.flag = f.flag, !.data = f.buffer, !.size = f.size]
          /\ Posts(request, fd) /\ UNCHANGED <<files, opened, toWorker, host, current>>
          /\ overtaken' = IF SyncsOf(fd) = {} THEN overtaken \ {fd} ELSE overtaken
    BY <1>1 DEF SyncClose
  <2> DEFINE a == Request(method, FreshId)
             b == [a EXCEPT !.fd = fd]
             c == [b EXCEPT !.flag = f.flag]
             d == [c EXCEPT !.data = f.buffer]
  <2>2. /\ request.method = method /\ request.cb = FreshId /\ request.fd = fd
        /\ request.flag = f.flag /\ request.data = f.buffer /\ request.size = f.size
        /\ request = [method |-> method, cb |-> FreshId, fd |-> fd, flag |-> f.flag,
                      data |-> f.buffer, size |-> f.size]
    <3>1. b = [method |-> method, cb |-> FreshId, fd |-> fd, flag |-> "r", data |-> <<>>, size |-> 0]
      BY DEF Request
    <3> HIDE DEF b
    <3>2. c = [method |-> method, cb |-> FreshId, fd |-> fd, flag |-> f.flag, data |-> <<>>, size |-> 0]
      BY <3>1
    <3> HIDE DEF c
    <3>3. d = [method |-> method, cb |-> FreshId, fd |-> fd, flag |-> f.flag,
               data |-> f.buffer, size |-> 0]
      BY <3>2
    <3> HIDE DEF d
    <3>4. [d EXCEPT !.size = f.size]
            = [method |-> method, cb |-> FreshId, fd |-> fd, flag |-> f.flag,
               data |-> f.buffer, size |-> f.size]
      BY <3>3
    <3>5. request = [d EXCEPT !.size = f.size]
      BY <2>1 DEF b, c, d
    <3> QED
      BY <3>4, <3>5
  <2>3. f \in FileObjects /\ fd \in Nat /\ fd # Nobody /\ FreshId \in Nat
    BY <2>1, Names, RequestsAre DEF DataInv, FilesInv, IsLocal, Descriptors
  <2>4. f.flag \in FlagStrs /\ f.buffer \in Seq(Bytes) /\ f.size \in Nat
    BY <2>3, FlagsAre DEF FileObjects
  <2>5. request \in Requests
    BY <2>2, <2>3, <2>4 DEF Requests
  <2>6. /\ request.method = method /\ request.fd = fd /\ request.flag = f.flag
        /\ request.cb = FreshId /\ Content(request) = NodeOf(f)
    BY <2>2 DEF Content, NodeOf
  <2>7. Sent(request)'
    <3>1. method # "open"
      OBVIOUS
    <3> QED
      BY <2>1, <2>3, <2>5, <2>6, <3>1 DEF Sent
  <2>8. \A g \in Settled' : g \in Settled \/ (SyncsOf(g) = {} /\ files[g].dirty)
    BY <1>1, <2>1 DEF Settled
  <2> QED
    BY <2>1, <2>6, <2>7, <2>8, PostedKeepsData
<1>2. CASE ~ f.dirty
  <2>1. UNCHANGED <<callbacks, toHost, toWorker, overtaken, remote, nextFd, jobs, store, current>>
    BY <1>2 DEF SyncClose, host
  <2>2. \/ opened' = opened /\ files' = files
        \/ opened' = opened \ {fd} /\ files' = [files EXCEPT ![fd] = NoFile]
    BY <1>2 DEF SyncClose, host
  <2>3. opened' \subseteq opened /\ DOMAIN files' = DOMAIN files /\ \A g \in opened' : files'[g] = files[g]
    <3>1. CASE opened' = opened /\ files' = files
      BY <3>1
    <3>2. CASE opened' = opened \ {fd} /\ files' = [files EXCEPT ![fd] = NoFile]
      BY <3>2
    <3> QED
      BY <2>2, <3>1, <3>2
  <2>4. Waiting' = Waiting /\ Settled' \subseteq Settled
    BY <2>1, <2>3 DEF Waiting, Settled
  <2> QED
    BY <2>1, <2>3, <2>4, LessKeepsData, Names
<1> QED
  BY <1>1, <1>2

LEMMA CallsKeepData ==
  ASSUME Inv, DataInv, Calls
  PROVE  DataInv'
<1> USE DEF worker, history, host
<1>1. ASSUME NEW request, NEW method \in {"open", "unlink"}, NEW flag \in Flags \union {"r"},
             request = [Request(method, FreshId) EXCEPT !.flag = flag],
             method = "open" => flag \in Flags,
             Posts(request, Nobody),
             UNCHANGED <<initialized, files, opened, toWorker, host, history>>
      PROVE  DataInv'
  <2>1. request = [method |-> method, cb |-> FreshId, fd |-> Nobody, flag |-> flag,
                   data |-> <<>>, size |-> 0]
    BY <1>1 DEF Request
  <2>2. flag \in FlagStrs
    BY FlagsAre DEF FlagStrs
  <2>9. FreshId \in Nat /\ Nobody \in Nat /\ <<>> \in Seq(Bytes)
    BY <1>1, RequestsAre, Names
  <2>3. request \in Requests
    BY <2>1, <2>2, <2>9 DEF Requests
  <2>4. /\ request.method = method /\ request.fd = Nobody /\ request.flag = flag
        /\ request.cb = FreshId
    BY <2>1
  <2>5. Nobody \notin opened' /\ UNCHANGED <<opened, overtaken, files, current>>
    BY <1>1, Names
  <2>6. Sent(request)'
    BY <1>1, <2>3, <2>4, <2>5 DEF Sent, Settled
  <2>7. \A g \in Settled' : g \in Settled
    BY <2>5 DEF Settled
  <2> QED
    BY <1>1, <2>4, <2>6, <2>7, PostedKeepsData
<1>2. ASSUME NEW flag \in Flags, Open(flag)
      PROVE  DataInv'
  BY <1>1, <1>2 DEF Open
<1>3. CASE Rpc("unlink")
  <2>1. [Request("unlink", FreshId) EXCEPT !.flag = "r"] = Request("unlink", FreshId)
    BY DEF Request
  <2> QED
    BY <1>1, <1>3, <2>1 DEF Rpc
<1>4. ASSUME NEW fd \in opened
      PROVE  files[fd] \in FileObjects /\ GetPos(files[fd]) \in Nat
  BY DEF DataInv, FilesInv, IsLocal, FileObjects, GetPos
<1>5. ASSUME NEW fd \in opened, NEW bytes \in Chunks, Write(fd, bytes)
      PROVE  DataInv'
  BY <1>4, <1>5, WorkerAssumption, WriteChanges, ChangesKeepData DEF Write
<1>6. ASSUME NEW fd \in opened, NEW len \in Lengths, Truncate(fd, len)
      PROVE  DataInv'
  BY <1>4, <1>6, WorkerAssumption, TruncateChanges, ChangesKeepData DEF Truncate
<1> QED
  BY <1>2, <1>3, <1>5, <1>6, SyncCloseKeepsData DEF Calls

LEMMA ReceiveKeepsData ==
  ASSUME Inv, DataInv, Receive
  PROVE  DataInv'
<1> DEFINE r == Head(toWorker)
           call == callbacks[r.cb]
<1> USE DEF host
<1>1. /\ toWorker # <<>> /\ toWorker' = Tail(toWorker)
      /\ UNCHANGED <<toHost, remote, nextFd, jobs, store>>
      /\ Waiting' = Waiting \ {r.cb}
      /\ \A i \in Waiting' : callbacks'[i] = callbacks[i]
      /\ overtaken' = overtaken \intersect opened'
      /\ current' \subseteq current
  BY DEF Receive, Forgets, Waiting
<1>2. /\ r \in Members(toWorker) /\ Members(toWorker') \subseteq Members(toWorker)
      /\ Ids(toWorker') = Ids(toWorker) \ {r.cb}
  BY <1>1, Removed DEF Inv, IdsInv
<1>3. \A m \in Members(toWorker') : m.cb \in Waiting' /\ m.cb # r.cb
  BY <1>1, <1>2, HaveIds, Names
<1>4. CASE ~ (~ r.err /\ call.method = "open")
  <2>1. opened' \subseteq opened
    BY <1>4 DEF Receive
  <2>2. Settled' \subseteq Settled
    BY <1>1, <2>1 DEF Settled
  <2>3. CASE ~ r.err /\ call.method = "sync"
    <3>1. files' = [files EXCEPT ![call.fd].dirty = FALSE] /\ Confirms(r)
      BY <1>2, <2>3 DEF Receive, DataInv, RepliesInv
    <3>2. \A g \in opened' :
           \/ files'[g] = files[g]
           \/ /\ files'[g] = [files[g] EXCEPT !.dirty = FALSE]
              /\ g \in Settled \intersect current => Stored(g)
      BY <2>1, <2>3, <3>1, Names DEF Confirms, DataInv, FilesInv
    <3>3. DOMAIN files' = DOMAIN files
      BY <3>1
    <3> QED
      BY <1>1, <1>2, <1>3, <2>1, <2>2, <3>2, <3>3, LessKeepsData
  <2>4. CASE ~ (~ r.err /\ call.method = "sync")
    <3>1. CASE ~ r.err /\ call.method = "close"
      <4>1. /\ files' = [files EXCEPT ![call.fd] = NoFile]
            /\ opened' = opened \ {call.fd}
        BY <3>1 DEF Receive
      <4>2. \A g \in opened' : files'[g] = files[g]
        BY <4>1
      <4>3. DOMAIN files' = DOMAIN files
        BY <4>1
      <4> QED
        BY <1>1, <1>2, <1>3, <2>1, <2>2, <4>2, <4>3, LessKeepsData
    <3>2. CASE ~ (~ r.err /\ call.method = "close")
      <4>1. files' = files
        BY <1>4, <2>4, <3>2 DEF Receive
      <4> QED
        BY <1>1, <1>2, <1>3, <2>1, <2>2, <4>1, LessKeepsData
    <3> QED
      BY <3>1, <3>2
  <2> QED
    BY <2>3, <2>4
<1>5. CASE ~ r.err /\ call.method = "open"
  <2> DEFINE fd == r.fd
  <2>1. /\ opened' = opened \union {fd} /\ files' = [files EXCEPT ![fd] = LocalFile(r)]
        /\ current' = current
    BY <1>5 DEF Receive
  <2>2. Fresh(r)
    BY <1>2, <1>5 DEF DataInv, RepliesInv, Arrives
  <2>3. /\ DOMAIN files' = DOMAIN files /\ files'[fd] = LocalFile(r)
        /\ \A g : g # fd => files'[g] = files[g]
    BY <2>1, <2>2 DEF Fresh, DataInv, FilesInv
  <2>4. /\ fd \notin opened /\ fd # Nobody
        /\ \A m \in Members(toHost) \union jobs : m.fd # fd
        /\ \A m \in Members(toWorker) : callbacks[m.cb].fd # fd
    <3>1. SyncsOf(fd) = {}
      BY <2>2 DEF Fresh, SyncsOf
    <3> QED
      BY <2>2, <3>1, NothingSent, Names DEF Fresh, Descriptors
  <2>5. \A g \in Settled' : g # fd => g \in Settled
    BY <1>1, <2>1 DEF Settled
  <2>6. CallbacksInv'
    BY <1>1 DEF DataInv, CallbacksInv
  <2>7. LocalFile(r).flag = r.flag
    BY DEF LocalFile, NewFile
  <2>8. FilesInv'
    BY <1>1, <2>1, <2>2, <2>3, <2>7 DEF DataInv, FilesInv, Fresh
  <2>9. SentInv'
    <3>1. ASSUME NEW m \in Members(toHost) \union jobs
          PROVE  Sent(m)'
      <4>1. Sent(m) /\ m.fd # fd
        BY <2>4 DEF DataInv, SentInv, Received
      <4> QED
        BY <2>1, <2>3, <2>5, <4>1 DEF Sent
    <3>2. ASSUME NEW job \in jobs
          PROVE  Received(job)'
      <4>1. Received(job) /\ Sent(job)' /\ job.fd # fd
        BY <2>4, <3>1 DEF DataInv, SentInv
      <4> QED
        BY <1>1, <2>3, <2>5, <4>1 DEF Received
    <3> QED
      BY <1>1, <3>1, <3>2 DEF SentInv
  <2>10. RepliesInv'
    <3>1. ASSUME NEW m \in Members(toWorker'), Arrives(m)'
          PROVE  Arrives(m) /\ Fresh(m)'
      <4>1. Arrives(m) /\ Fresh(m) /\ m.cb # r.cb
        BY <1>1, <1>2, <1>3, <3>1 DEF DataInv, RepliesInv, Arrives
      <4>2. m.fd # fd
        BY <1>2, <1>5, <4>1 DEF DataInv, RepliesInv, Arrives
      <4> QED
        BY <1>1, <2>1, <4>1, <4>2 DEF Fresh, LocalFile
    <3>2. ASSUME NEW m \in Members(toWorker')
          PROVE  Confirms(m)'
      <4>1. Confirms(m) /\ callbacks'[m.cb] = callbacks[m.cb] /\ callbacks[m.cb].fd # fd
        BY <1>1, <1>2, <1>3, <2>4 DEF DataInv, RepliesInv
      <4> QED
        BY <1>1, <2>1, <2>3, <2>5, <4>1 DEF Confirms, Stored
    <3> QED
      BY <1>2, <3>1, <3>2 DEF DataInv, RepliesInv
  <2>11. StoredInv'
    <3> SUFFICES ASSUME NEW g \in opened' \intersect current', Clean(g)' PROVE Stored(g)'
      BY DEF StoredInv
    <3>1. CASE g = fd
      BY <1>1, <2>1, <2>2, <2>3, <2>7, <3>1 DEF Fresh, Stored
    <3>2. CASE g # fd
      <4>1. Clean(g)
        BY <1>1, <2>1, <2>3, <3>2 DEF Clean
      <4> QED
        BY <1>1, <2>1, <2>3, <3>2, <4>1 DEF DataInv, StoredInv, Stored
    <3> QED
      BY <3>1, <3>2
  <2> QED
    BY <2>6, <2>8, <2>9, <2>10, <2>11 DEF DataInv
<1> QED
  BY <1>4, <1>5

LEMMA HandleKeepsData ==
  ASSUME Inv, DataInv, Handle
  PROVE  DataInv'
<1> DEFINE r == Head(toHost)
<1>1. /\ toHost # <<>> /\ toHost' = Tail(toHost)
      /\ UNCHANGED <<callbacks, files, opened, nextFd, store, current, overtaken>>
  BY DEF Handle, worker, history
<1>2. r \in Members(toHost) /\ Members(toHost') \subseteq Members(toHost)
  BY <1>1, Removed DEF Inv, IdsInv
<1>3. Sent(r) /\ r.cb \in Waiting /\ callbacks[r.cb].method = r.method
  BY <1>2, Names DEF DataInv, SentInv
<1>4. UNCHANGED <<Waiting, Settled>>
  BY <1>1 DEF Waiting, Settled
<1>5. CASE r.method = "probe" /\ toWorker' = Append(toWorker, Response(r.cb, FALSE))
           /\ UNCHANGED <<remote, jobs, lost>>
  <2>1. Response(r.cb, FALSE).cb = r.cb
    BY DEF Response
  <2>2. Members(toWorker') = Members(toWorker) \union {Response(r.cb, FALSE)}
    <3>1. r.cb \notin Ids(toWorker)
      BY <1>2, HaveIds DEF Inv, IdsInv
    <3> QED
      BY <1>5, <2>1, <3>1, Appended DEF Inv, IdsInv
  <2>3. callbacks[Response(r.cb, FALSE).cb].method = "probe"
    BY <1>3, <1>5, <2>1
  <2>4. CallbacksInv' /\ FilesInv'
    BY <1>1, <1>4, <1>5 DEF DataInv, CallbacksInv, FilesInv
  <2>5. SentInv'
    BY <1>1, <1>2, <1>4, <1>5 DEF DataInv, SentInv, Received, Sent
  <2>6. ASSUME NEW m \in Members(toWorker')
        PROVE  (Arrives(m)' => m \in Members(toWorker) /\ Arrives(m) /\ Fresh(m)') /\ Confirms(m)'
    <3>1. CASE m \in Members(toWorker)
      BY <1>1, <1>4, <1>5, <3>1 DEF DataInv, RepliesInv, Arrives, Fresh, LocalFile, Confirms, Stored
    <3>2. CASE m = Response(r.cb, FALSE)
      BY <1>1, <2>3, <3>2 DEF Arrives, Confirms
    <3> QED
      BY <2>2, <3>1, <3>2
  <2>7. RepliesInv'
    BY <2>6 DEF DataInv, RepliesInv
  <2>8. StoredInv'
    BY <1>1 DEF DataInv, StoredInv, Clean, Stored
  <2> QED
    BY <2>4, <2>5, <2>7, <2>8 DEF DataInv
<1>6. ASSUME UNCHANGED toWorker, DOMAIN remote' = DOMAIN remote,
             \A fd \in DOMAIN remote : IsRemote(remote'[fd]) /\ remote'[fd].flag = remote[fd].flag,
             \A job \in jobs' : Received(job)'
      PROVE  DataInv'
  <2>1. CallbacksInv'
    BY <1>1, <1>4 DEF DataInv, CallbacksInv
  <2>2. FilesInv'
    BY <1>1, <1>6 DEF DataInv, FilesInv
  <2>3. SentInv'
    BY <1>1, <1>2, <1>4, <1>6 DEF DataInv, SentInv, Sent
  <2>4. ASSUME NEW m \in Members(toWorker)
        PROVE  (Arrives(m)' => Arrives(m) /\ Fresh(m)') /\ Confirms(m)'
    BY <1>1, <1>4, <1>6 DEF DataInv, RepliesInv, Arrives, Fresh, LocalFile, Confirms, Stored
  <2>5. RepliesInv'
    BY <1>6, <2>4 DEF DataInv, RepliesInv
  <2>6. StoredInv'
    BY <1>1 DEF DataInv, StoredInv, Clean, Stored
  <2> QED
    BY <2>1, <2>2, <2>3, <2>5, <2>6 DEF DataInv
<1>7. ASSUME NEW m, Sent(m)
      PROVE  Sent(m)'
  BY <1>1, <1>4, <1>7 DEF Sent
<1>8. CASE UNCHANGED <<remote, toWorker>> /\ (jobs' = jobs \/ (r.fd = Nobody /\ jobs' = jobs \union {r}))
  <2>1. ASSUME NEW job \in jobs'
        PROVE  Received(job)'
    <3>1. CASE job \in jobs
      BY <1>1, <1>4, <1>7, <1>8, <3>1 DEF DataInv, SentInv, Received
    <3>2. CASE r.fd = Nobody /\ job = r
      BY <1>3, <1>4, <1>7, <3>2, Names DEF Received, Settled
    <3> QED
      BY <1>8, <3>1, <3>2
  <2> QED
    BY <1>6, <1>8, <2>1 DEF DataInv, FilesInv
<1>9. CASE /\ r.fd \in DOMAIN remote
           /\ LET f == Applied(remote[r.fd], r.data)
              IN /\ remote' = [remote EXCEPT ![r.fd] = f]
                 /\ jobs' = jobs \union {[r EXCEPT !.data = f.buffer, !.size = f.size]}
           /\ UNCHANGED <<lost, toWorker>>
  <2>1. PICK f : /\ f = Applied(remote[r.fd], r.data) /\ remote' = [remote EXCEPT ![r.fd] = f]
                 /\ jobs' = jobs \union {[r EXCEPT !.data = f.buffer, !.size = f.size]}
    BY <1>9
  <2>2. PICK fd : fd = r.fd
    OBVIOUS
  <2>3. r \in Requests /\ r.data \in Seq(Bytes)
    BY <1>3 DEF Sent, Requests
  <2>4. IsRemote(remote[fd])
    BY <1>9, <2>2 DEF DataInv, FilesInv
  <2>5. /\ IsRemote(f) /\ f.flag = remote[fd].flag
        /\ remote[fd].flag \in Replaced => NodeOf(f) = [data |-> r.data, size |-> Len(r.data)]
    BY <2>1, <2>2, <2>3, <2>4, AppliedIs
  <2>6. fd \in Settled /\ files[fd].flag \in Replaced => NodeOf(f) = NodeOf(files[fd])
    <3> SUFFICES ASSUME fd \in Settled, files[fd].flag \in Replaced PROVE NodeOf(f) = NodeOf(files[fd])
      OBVIOUS
    <3>1. /\ fd \in opened /\ remote[fd].flag = files[fd].flag /\ r.flag = files[fd].flag
          /\ Content(r) = NodeOf(files[fd]) /\ IsLocal(files[fd])
      BY <1>3, <1>9, <2>2 DEF DataInv, FilesInv, Sent, Settled
    <3>2. files[fd].size = Len(files[fd].buffer) /\ r.data = files[fd].buffer
      BY <3>1 DEF IsLocal, Replaced, Content, NodeOf
    <3> QED
      BY <2>5, <3>1, <3>2 DEF NodeOf
  <2>7. PICK new : new = [r EXCEPT !.data = f.buffer, !.size = f.size]
    OBVIOUS
  <2>8. /\ new \in Requests /\ new.method = r.method /\ new.fd = fd /\ new.flag = r.flag
        /\ Content(new) = NodeOf(f) /\ IsNode(NodeOf(f))
    <3>1. f.buffer \in Seq(Bytes) /\ f.size \in Nat /\ f.size = Len(f.buffer)
      BY <2>5 DEF IsRemote, FileObjects
    <3>2. NodeOf(f) = [data |-> f.buffer, size |-> f.size] /\ IsNode(NodeOf(f))
      BY <3>1 DEF NodeOf, IsNode
    <3>3. /\ new \in Requests /\ new.method = r.method /\ new.fd = fd /\ new.flag = r.flag
          /\ new.data = f.buffer /\ new.size = f.size
      BY <2>2, <2>3, <2>7, <3>1 DEF Requests
    <3> QED
      BY <3>2, <3>3 DEF Content
  <2>9. DOMAIN remote' = DOMAIN remote /\ remote'[fd] = f /\ \A g : g # fd => remote'[g] = remote[g]
    BY <1>9, <2>1, <2>2
  <2>10. Received(new)'
    <3>1. Sent(new)
      BY <1>3, <2>2, <2>6, <2>8 DEF Sent, Settled
    <3>2. Sent(new)'
      BY <1>7, <3>1
    <3>3. new.fd \in Settled' /\ new.flag \in Replaced => NodeOf(f) = NodeOf(files'[fd])
      <4>1. fd \in Settled => new.flag = files[fd].flag
        BY <2>8, <3>1 DEF Sent, Settled
      <4> QED
        BY <1>1, <1>4, <2>6, <2>8, <4>1
    <3> QED
      BY <2>8, <2>9, <3>2, <3>3 DEF Received
  <2>11. ASSUME NEW job \in jobs
         PROVE  Received(job)'
    <3>1. Received(job) /\ Sent(job)'
      BY <1>7 DEF DataInv, SentInv, Received
    <3>2. job.fd = fd /\ fd \in Settled /\ job.flag \in Replaced => NodeOf(f) = NodeOf(files[fd])
      BY <2>6, <3>1 DEF Received, Sent, Settled
    <3> QED
      BY <1>1, <1>4, <2>9, <3>1, <3>2 DEF Received
  <2>12. \A g \in DOMAIN remote : IsRemote(remote'[g]) /\ remote'[g].flag = remote[g].flag
    BY <2>5, <2>9 DEF DataInv, FilesInv
  <2> QED
    BY <1>6, <1>9, <2>1, <2>7, <2>9, <2>10, <2>11, <2>12
<1> QED
  BY <1>5, <1>8, <1>9 DEF Handle

----------------------------------------------------------------------------
(* The answers of the host. *)
LEMMA AnswerIsKnown ==
  ASSUME Inv, DataInv, NEW job \in jobs, NEW r, Answers(job, r), r.cb = job.cb
  PROVE  /\ Members(toWorker') = Members(toWorker) \union {r}
         /\ jobs' \subseteq jobs
         /\ callbacks[r.cb].method = job.method /\ callbacks[r.cb].fd = job.fd
         /\ job.cb \in Waiting
         /\ Sent(job) /\ Received(job)
<1>1. r.cb \notin Ids(toWorker)
  BY DEF Inv, IdsInv, JobIds
<1>2. Members(toWorker') = Members(toWorker) \union {r}
  BY <1>1, Appended DEF Answers, Inv, IdsInv
<1>3. Sent(job) /\ Received(job)
  BY DEF DataInv, SentInv, Received
<1> QED
  BY <1>2, <1>3, Names DEF Answers

(* An answer that opens nothing: what counts as stored then is. *)
LEMMA AnsweredKeepsData ==
  ASSUME Inv, DataInv, NEW job \in jobs, NEW r, Answers(job, r), r.cb = job.cb,
         r.err \/ job.method # "open",
         DOMAIN remote' \subseteq DOMAIN remote, \A i \in DOMAIN remote' : remote'[i] = remote[i],
         store' = Missing \/ IsNode(store'),
         \A fd \in current' : (fd \in current /\ store' = store)
                                \/ (fd \in opened /\ files[fd].flag \in Writeable
                                      /\ (fd \in Settled => Stored(fd)')),
         ~ r.err /\ job.method = "sync" /\ job.fd \in Settled \intersect current' => Stored(job.fd)',
         UNCHANGED <<callbacks, files, opened, toHost, nextFd, overtaken>>
  PROVE  DataInv'
<1>1. UNCHANGED <<Waiting, Settled>>
  BY DEF Waiting, Settled
<1>2. CallbacksInv'
  BY <1>1 DEF DataInv, CallbacksInv
<1>3. FilesInv'
  BY DEF DataInv, FilesInv
<1>4. SentInv'
  <2>1. ASSUME NEW m, Sent(m)
        PROVE  Sent(m)'
    BY <1>1, <2>1 DEF Sent
  <2>2. ASSUME NEW other \in jobs
        PROVE  Received(other)'
    <3>1. Received(other) /\ Sent(other)'
      BY <2>1 DEF DataInv, SentInv, Received
    <3> QED
      BY <1>1, <3>1 DEF Received
  <2> QED
    BY <2>1, <2>2, AnswerIsKnown DEF DataInv, SentInv
<1>5. ASSUME NEW m \in Members(toWorker), Arrives(m)'
      PROVE  Arrives(m) /\ Fresh(m)'
  <2>1. Arrives(m) /\ Fresh(m)
    BY <1>5 DEF DataInv, RepliesInv, Arrives
  <2>2. m.fd \in current' => m.fd \in current /\ store' = store
    BY <2>1 DEF Fresh
  <2> QED
    BY <1>1, <2>1, <2>2 DEF Fresh, LocalFile
<1>6. ASSUME NEW m \in Members(toWorker)
      PROVE  Confirms(m)'
  <2> DEFINE fd == callbacks[m.cb].fd
  <2>1. Confirms(m)
    BY DEF DataInv, RepliesInv
  <2>2. fd \in Settled \intersect current' => (fd \in current /\ store' = store) \/ Stored(fd)'
    OBVIOUS
  <2>3. UNCHANGED callbacks /\ (Stored(fd) /\ store' = store => Stored(fd)')
    BY DEF Stored
  <2> QED
    BY <1>1, <2>1, <2>2, <2>3 DEF Confirms
<1>7. ~ Arrives(r)' /\ Confirms(r)'
  BY <1>1, AnswerIsKnown DEF Arrives, Confirms
<1>8. RepliesInv'
  BY <1>5, <1>6, <1>7, AnswerIsKnown DEF DataInv, RepliesInv
<1>9. StoredInv'
  <2> SUFFICES ASSUME NEW fd \in opened \intersect current', Clean(fd)' PROVE Stored(fd)'
    BY DEF StoredInv
  <2>1. CASE fd \in current /\ store' = store
    BY <2>1 DEF DataInv, StoredInv, Clean, Stored
  <2>2. CASE files[fd].flag \in Writeable /\ (fd \in Settled => Stored(fd)')
    BY <2>2 DEF Clean, Settled
  <2> QED
    BY <2>1, <2>2
<1> QED
  BY <1>2, <1>3, <1>4, <1>8, <1>9 DEF DataInv

LEMMA FinishKeepsData ==
  ASSUME Inv, DataInv, NEW job \in jobs, Finish(job), ~ HostOpens(job)
  PROVE  DataInv'
<1>1. UNCHANGED <<callbacks, files, opened, toHost, overtaken>>
  BY DEF Finish, worker
<1>2. /\ DOMAIN AfterJob(job) \subseteq DOMAIN remote
      /\ \A i \in DOMAIN AfterJob(job) : AfterJob(job)[i] = remote[i]
  BY DEF AfterJob
<1>3. ASSUME NEW err PROVE Response(job.cb, err).cb = job.cb /\ Response(job.cb, err).err = err
  BY DEF Response
<1>4. CASE HostFails(job)
  <2>1. PICK r : r = Response(job.cb, TRUE)
    OBVIOUS
  <2>2. r.cb = job.cb /\ r.err /\ Answers(job, r) /\ remote' = AfterJob(job)
        /\ UNCHANGED <<nextFd, store, current>>
    BY <1>3, <1>4, <2>1 DEF HostFails
  <2>3. store' = Missing \/ IsNode(store')
    BY <2>2 DEF DataInv, FilesInv
  <2> QED
    BY <1>1, <1>2, <2>2, <2>3, AnsweredKeepsData
<1>5. CASE HostDoes(job)
  <2>1. PICK r : r = Response(job.cb, FALSE)
    OBVIOUS
  <2>2. /\ r.cb = job.cb /\ Answers(job, r) /\ UNCHANGED <<remote, nextFd>>
        /\ store' = Missing /\ current' = {} /\ job.method = "unlink"
    BY <1>3, <1>5, <2>1 DEF HostDoes
  <2> QED
    BY <1>1, <2>2, AnsweredKeepsData
<1>6. CASE HostSyncs(job)
  <2>1. PICK r : r = Response(job.cb, FALSE)
    OBVIOUS
  <2>2. /\ r.cb = job.cb /\ Answers(job, r) /\ remote' = AfterJob(job) /\ nextFd' = nextFd
        /\ job.method \in {"sync", "close"}
    BY <1>3, <1>6, <2>1 DEF HostSyncs
  <2>3. Sent(job) /\ Received(job)
    BY <2>2, AnswerIsKnown
  <2>4. job.fd # Nobody /\ IsNode(Content(job)) /\ (job.fd \in opened => job.flag = files[job.fd].flag)
    BY <2>2, <2>3 DEF Sent, Received
  <2>5. CASE job.flag \in Writeable
    <3>1. /\ current' = {job.fd} \intersect opened
          /\ \/ store' = Content(job)
             \/ job.fd \in DOMAIN remote /\ store' = NodeOf(remote[job.fd])
      BY <1>6, <2>5 DEF HostSyncs, Content
    <3>2. IsNode(store')
      <4>1. ASSUME NEW fd \in DOMAIN remote
            PROVE  IsNode(NodeOf(remote[fd]))
        BY DEF DataInv, FilesInv, IsRemote, FileObjects, IsNode, NodeOf
      <4> QED
        BY <2>4, <3>1, <4>1
    <3>3. job.fd \in Settled => Stored(job.fd)'
      <4> SUFFICES ASSUME job.fd \in Settled, files[job.fd].flag \notin Appendable
                   PROVE  store' = NodeOf(files[job.fd])
        <5>1. PICK fd : fd = job.fd
          OBVIOUS
        <5>2. fd \in Settled => Stored(fd)'
          BY <1>1, <5>1 DEF Stored
        <5> QED
          BY <5>1, <5>2
      <4>1. job.flag \in Replaced
        BY <2>4, <2>5 DEF Settled, Replaced
      <4> QED
        BY <2>3, <3>1, <4>1 DEF Sent, Received
    <3>4. \A fd \in current' : fd \in opened /\ files[fd].flag \in Writeable /\ fd = job.fd
      BY <2>4, <2>5, <3>1
    <3> QED
      BY <1>1, <1>2, <2>2, <3>2, <3>3, <3>4, AnsweredKeepsData
  <2>6. CASE job.flag \notin Writeable
    <3>1. UNCHANGED <<store, current>>
      BY <1>6, <2>6 DEF HostSyncs
    <3>2. store' = Missing \/ IsNode(store')
      BY <3>1 DEF DataInv, FilesInv
    <3>3. job.fd \in Settled \intersect current' => Stored(job.fd)
      BY <2>4, <2>6, <3>1 DEF DataInv, StoredInv, Clean, Settled
    <3>4. Stored(job.fd) => Stored(job.fd)'
      BY <1>1, <3>1 DEF Stored
    <3> QED
      BY <1>1, <1>2, <2>2, <3>1, <3>2, <3>3, <3>4, AnsweredKeepsData
  <2> QED
    BY <2>5, <2>6
<1> QED
  BY <1>4, <1>5, <1>6 DEF Finish

LEMMA HostOpensKeepsData ==
  ASSUME Inv, DataInv, NEW job \in jobs, Finish(job), HostOpens(job)
  PROVE  DataInv'
<1>1. UNCHANGED <<callbacks, files, opened, toHost, overtaken>>
  BY DEF Finish, worker
<1>2. UNCHANGED <<Waiting, Settled>>
  BY <1>1 DEF Waiting, Settled
<1>3. PICK anew, node, f, r :
        /\ anew = (store = Missing \/ job.flag \in Truncating)
        /\ node = (IF anew THEN EmptyNode ELSE store)
        /\ f = NewFile("file", job.flag, node)
        /\ r = [Response(job.cb, FALSE)
                  EXCEPT !.fd = nextFd, !.flag = job.flag, !.data = Given(f), !.size = f.size]
  OBVIOUS
<1>4. /\ job.method = "open" /\ nextFd < MaxFiles
      /\ store' = node /\ nextFd' = nextFd + 1
      /\ remote' = [i \in DOMAIN remote \union {nextFd} |-> IF i = nextFd THEN f ELSE remote[i]]
      /\ current' = (IF anew THEN {} ELSE current) \union {nextFd}
      /\ Answers(job, r)
  BY <1>3 DEF HostOpens
<1>5. /\ r.cb = job.cb /\ ~ r.err /\ r.fd = nextFd /\ r.flag = job.flag
      /\ r.data = Given(f) /\ r.size = f.size
  BY <1>3 DEF Response
<1>6. job.flag \in Flags /\ Received(job)
  BY <1>4, <1>5, AnswerIsKnown DEF Sent
<1>7. /\ Members(toWorker') = Members(toWorker) \union {r} /\ jobs' \subseteq jobs
      /\ callbacks[r.cb].method = "open"
  BY <1>4, <1>5, AnswerIsKnown
<1>8. IsNode(node)
  <2>1. IsNode(EmptyNode)
    BY EmptySeq DEF IsNode, EmptyNode
  <2> QED
    BY <1>3, <2>1 DEF DataInv, FilesInv
<1>9. /\ f = [path |-> "file", flag |-> job.flag, buffer |-> node.data, size |-> node.size,
              pos |-> 0, dirty |-> FALSE, unsaved |-> FALSE]
      /\ IsRemote(f) /\ NodeOf(f) = node
  <2>1. node.data \in Seq(Bytes) /\ node.size \in Nat /\ node.size = Len(node.data)
        /\ node = [data |-> node.data, size |-> node.size]
    BY <1>8 DEF IsNode
  <2>2. f = [path |-> "file", flag |-> job.flag, buffer |-> node.data, size |-> node.size,
             pos |-> 0, dirty |-> FALSE, unsaved |-> FALSE]
    BY <1>3 DEF NewFile
  <2> QED
    BY <1>6, <2>1, <2>2 DEF IsRemote, FileObjects, NodeOf
<1>10. /\ IsLocal(LocalFile(r)) /\ LocalFile(r).flag = r.flag
       /\ r.flag \notin Appendable => NodeOf(LocalFile(r)) = node
  <2>1. LocalFile(r) = [path |-> "file", flag |-> job.flag, buffer |-> Given(f), size |-> node.size,
                        pos |-> 0, dirty |-> FALSE, unsaved |-> FALSE]
    BY <1>5, <1>9 DEF LocalFile, NewFile
  <2>2. /\ node.data \in Seq(Bytes) /\ node.size \in Nat /\ node.size = Len(node.data)
        /\ node = [data |-> node.data, size |-> node.size]
    BY <1>8 DEF IsNode
  <2>3. Given(f) \in Seq(Bytes)
    BY <1>9, <2>2, EmptySeq DEF Given
  <2>4. job.flag \notin Appendable => Given(f) = node.data
    <3>1. CASE job.flag \in Readable
      BY <1>9, <3>1 DEF Given
    <3>2. CASE job.flag \in Truncating /\ job.flag \notin Readable
      <4>1. node = EmptyNode
        BY <1>3, <3>2
      <4> QED
        BY <1>9, <3>2, <4>1 DEF Given, EmptyNode
    <3> QED
      BY <1>6, <3>1, <3>2, FlagsAre
  <2> QED
    BY <1>5, <1>6, <2>1, <2>2, <2>3, <2>4 DEF IsLocal, FileObjects, NodeOf
<1>11. /\ nextFd \notin opened /\ nextFd \in Descriptors /\ nextFd \in Nat /\ MaxFiles \in Nat
       /\ \A i \in Waiting : callbacks[i].fd # nextFd
  BY <1>4, Names DEF DataInv, CallbacksInv, Descriptors
<1>12. /\ DOMAIN remote' = DOMAIN remote \union {nextFd} /\ remote'[nextFd] = f
       /\ \A i \in DOMAIN remote : i # nextFd => remote'[i] = remote[i]
  BY <1>4
<1>13. \A fd \in current' : fd # nextFd => fd \in current /\ store' = store
  BY <1>3, <1>4
<1>14. CallbacksInv'
  BY <1>1, <1>2, <1>4, Names DEF DataInv, CallbacksInv
<1>15. FilesInv'
  BY <1>1, <1>4, <1>8, <1>9, <1>11, <1>12 DEF DataInv, FilesInv
<1>16. SentInv'
  <2>1. ASSUME NEW m, Sent(m)
        PROVE  Sent(m)'
    BY <1>1, <1>2, <2>1 DEF Sent
  <2>2. ASSUME NEW other \in jobs
        PROVE  Received(other)'
    <3>1. Received(other) /\ Sent(other)'
      BY <2>1 DEF DataInv, SentInv, Received
    <3>2. nextFd \notin Settled
      BY <1>11 DEF Settled
    <3> QED
      BY <1>1, <1>2, <1>12, <3>1, <3>2 DEF Received
  <2> QED
    BY <1>1, <1>7, <2>1, <2>2 DEF DataInv, SentInv
<1>17. ASSUME NEW m \in Members(toWorker), Arrives(m)'
       PROVE  Arrives(m) /\ Fresh(m)' /\ m.fd # nextFd
  <2>1. Arrives(m) /\ Fresh(m)
    BY <1>1, <1>17 DEF DataInv, RepliesInv, Arrives
  <2>2. m.fd # nextFd
    BY <1>11, <2>1 DEF Inv, KnownInv, Arrives
  <2>3. m.fd \in current' => m.fd \in current /\ store' = store
    BY <1>13, <2>2
  <2> QED
    BY <1>1, <1>2, <1>12, <2>1, <2>2, <2>3 DEF Fresh, LocalFile
<1>18. ASSUME NEW m \in Members(toWorker)
       PROVE  Confirms(m)'
  <2> DEFINE fd == callbacks[m.cb].fd
  <2>1. Confirms(m)
    BY DEF DataInv, RepliesInv
  <2>2. fd \in Settled => fd # nextFd
    BY <1>11 DEF Settled
  <2>3. fd \in Settled \intersect current' => fd \in current /\ store' = store
    BY <1>13, <2>2
  <2>4. UNCHANGED callbacks /\ (Stored(fd) /\ store' = store => Stored(fd)')
    BY <1>1 DEF Stored
  <2> QED
    BY <1>2, <2>1, <2>3, <2>4 DEF Confirms
<1>19. Fresh(r)'
  BY <1>1, <1>2, <1>4, <1>5, <1>9, <1>10, <1>11, <1>12 DEF Fresh, LocalFile
<1>20. Confirms(r)'
  BY <1>1, <1>7 DEF Confirms
<1>21. RepliesInv'
  BY <1>5, <1>7, <1>17, <1>18, <1>19, <1>20 DEF DataInv, RepliesInv
<1>22. StoredInv'
  <2> SUFFICES ASSUME NEW fd \in opened \intersect current', Clean(fd)' PROVE Stored(fd)'
    BY <1>1 DEF StoredInv
  <2>1. fd \in current /\ store' = store
    BY <1>11, <1>13
  <2> QED
    BY <1>1, <2>1 DEF DataInv, StoredInv, Clean, Stored
<1> QED
  BY <1>14, <1>15, <1>16, <1>21, <1>22 DEF DataInv

----------------------------------------------------------------------------
LEMMA InitData == Init => DataInv
<1> SUFFICES ASSUME Init PROVE DataInv
  OBVIOUS
<1> DEFINE q == Request("probe", 0)
<1>1. /\ toHost = <<q>> /\ toWorker = <<>> /\ jobs = {}
      /\ callbacks = [i \in {0} |-> [method |-> "probe", fd |-> Nobody]]
      /\ opened = {} /\ DOMAIN remote = {} /\ nextFd = 0 /\ DOMAIN files = Descriptors
      /\ store \in {Missing, [data |-> <<Zero>>, size |-> 1]}
  BY DEF Init
<1>2. CallbacksInv
  BY <1>1, WorkerAssumption DEF CallbacksInv, Waiting
<1>3. FilesInv
  <2>1. <<Zero>> \in Seq(Bytes) /\ Len(<<Zero>>) = 1
    BY ByteAssumption
  <2>2. IsNode([data |-> <<Zero>>, size |-> 1])
    BY <2>1 DEF IsNode
  <2> QED
    BY <1>1, <2>2 DEF FilesInv
<1>4. SentInv
  <2>1. q \in Requests /\ q.fd = Nobody /\ q.method = "probe"
    <3>1. Nobody \in Nat /\ <<>> \in Seq(Bytes) /\ "r" \in FlagStrs
      BY EmptySeq, WorkerAssumption DEF Nobody, FlagStrs
    <3> QED
      BY <3>1 DEF Requests, Request
  <2>2. Sent(q)
    BY <1>1, <2>1 DEF Sent, Settled
  <2>3. Members(toHost) = {q}
    BY <1>1 DEF Members
  <2> QED
    BY <1>1, <2>2, <2>3 DEF SentInv
<1>5. RepliesInv
  BY <1>1 DEF RepliesInv, Members
<1>6. StoredInv
  BY <1>1 DEF StoredInv
<1> QED
  BY <1>2, <1>3, <1>4, <1>5, <1>6 DEF DataInv

LEMMA NextData ==
  ASSUME Inv, DataInv, [Next]_vars
  PROVE  DataInv'
<1>1. CASE UNCHANGED vars
  <2>1. /\ UNCHANGED <<callbacks, files, opened, toHost, toWorker, remote, nextFd, jobs, store,
                      current, overtaken>>
    BY <1>1 DEF vars, worker, host, history
  <2>2. UNCHANGED <<Waiting, Settled, Members(toHost), Members(toWorker)>>
    BY <2>1 DEF Waiting, Settled
  <2> QED
    BY <2>1, <2>2, LessKeepsData, Names
<1>2. CASE Next
  BY <1>2, CallsKeepData, ReceiveKeepsData, HandleKeepsData, FinishKeepsData, HostOpensKeepsData
     DEF Next
<1> QED
  BY <1>1, <1>2

(* A file that the worker has synced, and not changed since, is stored as it *)
(* has it until another stores it: whatever fails on the host, and in        *)
(* whatever order it answers.                                                *)
THEOREM SyncedIsStoredAlways == Spec => []SyncedIsStored
<1>1. Inv /\ DataInv => SyncedIsStored
  BY DEF DataInv, StoredInv, SyncedIsStored, Clean, Stored
<1>2. Init => Inv /\ DataInv
  BY InitInv, InitData
<1>3. Inv /\ DataInv /\ [Next]_vars => (Inv /\ DataInv)'
  BY NextInv, NextData
<1> QED
  BY <1>1, <1>2, <1>3, PTL DEF Spec
=============================================================================
