---------------------------- MODULE CompatAdapter ----------------------------
(***************************************************************************)
(* The CUDA compatibility adapter: application threads call a CUDA-like    *)
(* API, every call becomes a job of one worker thread, and the worker      *)
(* alone owns the backend (an isolated residency runtime with cuBLAS).     *)
(*                                                                         *)
(* Addresses, cuBLAS handles and threads are model values.  The contents   *)
(* of memory are abstracted to "torn": something failed half way through   *)
(* changing them.  The argument checks of a call are one choice between    *)
(* accepted and refused, the texts of errors are left out, and so is the   *)
(* instant in which a failing close shows POISONED before CLOSED.          *)
(***************************************************************************)
EXTENDS Integers, FiniteSets, Sequences

CONSTANTS
  Client,          \* the application's threads
  Address,         \* the address ranges the backend can hand out
  Handle,          \* the cuBLAS handles that can be created
  None,            \* no client, no address
  Tiles,           \* the tiles of a matrix product
  MaxCalls,        \* bound: calls into the adapter
  MaxQueueFailures \* bound: calls whose queue entry cannot be allocated

CompatAssumption ==
  /\ IsFiniteSet(Client) /\ IsFiniteSet(Address) /\ IsFiniteSet(Handle)
  /\ Tiles \in Nat \ {0} /\ MaxCalls \in Nat /\ MaxQueueFailures \in Nat

VARIABLES
  adapter,   \* the lifecycle state and the flags of the queue
  jobs,      \* the jobs the worker has not taken
  worker,    \* the worker thread
  backend,   \* the backend object, and how often one was opened and closed
  memory,    \* the backend's ranges and the adapter's registry of them
  handles,   \* the registry of cuBLAS handles
  counts,    \* the telemetry
  client,    \* where each application thread is
  lifecycle  \* who holds lifecycle_mutex_

vars == <<adapter, jobs, worker, backend, memory, handles, counts, client,
          lifecycle>>

State == {"uninitialized", "initializing", "ready", "poisoned", "closed"}
Status == {"success", "error", "not_ready", "closed", "poisoned"}
DataKind == {"malloc", "free", "write", "read", "gemm", "create", "destroy",
             "sync", "query"}

\* What a queued closure captures.  "initialized" is what cublasSgemm read of
\* the state on the calling thread.
Job(c, kind, a, initialized) ==
  [by |-> c, kind |-> kind, target |-> a, initialized |-> initialized]
NoTask == Job(None, "none", None, FALSE)

Resting == [at |-> "idle", job |-> NoTask, answer |-> "success"]
At(c, place) == client[c].at = place
Answered(c, s) ==
  [client EXCEPT ![c] = [@ EXCEPT !.at = "answered", !.answer = s]]

Init ==
  /\ adapter = [state |-> "uninitialized", attempted |-> FALSE,
                accepting |-> FALSE, stopping |-> FALSE]
  /\ jobs = <<>>
  /\ worker = [at |-> "none", job |-> NoTask, done |-> 0, submitted |-> FALSE]
  /\ backend = [is |-> "none", opened |-> 0, closed |-> 0]
  /\ memory = [a \in Address |-> [held |-> "no", entry |-> "none",
                                  torn |-> FALSE, given |-> 0]]
  /\ handles = [h \in Handle |-> "none"]
  /\ counts = [attempted |-> 0, submitted |-> 0, completed |-> 0, rejected |-> 0,
               created |-> 0, released |-> 0, live |-> 0,
               handlesCreated |-> 0, handlesDestroyed |-> 0, liveHandles |-> 0,
               cleanup |-> FALSE, unstarted |-> 0, unqueued |-> 0]
  /\ client = [c \in Client |-> Resting]
  /\ lifecycle = None

------------------------------------------------------------------------------
(* The application's threads                                               *)

Attempt == counts' = [counts EXCEPT !.attempted = @ + 1]

\* A data call: counted, and on its way to the queue.
Call(c, kind, a) ==
  /\ At(c, "idle") /\ counts.attempted < MaxCalls
  /\ Attempt
  /\ client' = [client EXCEPT ![c] =
       [at |-> "queueing", answer |-> "success",
        job |-> Job(c, kind, a, adapter.state = "ready")]]
  /\ UNCHANGED <<adapter, jobs, worker, backend, memory, handles, lifecycle>>

\* The status of a call that comes when the queue is shut.
Refusal == IF adapter.state = "uninitialized" THEN "not_ready" ELSE "closed"

QueueIsShut(c) ==
  /\ At(c, "queueing") /\ ~adapter.accepting
  /\ client' = Answered(c, Refusal)
  /\ counts' = [counts EXCEPT !.rejected = @ + 1]
  /\ UNCHANGED <<adapter, jobs, worker, backend, memory, handles, lifecycle>>

\* The promise or the queue entry cannot be allocated.
QueueFails(c) ==
  /\ At(c, "queueing") /\ counts.unqueued < MaxQueueFailures
  /\ client' = Answered(c, "error")
  /\ counts' = [counts EXCEPT !.rejected = @ + 1, !.unqueued = @ + 1]
  /\ UNCHANGED <<adapter, jobs, worker, backend, memory, handles, lifecycle>>

Enqueue(c) ==
  /\ At(c, "queueing") /\ adapter.accepting
  /\ jobs' = Append(jobs, client[c].job)
  /\ client' = [client EXCEPT ![c].at = "waiting"]
  /\ UNCHANGED <<adapter, worker, backend, memory, handles, counts, lifecycle>>

\* A data call returns to the application.
Return(c) ==
  /\ At(c, "answered") /\ client[c].job.kind \in DataKind
  /\ client' = [client EXCEPT ![c] = Resting]
  /\ UNCHANGED <<adapter, jobs, worker, backend, memory, handles, counts,
                 lifecycle>>

\* initialize and shutdown hold lifecycle_mutex_ until they return.
Lock(c, kind) ==
  /\ At(c, "idle") /\ lifecycle = None /\ counts.attempted < MaxCalls
  /\ lifecycle' = c
  /\ client' = [client EXCEPT ![c] =
       [at |-> "locked", answer |-> "success", job |-> Job(c, kind, None, FALSE)]]
  /\ UNCHANGED <<adapter, jobs, worker, backend, memory, handles, counts>>

Leave(c) ==
  /\ lifecycle' = None
  /\ client' = [client EXCEPT ![c] = Resting]

Locked(c, kind) == At(c, "locked") /\ client[c].job.kind = kind

\* Only one attempt at initialization is permitted.
FirstAttempt == ~adapter.attempted

SecondAttempt(c) ==
  /\ Locked(c, "initialize") /\ ~FirstAttempt
  /\ counts' = [counts EXCEPT !.attempted = @ + 1, !.rejected = @ + 1]
  /\ Leave(c)
  /\ UNCHANGED <<adapter, jobs, worker, backend, memory, handles>>

\* The attempt is consumed first; the worker starts, and only then do calls
\* find the queue open.
StartWorker(c) ==
  /\ Locked(c, "initialize") /\ FirstAttempt
  /\ adapter' = [adapter EXCEPT !.attempted = TRUE, !.state = "initializing"]
  /\ worker' = [worker EXCEPT !.at = "idle"]
  /\ client' = [client EXCEPT ![c].at = "started"]
  /\ UNCHANGED <<jobs, backend, memory, handles, counts, lifecycle>>

\* The thread cannot be created: a rejection of a call that was not counted.
ThreadFails(c) ==
  /\ Locked(c, "initialize") /\ FirstAttempt
  /\ adapter' = [adapter EXCEPT !.attempted = TRUE, !.state = "closed"]
  /\ counts' = [counts EXCEPT !.rejected = @ + 1, !.unstarted = 1]
  /\ Leave(c)
  /\ UNCHANGED <<jobs, worker, backend, memory, handles>>

OpenQueue(c) ==
  /\ At(c, "started")
  /\ adapter' = [adapter EXCEPT !.accepting = TRUE]
  /\ client' = [client EXCEPT ![c].at = "queueing"]
  /\ Attempt
  /\ UNCHANGED <<jobs, worker, backend, memory, handles, lifecycle>>

Initialized(c) ==
  /\ At(c, "answered") /\ client[c].job.kind = "initialize"
  /\ client[c].answer = "success"
  /\ Leave(c)
  /\ UNCHANGED <<adapter, jobs, worker, backend, memory, handles, counts>>

\* A failed initialization queues its own cleanup.
InitializeFailed(c) ==
  /\ At(c, "answered") /\ client[c].job.kind = "initialize"
  /\ client[c].answer # "success"
  /\ Attempt
  /\ client' = [client EXCEPT ![c] = [@ EXCEPT
       !.at = "queueing", !.job = Job(c, "cleanup", None, FALSE)]]
  /\ UNCHANGED <<adapter, jobs, worker, backend, memory, handles, lifecycle>>

ShutdownIdle(c) ==
  /\ Locked(c, "shutdown") /\ ~adapter.accepting
  /\ Leave(c)
  /\ UNCHANGED <<adapter, jobs, worker, backend, memory, handles, counts>>

ShutdownBegins(c) ==
  /\ Locked(c, "shutdown") /\ adapter.accepting
  /\ Attempt
  /\ client' = [client EXCEPT ![c].at = "queueing"]
  /\ UNCHANGED <<adapter, jobs, worker, backend, memory, handles, lifecycle>>

\* However the job ended, the worker is stopped ...
StopWorker(c) ==
  /\ At(c, "answered") /\ client[c].job.kind \in {"cleanup", "shutdown"}
  /\ adapter' = [adapter EXCEPT !.accepting = FALSE, !.stopping = TRUE]
  /\ client' = [client EXCEPT ![c].at = "joining"]
  /\ UNCHANGED <<jobs, worker, backend, memory, handles, counts, lifecycle>>

\* ... and joined.
Join(c) ==
  /\ At(c, "joining") /\ worker.at = "gone"
  /\ Leave(c)
  /\ UNCHANGED <<adapter, jobs, worker, backend, memory, handles, counts>>

------------------------------------------------------------------------------
(* The worker                                                              *)

Take ==
  /\ worker.at = "idle" /\ jobs # <<>>
  /\ worker' = [worker EXCEPT !.at = "job", !.job = Head(jobs)]
  /\ jobs' = Tail(jobs)
  /\ UNCHANGED <<adapter, backend, memory, handles, counts, client, lifecycle>>

Rest == worker' = [at |-> "idle", job |-> NoTask, done |-> 0, submitted |-> FALSE]
Answer(s) == client' = Answered(worker.job.by, s)

Running(kind) == worker.at = "job" /\ worker.job.kind = kind
Admitted == adapter.state = "ready"

\* A data job finds the adapter in another state.
RefuseJob ==
  /\ worker.at = "job" /\ worker.job.kind \in DataKind /\ ~Admitted
  /\ Answer(IF adapter.state = "poisoned" THEN "poisoned" ELSE "closed")
  /\ counts' = [counts EXCEPT !.rejected = @ + 1]
  /\ Rest
  /\ UNCHANGED <<adapter, jobs, backend, memory, handles, lifecycle>>

\* How a job that ran is counted and answered; a failure that may have
\* changed something poisons the adapter.
Counted(ok) ==
  [counts EXCEPT !.submitted = @ + 1,
                 !.completed = IF ok THEN @ + 1 ELSE @,
                 !.rejected = IF ok THEN @ ELSE @ + 1]
Poison(poison) ==
  adapter' = IF poison THEN [adapter EXCEPT !.state = "poisoned"] ELSE adapter
Succeeds ==
  /\ Answer("success") /\ Poison(FALSE) /\ Rest
Fails(poison) ==
  /\ Answer("error") /\ Poison(poison) /\ Rest /\ counts' = Counted(FALSE)

\* A refused argument, or a clean failure before any work.
Decline ==
  /\ worker.at = "job" /\ worker.job.kind \in DataKind \ {"sync"} /\ Admitted
  /\ Fails(FALSE)
  /\ UNCHANGED <<jobs, backend, memory, handles, lifecycle>>

\* The range is held by the backend and known to the registry, dead or alive.
Managed(a) == memory[a].entry # "none"

\* mutant: the ranges of freed allocations are not looked at
RegisteredAlways(a) ==
  /\ memory' = [memory EXCEPT ![a] =
        [held |-> "held", entry |-> "live", torn |-> FALSE,
         given |-> @.given + 1]]
  /\ counts' = [Counted(TRUE) EXCEPT !.created = @ + 1, !.live = @ + 1]
  /\ Succeeds

\* Registers a range the backend allocated; one that overlaps a range the
\* adapter ever handed out is given back, and the backend is not trusted again.
Registered(a) ==
  IF Managed(a)
  THEN /\ Fails(TRUE) /\ UNCHANGED memory
  ELSE /\ memory' = [memory EXCEPT ![a] =
            [held |-> "held", entry |-> "live", torn |-> FALSE,
             given |-> @.given + 1]]
       /\ counts' = [Counted(TRUE) EXCEPT !.created = @ + 1, !.live = @ + 1]
       /\ Succeeds

\* The runtime retains the reservation of what was released, so it hands out
\* fresh ranges only; another backend may hand out a released one again.
Malloc ==
  /\ Running("malloc") /\ Admitted
  /\ \E a \in Address: memory[a].held # "held" /\ Registered(a)
  /\ UNCHANGED <<jobs, backend, handles, lifecycle>>

\* The registry entry cannot be allocated: the range is given back, and the
\* adapter is poisoned only when that fails too.
MallocUnregistered ==
  /\ Running("malloc") /\ Admitted
  /\ \E a \in Address, released \in BOOLEAN:
       /\ memory[a].held = "no"
       /\ memory' = [memory EXCEPT ![a].held = IF released THEN "retired" ELSE "held"]
       /\ Fails(~released)
  /\ UNCHANGED <<jobs, backend, handles, lifecycle>>

\* The backend fails, or throws, when it may have changed something.
MallocPoisons ==
  /\ Running("malloc") /\ Admitted
  /\ Fails(TRUE)
  /\ UNCHANGED <<jobs, backend, memory, handles, lifecycle>>

Live(a) == a # None /\ memory[a].entry = "live"
Target == worker.job.target

Free ==
  /\ Running("free") /\ Admitted /\ Live(Target)
  /\ memory' = [memory EXCEPT ![Target].held = "retired", ![Target].entry = "dead"]
  /\ counts' = [Counted(TRUE) EXCEPT !.released = @ + 1, !.live = @ - 1]
  /\ Succeeds
  /\ UNCHANGED <<jobs, backend, handles, lifecycle>>

\* A failed release leaves the entry alive in a poisoned adapter.
FreeFails ==
  /\ Running("free") /\ Admitted /\ Live(Target)
  /\ \E held \in {"held", "retired"}:
       memory' = [memory EXCEPT ![Target].held = held]
  /\ Fails(TRUE)
  /\ UNCHANGED <<jobs, backend, handles, lifecycle>>

\* Reads, writes and synchronize answer, or fail and poison; a failed write may
\* have changed part of the range.
Transfer ==
  /\ worker.at = "job" /\ worker.job.kind \in {"write", "read", "sync"} /\ Admitted
  /\ worker.job.kind # "sync" => Live(Target)
  /\ counts' = Counted(TRUE) /\ Succeeds
  /\ UNCHANGED <<jobs, backend, memory, handles, lifecycle>>

TransferFails ==
  /\ worker.at = "job" /\ worker.job.kind \in {"write", "read", "sync"} /\ Admitted
  /\ worker.job.kind # "sync" => Live(Target)
  /\ memory' = IF worker.job.kind = "write"
               THEN [memory EXCEPT ![Target].torn = TRUE] ELSE memory
  /\ Fails(TRUE)
  /\ UNCHANGED <<jobs, backend, handles, lifecycle>>

\* A product was captured before the adapter was ready: it is refused even if
\* the adapter is ready now.
GemmBegins ==
  /\ Running("gemm") /\ Admitted /\ worker.job.initialized /\ Live(Target)
  /\ worker' = [worker EXCEPT !.at = "tiles"]
  /\ UNCHANGED <<adapter, jobs, backend, memory, handles, counts, client, lifecycle>>

\* The operands of a tile are resident: from here on work may be submitted.
Submission == TRUE

GemmTile ==
  /\ worker.at = "tiles" /\ worker.done < Tiles
  /\ worker' = [worker EXCEPT !.submitted = Submission, !.done = @ + 1]
  /\ UNCHANGED <<adapter, jobs, backend, memory, handles, counts, client, lifecycle>>

\* The residency of a tile fails: clean only when nothing was submitted yet
\* and the runtime itself is not poisoned.
GemmFails ==
  /\ worker.at = "tiles"
  /\ \E failedRuntime \in BOOLEAN: Fails(worker.submitted \/ failedRuntime)
  /\ memory' = [memory EXCEPT ![Target].torn = @ \/ worker.done > 0]
  /\ UNCHANGED <<jobs, backend, handles, lifecycle>>

GemmCompletes ==
  /\ worker.at = "tiles" /\ worker.done = Tiles
  /\ counts' = Counted(TRUE) /\ Succeeds
  /\ UNCHANGED <<jobs, backend, memory, handles, lifecycle>>

BlasCreate ==
  /\ Running("create") /\ Admitted
  /\ \E h \in Handle: handles[h] = "none" /\ handles' = [handles EXCEPT ![h] = "live"]
  /\ counts' = [Counted(TRUE) EXCEPT !.handlesCreated = @ + 1, !.liveHandles = @ + 1]
  /\ Succeeds
  /\ UNCHANGED <<jobs, backend, memory, lifecycle>>

BlasDestroy ==
  /\ Running("destroy") /\ Admitted
  /\ \E h \in Handle: handles[h] = "live" /\ handles' = [handles EXCEPT ![h] = "dead"]
  /\ counts' = [Counted(TRUE) EXCEPT !.handlesDestroyed = @ + 1, !.liveHandles = @ - 1]
  /\ Succeeds
  /\ UNCHANGED <<jobs, backend, memory, lifecycle>>

\* Device and handle queries, the settings of a handle, and the calls that have
\* nothing to do: a null pointer freed, an empty copy.
Query ==
  /\ Running("query") /\ Admitted
  /\ counts' = Counted(TRUE) /\ Succeeds
  /\ UNCHANGED <<jobs, backend, memory, handles, lifecycle>>

------------------------------------------------------------------------------
(* Opening and closing the backend                                         *)

Opened == [backend EXCEPT !.is = "open", !.opened = @ + 1]

\* The backend is closed if there is one, and destroyed whatever close said.
ClosedBackend ==
  IF backend.is = "none" THEN backend
  ELSE [backend EXCEPT !.is = "none", !.closed = @ + 1]

\* Whatever close said, the adapter is closed.
AfterClose == [adapter EXCEPT !.state = "closed"]

\* Every entry dies; the counters are settled only by a close that succeeded.
FinishClose(before, ok) ==
  /\ memory' = [a \in Address |->
       [memory[a] EXCEPT !.entry = IF @ = "live" THEN "dead" ELSE @,
                         !.held = IF ok THEN "no" ELSE @]]
  /\ handles' = [h \in Handle |->
       IF handles[h] = "live" THEN "dead" ELSE handles[h]]
  /\ counts' =
       IF ok
       THEN [before EXCEPT !.released = counts.created,
                           !.handlesDestroyed = counts.handlesCreated,
                           !.live = 0, !.liveHandles = 0, !.cleanup = TRUE]
       ELSE before

Opens ==
  /\ Running("initialize")
  /\ backend' = Opened
  /\ adapter' = [adapter EXCEPT !.state = "ready"]
  /\ counts' = Counted(TRUE) /\ Answer("success") /\ Rest
  /\ UNCHANGED <<jobs, memory, handles, lifecycle>>

\* No backend, one that failed and was closed, or one that threw and stays
\* for the cleanup.
OpenFails ==
  /\ Running("initialize")
  /\ \/ UNCHANGED <<backend, adapter>>
     \/ /\ backend' = [backend EXCEPT !.opened = @ + 1, !.closed = @ + 1]
        /\ adapter' = [adapter EXCEPT !.state = "closed"]
     \/ backend' = Opened /\ UNCHANGED adapter
  /\ counts' = Counted(FALSE) /\ Answer("error") /\ Rest
  /\ UNCHANGED <<jobs, memory, handles, lifecycle>>

\* The job of a failed initialization: it reports no error of its own.
Cleanup ==
  /\ Running("cleanup")
  /\ backend' = ClosedBackend
  /\ adapter' = AfterClose
  /\ counts' = Counted(TRUE) /\ Answer("success") /\ Rest
  /\ UNCHANGED <<jobs, memory, handles, lifecycle>>

Shutdown ==
  /\ Running("shutdown")
  /\ backend' = ClosedBackend
  /\ \E ok \in BOOLEAN:
       FinishClose(Counted(ok), ok) /\ Answer(IF ok THEN "success" ELSE "error")
  /\ adapter' = AfterClose
  /\ Rest
  /\ UNCHANGED <<jobs, lifecycle>>

\* The worker ends only when it was told to and no job is left.
MayExit == adapter.stopping /\ jobs = <<>>

\* Cleanup of last resort: no queue entry was needed to get here.
LastResort ==
  IF backend.is = "none" THEN UNCHANGED <<adapter, backend, memory, handles, counts>>
  ELSE /\ backend' = ClosedBackend
       /\ \E ok \in BOOLEAN: FinishClose(counts, ok)
       /\ adapter' = AfterClose

WorkerExits ==
  /\ worker.at = "idle" /\ MayExit
  /\ worker' = [worker EXCEPT !.at = "gone"]
  /\ LastResort
  /\ UNCHANGED <<jobs, client, lifecycle>>

------------------------------------------------------------------------------
Targets(kind) == IF kind \in {"free", "write", "read", "gemm"} THEN Address ELSE {None}

Begins(c) ==
  \/ \E kind \in DataKind: \E a \in Targets(kind): Call(c, kind, a)
  \/ \E kind \in {"initialize", "shutdown"}: Lock(c, kind)

Continues(c) ==
  \/ QueueIsShut(c) \/ Enqueue(c) \/ Return(c)
  \/ SecondAttempt(c) \/ StartWorker(c) \/ OpenQueue(c)
  \/ Initialized(c) \/ InitializeFailed(c)
  \/ ShutdownIdle(c) \/ ShutdownBegins(c) \/ StopWorker(c) \/ Join(c)

GemmSteps == GemmTile \/ GemmCompletes

Works ==
  \/ Take \/ RefuseJob \/ Decline \/ Malloc \/ Free \/ Transfer
  \/ GemmBegins \/ GemmSteps \/ BlasCreate \/ BlasDestroy \/ Query
  \/ Opens \/ Cleanup \/ Shutdown \/ WorkerExits

Faults ==
  \/ \E c \in Client: QueueFails(c) \/ ThreadFails(c)
  \/ MallocUnregistered \/ MallocPoisons \/ FreeFails \/ TransferFails
  \/ GemmFails \/ OpenFails

Next == (\E c \in Client: Begins(c) \/ Continues(c)) \/ Works \/ Faults

Spec == Init /\ [][Next]_vars

------------------------------------------------------------------------------
(* Properties                                                              *)

\* Every part of the adapter has its type.
CompatTypeOK ==
  /\ adapter \in [state: State, attempted: BOOLEAN, accepting: BOOLEAN,
                  stopping: BOOLEAN]
  /\ worker.at \in {"none", "idle", "job", "tiles", "gone"}
  /\ worker.done \in 0..Tiles
  /\ backend \in [is: {"none", "open"}, opened: 0..1, closed: 0..1]
  /\ \A a \in Address:
       memory[a] \in [held: {"no", "held", "retired"},
                      entry: {"none", "live", "dead"}, torn: BOOLEAN,
                      given: Nat]
  /\ handles \in [Handle -> {"none", "live", "dead"}]
  /\ \A c \in Client:
       /\ client[c].at \in {"idle", "queueing", "waiting", "answered", "locked",
                            "started", "joining"}
       /\ client[c].answer \in Status
  /\ lifecycle \in Client \cup {None}

\* A ready adapter has its backend: no data operation reaches a null or closed
\* one, whatever was queued around initialize and shutdown (adapter.cpp call,
\* shutdown).
ReadyHasBackend == adapter.state = "ready" => backend.is = "open"

\* When the worker has gone nothing is left behind: no job, no thread waiting
\* for one, and every backend that was opened was closed once - even when the
\* cleanup could not be queued (adapter.cpp worker_main).
WorkerLeavesNothing ==
  worker.at = "gone" =>
    /\ jobs = <<>> /\ ~adapter.accepting
    /\ \A c \in Client: ~At(c, "waiting")
    /\ backend.is = "none" /\ backend.opened = backend.closed

\* Memory a failed call may have left half written is never used again: the
\* adapter is poisoned (adapter.cpp result, runtime_backend.cpp gemm).
TornIsNeverUsed ==
  adapter.state = "ready" => \A a \in Address: ~memory[a].torn

\* A pointer the application freed never becomes valid again: no range is
\* handed out twice, even by a backend that reuses ranges (adapter.cpp
\* malloc_device, touches_managed).
StalePointersStayDead == \A a \in Address: memory[a].given <= 1

\* The ledger of live allocations and handles is that of the registry, and a
\* clean shutdown settles it; only a close that failed leaves it open
\* (adapter.cpp finish_close).
LedgerAgrees ==
  LET liveRanges == {a \in Address: memory[a].entry = "live"}
      liveHandles == {h \in Handle: handles[h] = "live"}
      settled == adapter.state # "closed" \/ counts.cleanup
  IN /\ settled => /\ counts.live = Cardinality(liveRanges)
                   /\ counts.liveHandles = Cardinality(liveHandles)
     /\ counts.live = counts.created - counts.released
     /\ counts.liveHandles = counts.handlesCreated - counts.handlesDestroyed
     /\ adapter.state = "closed" => liveRanges = {} /\ liveHandles = {}

\* Every call that was counted is completed, rejected or still under way; the
\* one rejection too many is a worker thread that could not be created
\* (adapter.cpp call, record).
CallsBalance ==
  counts.attempted + counts.unstarted =
    counts.completed + counts.rejected
    + Cardinality({c \in Client: client[c].at \in {"queueing", "waiting"}})

\* The lifecycle only advances: one initialization, a poisoned adapter is never
\* ready again and a closed one never reopens (docs/cuda-compat.md:61).
Rank == [uninitialized |-> 0, initializing |-> 1, ready |-> 2, poisoned |-> 3,
         closed |-> 4]
LifecycleAdvances == Rank[adapter.state] <= Rank[adapter.state']
==============================================================================
