---------------------------- MODULE CpuCodecPool ----------------------------
(***************************************************************************)
(* The bounded pool of CPU codec workers (src/residency/cpu_codec_pool.cpp).*)
(*                                                                         *)
(* A step is what happens under one hold of `mutex`, with one exception    *)
(* the code makes itself: a worker that has found nothing to do holds the  *)
(* mutex until it is really asleep ("parking"), and the constructor's      *)
(* clean-up sets `closing` without taking the mutex at all.                *)
(* The bytes of a job are abstracted to the ticket they belong to.         *)
(***************************************************************************)
EXTENDS Naturals, Sequences, FiniteSets, SequencesExt

CONSTANTS
  Client,      (* Threads that submit, poll, wait and close.                 *)
  Worker,      (* The worker threads (worker_count of them).                 *)
  Capacity,    (* queue_capacity                                             *)
  MaxJobs,     (* Bound on next_operation_id.                                *)
  SpawnFails,  (* Whether the system may refuse to create a thread.          *)
  NoJob, NoClient

Job == 1..MaxJobs

PoolAssumption ==
  /\ Capacity \in Nat \ {0} /\ MaxJobs \in Nat
  /\ IsFiniteSet(Worker) /\ Worker # {}
  /\ SpawnFails \in BOOLEAN
  /\ NoJob \notin Job /\ NoClient \notin Client

VARIABLES
  pool,     (* accepting, closing, joined; stage of the constructor; who
               holds close_mutex.                                            *)
  job,      (* The jobs submitted: stage, status of the result, how often it
               was executed and handed out, and whether `jobs` still has it. *)
  queue,    (* queue                                                         *)
  worker,   (* Where each worker is, and the job it executes.                *)
  client    (* The wait() each client is in.                                 *)

poolVars == <<pool, job, queue, worker, client>>

Status == {"success", "codec_failure", "allocation_failure", "internal_failure"}
Submitted == DOMAIN job
Outstanding == {j \in Submitted : job[j].kept}
MutexFree == \A w \in Worker : worker[w].pc # "parking"
Parked == {w \in Worker : worker[w].pc = "parked"}
Ready == {w \in Worker : worker[w].pc = "ready"}
Idle == [pc |-> "idle", job |-> NoJob, take |-> FALSE]

PoolInit ==
  /\ pool = [stage |-> "spawning", accepting |-> TRUE, closing |-> FALSE, joined |-> FALSE,
             closer |-> NoClient]
  /\ job = <<>> /\ queue = <<>>
  /\ worker = [w \in Worker |-> [pc |-> "none", job |-> NoJob]]
  /\ client = [c \in Client |-> Idle]

-----------------------------------------------------------------------------
(* The constructor. *)

Spawn(w) ==
  /\ pool.stage = "spawning" /\ worker[w].pc = "none"
  /\ worker' = [worker EXCEPT ![w].pc = "ready"]
  /\ pool' = [pool EXCEPT !.stage =
                IF \A v \in Worker \ {w} : worker[v].pc # "none" THEN "valid" ELSE "spawning"]
  /\ UNCHANGED <<job, queue, client>>

(* A thread cannot be created: the flags change without the mutex. *)
SpawnThrows ==
  /\ SpawnFails /\ pool.stage = "spawning"
  /\ pool' = [pool EXCEPT !.stage = "undoing", !.accepting = FALSE, !.closing = TRUE]
  /\ UNCHANGED <<job, queue, worker, client>>

Awoken == [w \in Worker |-> IF w \in Parked THEN [worker[w] EXCEPT !.pc = "ready"] ELSE worker[w]]

UndoNotify ==
  /\ pool.stage = "undoing"
  /\ pool' = [pool EXCEPT !.stage = "joining"]
  /\ worker' = Awoken
  /\ UNCHANGED <<job, queue, client>>

UndoJoin ==
  /\ pool.stage = "joining"
  /\ \A w \in Worker : worker[w].pc \in {"none", "exited"}
  /\ pool' = [pool EXCEPT !.stage = "invalid"]
  /\ UNCHANGED <<job, queue, worker, client>>

-----------------------------------------------------------------------------
(* worker_loop *)

Popped(w) == [worker EXCEPT ![w] = [pc |-> "running", job |-> Head(queue)]]
TakeJob(w) ==
  /\ worker[w].pc = "ready" /\ MutexFree /\ queue # <<>>
  /\ worker' = Popped(w)
  /\ job' = [job EXCEPT ![Head(queue)].stage = "running", ![Head(queue)].runs = @ + 1]
  /\ queue' = Tail(queue)
  /\ UNCHANGED <<pool, client>>

MayExit(w) == worker[w].pc = "ready" /\ MutexFree /\ queue = <<>> /\ pool.closing
Exit(w) ==
  /\ MayExit(w)
  /\ worker' = [worker EXCEPT ![w].pc = "exited"]
  /\ UNCHANGED <<pool, job, queue, client>>

Park(w) ==
  /\ worker[w].pc = "ready" /\ MutexFree /\ queue = <<>> /\ ~pool.closing
  /\ worker' = [worker EXCEPT ![w].pc = "parking"]
  /\ UNCHANGED <<pool, job, queue, client>>

Sleep(w) ==
  /\ worker[w].pc = "parking"
  /\ worker' = [worker EXCEPT ![w].pc = "parked"]
  /\ UNCHANGED <<pool, job, queue, client>>

(* A condition variable may wake a thread nobody notified. *)
Wake(w) ==
  /\ worker[w].pc = "parked"
  /\ worker' = [worker EXCEPT ![w].pc = "ready"]
  /\ UNCHANGED <<pool, job, queue, client>>

(* execute, and the second critical section of worker_loop. *)
Execute(w) ==
  /\ worker[w].pc = "running" /\ MutexFree
  /\ \E s \in Status :
       job' = [job EXCEPT ![worker[w].job].stage = "complete", ![worker[w].job].status = s]
  /\ worker' = [worker EXCEPT ![w] = [pc |-> "ready", job |-> NoJob]]
  /\ UNCHANGED <<pool, queue, client>>

WorkerStep(w) == TakeJob(w) \/ Exit(w) \/ Park(w) \/ Sleep(w) \/ Execute(w)

-----------------------------------------------------------------------------
(* submit *)

Full == Cardinality(Outstanding) >= Capacity

MayAccept == pool.stage = "valid" /\ MutexFree /\ pool.accepting /\ ~Full

Notifies == TRUE

NextJob == Cardinality(Submitted) + 1

(* A job is entered in `jobs` and in `queue`, and one sleeper is woken. *)
Accept(j) ==
  /\ MayAccept /\ j = NextJob /\ j <= MaxJobs
  /\ job' = [k \in Submitted \union {j} |->
               IF k = j THEN [stage |-> "queued", status |-> "none", runs |-> 0, taken |-> 0,
                              kept |-> TRUE]
               ELSE job[k]]
  /\ queue' = Append(queue, j)
  /\ IF Notifies /\ Parked # {}
     THEN \E w \in Parked : worker' = [worker EXCEPT ![w].pc = "ready"]
     ELSE worker' = worker
  /\ UNCHANGED pool

(* submit's refusals. An allocation that fails leaves nothing behind. *)
Refuses(status) ==
  \/ status = "invalid_configuration" /\ pool.stage = "invalid"
  \/ status = "closed" /\ pool.stage = "valid" /\ MutexFree /\ ~pool.accepting
  \/ status = "queue_full" /\ pool.stage = "valid" /\ MutexFree /\ pool.accepting /\ Full
  \/ status = "allocation_failure" /\ MayAccept

Submit(c) ==
  /\ client[c] = Idle
  /\ Accept(NextJob)
  /\ UNCHANGED client

-----------------------------------------------------------------------------
(* collect: poll and wait. *)

(* The result is moved out and the job leaves `jobs`; without a result the  *)
(* caller only learns the status.                                           *)
HandOutTwice(j, take) == TRUE  \* mutant
Claimable(j, take) == take => job[j].taken = 0
Deliver(j, take) ==
  /\ pool.stage = "valid" /\ MutexFree
  /\ job[j].stage = "complete" /\ Claimable(j, take)
  /\ job' = IF take THEN [job EXCEPT ![j].taken = @ + 1, ![j].kept = FALSE] ELSE job
  /\ UNCHANGED <<pool, queue, worker>>

Poll(c, j, take) ==
  /\ client[c] = Idle /\ job[j].kept
  /\ Deliver(j, take)
  /\ UNCHANGED client

CallWait(c, j, take) ==
  /\ client[c] = Idle
  /\ pool.stage = "valid" /\ MutexFree /\ job[j].kept /\ job[j].stage # "complete"
  /\ client' = [client EXCEPT ![c] = [pc |-> "wait", job |-> j, take |-> take]]
  /\ UNCHANGED <<pool, job, queue, worker>>

(* The waiter kept its own reference to the job: it may be gone from `jobs`. *)
WaitDelivers(c) ==
  /\ client[c].pc = "wait"
  /\ Deliver(client[c].job, client[c].take)
  /\ client' = [client EXCEPT ![c] = Idle]

WaitIsStale(c) ==
  /\ client[c].pc = "wait" /\ MutexFree
  /\ job[client[c].job].stage = "complete" /\ ~Claimable(client[c].job, client[c].take)
  /\ client' = [client EXCEPT ![c] = Idle]
  /\ UNCHANGED <<pool, job, queue, worker>>

WaitTimesOut(c) ==
  /\ client[c].pc = "wait" /\ MutexFree
  /\ job[client[c].job].stage # "complete"
  /\ client' = [client EXCEPT ![c] = Idle]
  /\ UNCHANGED <<pool, job, queue, worker>>

-----------------------------------------------------------------------------
(* close *)

CallClose(c) ==
  /\ client[c] = Idle /\ pool.stage = "valid" /\ pool.closer = NoClient
  /\ ~pool.joined
  /\ pool' = [pool EXCEPT !.closer = c]
  /\ client' = [client EXCEPT ![c].pc = "close"]
  /\ UNCHANGED <<job, queue, worker>>

CloseStops(c) ==
  /\ client[c].pc = "close" /\ MutexFree
  /\ pool' = [pool EXCEPT !.accepting = FALSE, !.closing = TRUE]
  /\ client' = [client EXCEPT ![c].pc = "notify"]
  /\ UNCHANGED <<job, queue, worker>>

CloseNotifies(c) ==
  /\ client[c].pc = "notify"
  /\ worker' = Awoken
  /\ client' = [client EXCEPT ![c].pc = "join"]
  /\ UNCHANGED <<pool, job, queue>>

CloseJoins(c) ==
  /\ client[c].pc = "join" /\ \A w \in Worker : worker[w].pc = "exited"
  /\ pool' = [pool EXCEPT !.joined = TRUE, !.closer = NoClient]
  /\ client' = [client EXCEPT ![c] = Idle]
  /\ UNCHANGED <<job, queue, worker>>

CloseStep(c) == CloseStops(c) \/ CloseNotifies(c) \/ CloseJoins(c)

-----------------------------------------------------------------------------
ConstructorStep == UndoNotify \/ UndoJoin \/ \E w \in Worker : Spawn(w)

PoolNext ==
  \/ ConstructorStep \/ SpawnThrows
  \/ \E w \in Worker : WorkerStep(w) \/ Wake(w)
  \/ \E c \in Client :
       \/ Submit(c)
       \/ \E j \in Submitted, take \in BOOLEAN : Poll(c, j, take) \/ CallWait(c, j, take)
       \/ WaitDelivers(c) \/ WaitIsStale(c) \/ WaitTimesOut(c)
       \/ CallClose(c) \/ CloseStep(c)

PoolSpec == PoolInit /\ [][PoolNext]_poolVars

-----------------------------------------------------------------------------
(* The types of the pool's state. *)
TypeOK ==
  /\ pool \in [stage : {"spawning", "valid", "undoing", "joining", "invalid"},
               accepting : BOOLEAN, closing : BOOLEAN, joined : BOOLEAN,
               closer : Client \union {NoClient}]
  /\ Submitted \in SUBSET Job
  /\ \A j \in Submitted :
       job[j] \in [stage : {"queued", "running", "complete"}, status : Status \union {"none"},
                   runs : Nat, taken : Nat, kept : BOOLEAN]
  /\ queue \in Seq(Job) /\ IsInjective(queue)
  /\ worker \in [Worker -> [pc : {"none", "ready", "running", "parking", "parked", "exited"},
                            job : Job \union {NoJob}]]
  /\ client \in [Client -> [pc : {"idle", "wait", "close", "notify", "join"},
                            job : Job \union {NoJob}, take : BOOLEAN]]

(* A job is executed once and its result handed to one caller, however many *)
(* threads wait for it (the claimed flag, the early pop).                   *)
ConsumedOnce == \A j \in Submitted : job[j].runs <= 1 /\ job[j].taken <= 1

(* queue_capacity bounds what the pool owes, results not yet collected      *)
(* included (the comment before poll: one capacity unit per result).        *)
OutstandingBounded == Cardinality(Outstanding) <= Capacity

(* A worker sleeps only while everyone awake can take all that is queued:   *)
(* no job waits for a notification that went to nobody.                     *)
NoJobBesideSleepers == Parked # {} /\ ~pool.closing => Len(queue) <= Cardinality(Ready)

(* close drains: once the workers are joined every job accepted before has  *)
(* its result, and all results not collected are still there to be polled.  *)
CloseDrains ==
  pool.joined => /\ queue = <<>>
                 /\ \A j \in Submitted : /\ job[j].stage = "complete"
                                         /\ job[j].kept \/ job[j].taken = 1
=============================================================================
