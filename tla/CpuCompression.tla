--------------------------- MODULE CpuCompression ---------------------------
(***************************************************************************)
(* CPU compression of a chunk (prepare_cpu_compression and                 *)
(* consider_compression in src/residency/runtime.cpp) over the codec pool. *)
(*                                                                         *)
(* The runtime is the pool's only client. It charges the candidate and the *)
(* scratch space of a preparation to the host budget, feeds the blocks to  *)
(* the pool in batches no longer than the queue, and collects each batch   *)
(* before the next. Block contents, sizes and the cost model are choices;  *)
(* releasing a reservation the ledger holds does not fail (HostBudget).    *)
(***************************************************************************)
EXTENDS CpuCodecPool

CONSTANTS
  Blocks,      (* Blocks of a chunk.                                         *)
  MaxPreps,    (* Bound on the preparations of a behaviour.                  *)
  AllocFails   (* Whether an input buffer may fail to be allocated.          *)

Runtime == CHOOSE c \in Client : TRUE
Prep == 1..MaxPreps

CompressionAssumption ==
  /\ Cardinality(Client) = 1
  /\ Blocks \in Nat \ {0} /\ MaxPreps \in Nat /\ AllocFails \in BOOLEAN

VARIABLES
  prep,     (* The preparation under way: its number, attempt, next block,
               end of the batch, jobs pending, and whether it went wrong.    *)
  ledger,   (* Preparations whose scratch, and whose candidate, is charged.  *)
  jobPrep,  (* The preparation each job belongs to.                          *)
  rt        (* cpu_codec_timeout_, launches_blocked_, the generation counters,
               and the preparations an exception ended.                      *)

vars == <<pool, job, queue, worker, client, prep, ledger, jobPrep, rt>>

Resting == [pc |-> "idle", id |-> 0, attempt |-> 0, next |-> 0, end |-> 0, pending |-> <<>>,
            bad |-> FALSE]
BatchEnd(first) == IF first + Capacity < Blocks THEN first + Capacity ELSE Blocks

Init ==
  /\ PoolInit
  /\ prep = Resting
  /\ ledger = [scratch |-> {}, candidate |-> {}]
  /\ jobPrep = <<>>
  /\ rt = [timeout |-> FALSE, blocked |-> FALSE, created |-> 0, committed |-> 0,
           discarded |-> 0, threw |-> {}, preps |-> 0]

Without(id) == [scratch |-> ledger.scratch \ {id}, candidate |-> ledger.candidate \ {id}]

-----------------------------------------------------------------------------
(* An attempt of consider_compression: the two reservations. *)

(* Only the return of the call matters once it failed: a timeout blocks     *)
(* launches, and stays for every later failure to be reported as.           *)
Fails(r) == [r EXCEPT !.blocked = @ \/ r.timeout]

(* The next attempt starts over with new reservations, the scratch one may  *)
(* not fit. attempts is 3, or 1 when the path is forced.                    *)
Begin(attempt) ==
  /\ rt.preps < MaxPreps /\ pool.stage = "valid"
  /\ LET id == rt.preps + 1 IN
     \/ /\ prep' = [Resting EXCEPT !.pc = "submit", !.id = id, !.attempt = attempt,
                                   !.end = BatchEnd(0)]
        /\ ledger' = [scratch |-> ledger.scratch \union {id},
                      candidate |-> ledger.candidate \union {id}]
        /\ rt' = [rt EXCEPT !.preps = id]
     \/ /\ prep' = Resting
        /\ rt' = Fails([rt EXCEPT !.preps = id])
        /\ UNCHANGED ledger

Consider ==
  /\ prep = Resting /\ client[Runtime] = Idle /\ ~pool.joined
  /\ Begin(1)
  /\ UNCHANGED <<poolVars, jobPrep>>

Reconsider ==
  /\ prep.pc = "again"
  /\ IF prep.attempt < 3 /\ rt.preps < MaxPreps
     THEN Begin(prep.attempt + 1)
     ELSE prep' = Resting /\ UNCHANGED <<ledger, rt>>
  /\ UNCHANGED <<poolVars, jobPrep>>

-----------------------------------------------------------------------------
(* prepare_cpu_compression *)

(* A block equal to the one before it is not submitted. *)
Repeats ==
  /\ prep.pc = "submit" /\ prep.next < prep.end /\ prep.next # 0
  /\ prep' = [prep EXCEPT !.next = @ + 1]
  /\ UNCHANGED <<poolVars, ledger, jobPrep, rt>>

SubmitBlock ==
  /\ prep.pc = "submit" /\ prep.next < prep.end
  /\ Accept(NextJob)
  /\ prep' = [prep EXCEPT !.next = @ + 1, !.pending = Append(@, NextJob)]
  /\ jobPrep' = Append(jobPrep, prep.id)
  /\ UNCHANGED <<client, ledger, rt>>

SubmitFails ==
  /\ prep.pc = "submit" /\ prep.next < prep.end
  /\ Refuses("queue_full") \/ Refuses("allocation_failure")
  /\ prep' = [prep EXCEPT !.pc = "collect", !.bad = TRUE]
  /\ UNCHANGED <<poolVars, ledger, jobPrep, rt>>

(* No memory for a block's input: the handler releases both reservations    *)
(* and forgets the jobs already accepted.                                   *)
Throws ==
  /\ AllocFails /\ prep.pc = "submit" /\ prep.next < prep.end
  /\ ledger' = Without(prep.id)
  /\ rt' = Fails([rt EXCEPT !.threw = @ \union {prep.id}])
  /\ prep' = Resting
  /\ UNCHANGED <<poolVars, jobPrep>>

EndOfBatch ==
  /\ prep.pc = "submit" /\ prep.next = prep.end
  /\ prep' = [prep EXCEPT !.pc = "collect"]
  /\ UNCHANGED <<poolVars, ledger, jobPrep, rt>>

LeftAfter(b) == Tail(prep.pending)

(* A result that is not a success spoils the batch, but the others are      *)
(* still collected.                                                         *)
Collect ==
  /\ prep.pc = "collect" /\ prep.pending # <<>>
  /\ LET j == Head(prep.pending) IN
       /\ Deliver(j, TRUE)
       /\ LET b == prep.bad \/ job[j].status # "success" IN
            prep' = [prep EXCEPT !.pending = LeftAfter(b), !.bad = b]
  /\ UNCHANGED <<client, ledger, jobPrep, rt>>

CollectTimesOut ==
  /\ prep.pc = "collect" /\ prep.pending # <<>> /\ MutexFree
  /\ job[Head(prep.pending)].stage # "complete"
  /\ prep' = [prep EXCEPT !.pending = Tail(@), !.bad = TRUE]
  /\ rt' = [rt EXCEPT !.timeout = TRUE]
  /\ UNCHANGED <<poolVars, ledger, jobPrep>>

ReleaseUnlessTimedOut == IF rt.timeout THEN ledger ELSE Without(prep.id)

(* The batch went wrong. The charge of a preparation that timed out is      *)
(* kept: a worker may still use its buffers.                                *)
PrepareFails ==
  /\ prep.pc = "collect" /\ prep.pending = <<>> /\ prep.bad
  /\ ledger' = ReleaseUnlessTimedOut
  /\ rt' = Fails(rt)
  /\ prep' = Resting
  /\ UNCHANGED <<poolVars, jobPrep>>

NextBatch ==
  /\ prep.pc = "collect" /\ prep.pending = <<>> /\ ~prep.bad
  /\ prep.next < Blocks
  /\ prep' = [prep EXCEPT !.pc = "submit", !.end = BatchEnd(prep.next)]
  /\ UNCHANGED <<poolVars, ledger, jobPrep, rt>>

(* The candidate is whole: its scratch is given back. *)
Built ==
  /\ prep.pc = "collect" /\ prep.pending = <<>> /\ ~prep.bad
  /\ prep.next = Blocks
  /\ rt' = [rt EXCEPT !.created = @ + 1]
  /\ ledger' = [ledger EXCEPT !.scratch = @ \ {prep.id}]
  /\ prep' = [prep EXCEPT !.pc = "decide"]
  /\ UNCHANGED <<poolVars, jobPrep>>

-----------------------------------------------------------------------------
(* What becomes of the candidate. *)

Discarded == [rt EXCEPT !.discarded = @ + 1]

(* Not smaller than the chunk, reported under the sticky timeout if there   *)
(* was one; or smaller, and the cost model prefers the raw form.            *)
Reject ==
  /\ prep.pc = "decide"
  /\ ledger' = Without(prep.id)
  /\ \/ /\ rt.timeout
        /\ rt' = Fails(Discarded)
        /\ prep' = Resting
     \/ /\ rt' = Discarded
        /\ prep' = [prep EXCEPT !.pc = "again"]
  /\ UNCHANGED <<poolVars, jobPrep>>

(* commit_lz4_blocks takes the reservation over, or refuses. *)
Commit ==
  /\ prep.pc = "decide"
  /\ ledger' = Without(prep.id)
  /\ \/ rt' = [rt EXCEPT !.committed = @ + 1]
     \/ rt' = Discarded
  /\ prep' = Resting
  /\ UNCHANGED <<poolVars, jobPrep>>

PrepareStep ==
  \/ Reconsider \/ Repeats \/ SubmitBlock \/ SubmitFails \/ EndOfBatch \/ Collect
  \/ CollectTimesOut \/ PrepareFails \/ NextBatch \/ Built \/ Reject \/ Commit

(* Runtime::close closes the pool. *)
ClosePool ==
  /\ prep = Resting
  /\ CallClose(Runtime) \/ CloseStep(Runtime)
  /\ UNCHANGED <<prep, ledger, jobPrep, rt>>

PoolStep ==
  /\ ConstructorStep \/ \E w \in Worker : WorkerStep(w)
  /\ UNCHANGED <<prep, ledger, jobPrep, rt>>

Next ==
  \/ Consider \/ PrepareStep \/ Throws \/ ClosePool \/ PoolStep

Spec == Init /\ [][Next]_vars

-----------------------------------------------------------------------------
(* The types of the preparation's state. *)
PrepTypeOK ==
  /\ prep \in [pc : {"idle", "submit", "collect", "decide", "again"}, id : 0..MaxPreps,
               attempt : 0..3, next : 0..Blocks, end : 0..Blocks, pending : Seq(Submitted),
               bad : BOOLEAN]
  /\ ledger.scratch \subseteq Prep /\ ledger.candidate \subseteq Prep
  /\ jobPrep \in Seq(Prep) /\ DOMAIN jobPrep = Submitted
  /\ rt.preps \in 0..MaxPreps /\ rt.threw \subseteq Prep
  /\ Len(prep.pending) <= Capacity

(* "every transient side is covered by scratch credit" (runtime.cpp, the    *)
(* comment before the reservations): while a worker may touch the buffers   *)
(* of a job, the scratch of its preparation is charged. It holds where no   *)
(* allocation failure intervened, timeouts included: a job somebody gave up *)
(* on keeps its charge.                                                     *)
Charged(j) == job[j].kept => jobPrep[j] \in ledger.scratch
AbandonedJobsStayCharged == \A j \in Submitted : jobPrep[j] \notin rt.threw => Charged(j)

(* The preparation starts with the pool to itself: unless a wait timed out  *)
(* or an exception left jobs behind, no earlier job holds a capacity unit,  *)
(* so no batch is refused for want of room.                                 *)
PoolLeftEmpty ==
  ~rt.timeout /\ rt.threw = {} =>
    /\ \A j \in Outstanding : jobPrep[j] = prep.id
    /\ prep.pc = "submit" /\ prep.next < prep.end => ~Full

(* Every complete candidate generation is committed or recorded discarded   *)
(* (the comment at ++generations_created).                                  *)
GenerationsAccounted ==
  rt.created = rt.committed + rt.discarded + (IF prep.pc = "decide" THEN 1 ELSE 0)

(* At rest the ledger holds nothing but what a timeout left charged.        *)
NothingChargedAtRest ==
  prep = Resting /\ ~rt.timeout => ledger.scratch = {} /\ ledger.candidate = {}
=============================================================================
