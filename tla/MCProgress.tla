----------------------------- MODULE MCProgress -----------------------------
(***************************************************************************)
(* What must end, for TLC: the components that owe somebody an answer,     *)
(* each under the fairness its scheduling justifies.                       *)
(*                                                                         *)
(* They share no state: "focus" names the one that moves. A variable is    *)
(* that of the component in focus; the others rest. Fairness is asked of   *)
(* the actions of the component in focus only, for the others have none.   *)
(***************************************************************************)
EXTENDS Integers, Sequences, FiniteSets

CONSTANTS Nobody, None, NoOp, NoThread, NoAlloc, NoJob, NoClient, NoTicket,
          c1, c2, w1, w2, a1, h1

VARIABLES
  focus,                                                \* the component that moves
  ses, snap, alloc, th,                                             \* of the SDK session
  pool, job,                                                        \* of the codec pool
  slots, events, issued, open, dirty,                               \* of the nvCOMP pipeline
  seg, emergency, poisoned, stats, drv, work, depth,                \* of PyTorch's allocator
  adapter, jobs, backend, memory, handles, counts, lifecycle,       \* of the CUDA adapter
  problem, cache, geometry, outcome, tiles,                         \* of the out-of-core product
  pinned, backing, res, result, ledger,                             \* of the proof of concept
  prog, w, rd, ctl, clock,                                          \* of the worker process
  chunk, dev, written, token, prefetched, target, todo, got, trace, freed,\* of the cache manager
  graph, plan, at, be, native, mem,                                 \* of inference
  gpu, spill, scratch, ticket, latest,                              \* of a chunk's transfers
  others, hostload, b,                                      \* of the VRAM budget
  queue, worker, client, operation, rt, stream, pipe, run, faults,
  frame, slot, host, call                                           \* of several

session == <<ses, snap, alloc, th>>
codec == <<pool, job>>
pipeline == <<slots, events, issued, open, dirty>>
allocator == <<seg, emergency, poisoned, stats, drv, work, depth>>
compat == <<adapter, jobs, backend, memory, handles, counts, lifecycle>>
gemm == <<problem, cache, geometry, outcome, tiles>>
proof == <<pinned, backing, res, result, ledger>>
process == <<prog, w, rd, ctl, clock>>
manager == <<chunk, dev, written, token, prefetched, target, todo, got, trace, freed>>
inference == <<graph, plan, at, be, native, mem>>
transfer == <<gpu, spill, scratch, ticket, latest>>
budget == <<others, hostload, b>>
suite == <<focus, session, codec, pipeline, allocator, compat, gemm, proof, process,
           manager, inference, transfer, budget, queue, worker, client, operation, rt,
           stream, pipe, run, faults, frame, slot, host, call>>

-----------------------------------------------------------------------------
Compute(args, size) == [op |-> "compute", args |-> args, size |-> size, key |-> 0]
Chain ==
  {[nodes |-> <<[op |-> "input", args |-> {}, size |-> 1, key |-> 0],
                [op |-> "state", args |-> {}, size |-> 1, key |-> 7],
                Compute({1}, 1), Compute({2, 3}, 1)>>, outputs |-> {4}]}
Whole(id, rows, columns) ==
  [id |-> id, size |-> 40, offset |-> 0, rows |-> rows, columns |-> columns,
   ld |-> columns, layout |-> "row"]
Product ==
  {[m |-> 2, n |-> 3, k |-> 3, opA |-> "none", opB |-> "none", zeroBeta |-> zero,
    narrow |-> FALSE, a |-> Whole(1, 2, 3), b |-> Whole(2, 3, 3), c |-> Whole(3, 2, 3)] :
     zero \in BOOLEAN}

Session == INSTANCE SessionWorker WITH
  op <- operation, Thread <- {c1, c2}, Alloc <- {a1}, MaxOps <- 1,
  AsyncKinds <- {}, SyncKinds <- {"allocate"}
Alone == INSTANCE SessionWorker WITH
  op <- operation, Thread <- {c1}, Alloc <- {a1}, MaxOps <- 2,
  AsyncKinds <- {"gemm"}, SyncKinds <- {"allocate"}
Pool == INSTANCE CpuCodecPool WITH
  Client <- {c1, c2}, Worker <- {w1, w2}, Capacity <- 1, MaxJobs <- 1, SpawnFails <- FALSE
Pipeline == INSTANCE NvcompPipeline WITH SlotCount <- 2, MaxGeneration <- 1, MaxOperation <- 2
Allocator == INSTANCE TorchAllocator WITH
  op <- operation, Addr <- {c1, c2}, Requested <- 1, Mapped <- 2
Adapter == INSTANCE CompatAdapter WITH
  Client <- {c1, c2}, Address <- {a1}, Handle <- {h1}, Tiles <- 2, MaxCalls <- 2,
  MaxQueueFailures <- 0
Tiled == INSTANCE TiledGemm WITH
  Problems <- Product, Caches <- {[chunk |-> 2, capacity |-> 8]},
  Preferred <- [m |-> 2, n |-> 2, k |-> 2], Element <- 1,
  Alignment <- 2, MaxTiles <- 20, MaxRanges <- 20, PrefetchDistance <- 2
Poc == INSTANCE VmmPoc WITH
  N <- 2, Tiles <- 2, Passes <- 2, Requested <- "pipeline", MaxFaults <- 1
Worker == INSTANCE WorkerProcess WITH
  Programs <- {"gemm"}, Codes <- {0}, MaxSteps <- 1, MaxBeats <- 1,
  MaxTraces <- 1, PipeRoom <- 2, Quiet <- 1, Overall <- 2, MaxFaults <- 1
Cache == INSTANCE CacheManager WITH
  Chunks <- 3, Cap <- 2, HSlots <- 1, DSlots <- 1, Distance <- 1, Ops <- 1, Workloads <- 1,
  Headroom <- 0, SafeSamples <- 2, GrowthStep <- 1, GrowthReserve <- 1,
  MaxFaults <- 1, MaxOom <- 0, FreeSamples <- {4}
Inference == INSTANCE InferenceRuntime WITH Graphs <- Chain, MaxRuns <- 2, MaxFaults <- 1
Transfer == INSTANCE CodecTransfer WITH
  Chunk <- {1, 2, 3}, Raw <- 3, Lz4 <- {1}, Block <- 1, Limit <- 7, Writes <- 1, MaxFaults <- 0
(* Room for three frames, the pipeline and the reserve, unless somebody    *)
(* else takes 13 of the 20 units.                                          *)
Budget == INSTANCE BudgetControl WITH
  Device <- 20, Limit <- 12, Headroom <- 1, Chunk <- 2, Codec <- 3, Reserve <- 2, Pinned <- 1,
  HostLimit <- 2, HasCodec <- TRUE, Loads <- {0, 13}, HostLoads <- {0}, SetupLoad <- 0,
  Requests <- {2}, Workspaces <- {0, 2}, GrowSamples <- 2, RestoreSamples <- 2,
  PrefetchInLease <- FALSE, MaxFaults <- 0

ASSUME /\ Session!SessionAssumption /\ Alone!SessionAssumption
       /\ Pool!PoolAssumption /\ Pipeline!PipelineAssumption
       /\ Allocator!AllocatorAssumption /\ Adapter!CompatAssumption
       /\ Tiled!PlanAssumption /\ Tiled!PrefetchAssumption /\ Poc!VmmPocAssumption
       /\ Worker!WorkerAssumption /\ Cache!CacheAssumption
       /\ Inference!InferenceAssumption /\ Transfer!CodecAssumption
       /\ Budget!BudgetAssumption

-----------------------------------------------------------------------------
NoSession == ses = Nobody /\ snap = Nobody /\ alloc = Nobody /\ th = Nobody
NoCodec == pool = Nobody /\ job = Nobody
NoPipeline ==
  /\ slots = Nobody /\ events = Nobody /\ issued = Nobody
  /\ open = Nobody /\ dirty = Nobody
NoAllocator ==
  /\ seg = Nobody /\ emergency = Nobody /\ poisoned = Nobody /\ stats = Nobody
  /\ drv = Nobody /\ work = Nobody /\ depth = Nobody
NoCompat ==
  /\ adapter = Nobody /\ jobs = Nobody /\ backend = Nobody /\ memory = Nobody
  /\ handles = Nobody /\ counts = Nobody /\ lifecycle = Nobody
NoGemm ==
  /\ problem = Nobody /\ cache = Nobody /\ geometry = Nobody
  /\ outcome = Nobody /\ tiles = Nobody
NoProof ==
  /\ pinned = Nobody /\ backing = Nobody /\ res = Nobody
  /\ result = Nobody /\ ledger = Nobody
NoProcess == prog = Nobody /\ w = Nobody /\ rd = Nobody /\ ctl = Nobody /\ clock = Nobody
NoManager ==
  /\ chunk = Nobody /\ dev = Nobody /\ written = Nobody /\ token = Nobody /\ prefetched = Nobody
  /\ target = Nobody /\ todo = Nobody /\ got = Nobody /\ trace = Nobody /\ freed = Nobody
NoInference ==
  /\ graph = Nobody /\ plan = Nobody /\ at = Nobody
  /\ be = Nobody /\ native = Nobody /\ mem = Nobody
NoTransfer ==
  /\ gpu = Nobody /\ spill = Nobody /\ scratch = Nobody
  /\ ticket = Nobody /\ latest = Nobody
NoBudget == others = Nobody /\ hostload = Nobody /\ b = Nobody

ProgressInit ==
  /\ focus \in {"alone", "session", "codec", "pipeline", "allocator", "compat", "gemm",
               "proof", "process", "manager", "inference", "transfer", "budget"}
  /\ CASE focus = "session" -> Session!Init [] focus = "alone" -> Alone!Init [] OTHER -> NoSession
  /\ IF focus = "codec" THEN Pool!PoolInit ELSE NoCodec
  /\ IF focus = "pipeline" THEN Pipeline!PipelineInit ELSE NoPipeline
  /\ IF focus = "allocator" THEN Allocator!AllocatorInit ELSE NoAllocator
  /\ IF focus = "compat" THEN Adapter!Init ELSE NoCompat
  /\ IF focus = "gemm" THEN Tiled!TiledInit ELSE NoGemm
  /\ IF focus = "proof" THEN Poc!Init ELSE NoProof
  /\ IF focus = "process" THEN Worker!Init ELSE NoProcess
  /\ IF focus = "manager" THEN Cache!Init ELSE NoManager
  /\ IF focus = "inference" THEN Inference!Init ELSE NoInference
  /\ IF focus = "transfer" THEN Transfer!Init ELSE NoTransfer
  /\ IF focus = "budget" THEN Budget!Init ELSE NoBudget
  /\ IF focus \in {"session", "codec", "manager", "alone"} THEN TRUE ELSE queue = Nobody
  /\ IF focus \in {"session", "codec", "compat", "alone"} THEN TRUE ELSE worker = Nobody
  /\ IF focus \in {"codec", "compat"} THEN TRUE ELSE client = Nobody
  /\ IF focus \in {"session", "allocator", "alone"} THEN TRUE ELSE operation = Nobody
  /\ IF focus \in {"session", "inference", "transfer", "alone"} THEN TRUE ELSE rt = Nobody
  /\ IF focus \in {"pipeline", "proof", "manager"} THEN TRUE ELSE stream = Nobody
  /\ IF focus \in {"pipeline", "process"} THEN TRUE ELSE pipe = Nobody
  /\ IF focus \in {"gemm", "proof", "manager", "inference"} THEN TRUE ELSE run = Nobody
  /\ IF focus \in {"proof", "process", "inference", "transfer", "budget"} THEN TRUE ELSE faults = Nobody
  /\ IF focus \in {"proof", "manager"} THEN TRUE ELSE frame = Nobody
  /\ IF focus \in {"proof", "manager"} THEN TRUE ELSE slot = Nobody
  /\ IF focus \in {"manager", "transfer"} THEN TRUE ELSE host = Nobody
  /\ IF focus \in {"transfer", "budget"} THEN TRUE ELSE call = Nobody

OfSession(A) ==
  /\ focus = "session" /\ A
  /\ UNCHANGED <<focus, codec, pipeline, allocator, compat, gemm, proof, process, manager,
                 inference, transfer, budget, client, stream, pipe, run, faults, frame,
                 slot, host, call>>
OfCodec(A) ==
  /\ focus = "codec" /\ A
  /\ UNCHANGED <<focus, session, pipeline, allocator, compat, gemm, proof, process,
                 manager, inference, transfer, budget, operation, rt, stream, pipe, run,
                 faults, frame, slot, host, call>>
OfPipeline(A) ==
  /\ focus = "pipeline" /\ A
  /\ UNCHANGED <<focus, session, codec, allocator, compat, gemm, proof, process, manager,
                 inference, transfer, budget, queue, worker, client, operation, rt, run,
                 faults, frame, slot, host, call>>
OfAllocator(A) ==
  /\ focus = "allocator" /\ A
  /\ UNCHANGED <<focus, session, codec, pipeline, compat, gemm, proof, process, manager,
                 inference, transfer, budget, queue, worker, client, rt, stream, pipe, run,
                 faults, frame, slot, host, call>>
OfCompat(A) ==
  /\ focus = "compat" /\ A
  /\ UNCHANGED <<focus, session, codec, pipeline, allocator, gemm, proof, process, manager,
                 inference, transfer, budget, queue, operation, rt, stream, pipe, run,
                 faults, frame, slot, host, call>>
OfGemm(A) ==
  /\ focus = "gemm" /\ A
  /\ UNCHANGED <<focus, session, codec, pipeline, allocator, compat, proof, process,
                 manager, inference, transfer, budget, queue, worker, client, operation,
                 rt, stream, pipe, faults, frame, slot, host, call>>
OfProof(A) ==
  /\ focus = "proof" /\ A
  /\ UNCHANGED <<focus, session, codec, pipeline, allocator, compat, gemm, process,
                 manager, inference, transfer, budget, queue, worker, client, operation,
                 rt, pipe, host, call>>
OfProcess(A) ==
  /\ focus = "process" /\ A
  /\ UNCHANGED <<focus, session, codec, pipeline, allocator, compat, gemm, proof, manager,
                 inference, transfer, budget, queue, worker, client, operation, rt, stream,
                 run, frame, slot, host, call>>
OfManager(A) ==
  /\ focus = "manager" /\ A
  /\ UNCHANGED <<focus, session, codec, pipeline, allocator, compat, gemm, proof, process,
                 inference, transfer, budget, worker, client, operation, rt, pipe, faults,
                 call>>
OfInference(A) ==
  /\ focus = "inference" /\ A
  /\ UNCHANGED <<focus, session, codec, pipeline, allocator, compat, gemm, proof, process,
                 manager, transfer, budget, queue, worker, client, operation, stream, pipe,
                 frame, slot, host, call>>
OfTransfer(A) ==
  /\ focus = "transfer" /\ A
  /\ UNCHANGED <<focus, session, codec, pipeline, allocator, compat, gemm, proof, process,
                 manager, inference, budget, queue, worker, client, operation, stream,
                 pipe, run, frame, slot>>
OfBudget(A) ==
  /\ focus = "budget" /\ A
  /\ UNCHANGED <<focus, session, codec, pipeline, allocator, compat, gemm, proof, process,
                 manager, inference, transfer, queue, worker, client, operation, rt,
                 stream, pipe, run, frame, slot, host>>
OfAlone(A) ==
  /\ focus = "alone" /\ A
  /\ UNCHANGED <<focus, codec, pipeline, allocator, compat, gemm, proof, process, manager,
                 inference, transfer, budget, client, stream, pipe, run, faults, frame,
                 slot, host, call>>

ProgressNext ==
  \/ OfSession(Session!Next)
  \/ OfCodec(Pool!PoolNext)
  \/ OfPipeline(Pipeline!PipelineNext)
  \/ OfAllocator(Allocator!AllocatorNext)
  \/ OfCompat(Adapter!Next)
  \/ OfGemm(Tiled!TiledNext)
  \/ OfProof(Poc!Next)
  \/ OfProcess(Worker!Next)
  \/ OfManager(Cache!Next)
  \/ OfInference(Inference!Next)
  \/ OfTransfer(Transfer!Next)
  \/ OfBudget(Budget!Next)
  \/ OfAlone(Alone!Next)

-----------------------------------------------------------------------------
(* Threads that can go on do; the device finishes what it was given; what  *)
(* a call waits for is answered. Nobody is obliged to make a call.         *)
Weak(i) ==
  \/ i = 1 /\ OfSession(Session!WorkerStep)
  \/ i \in {2, 3} /\ OfSession(Session!Waiting(<<c1, c2>>[i - 1]))
  \/ i = 1 /\ OfAlone(Alone!WorkerStep)
  \/ i = 2 /\ OfAlone(Alone!Waiting(c1))
  \/ i = 1 /\ OfCodec(Pool!ConstructorStep)
  \/ i \in {1, 2} /\ OfPipeline(Pipeline!DeviceStep(i - 1))
  \/ i = 3 /\ OfPipeline(Pipeline!CloseDrains)
  \/ i = 4 /\ OfPipeline(Pipeline!CloseCleansUp)
  \/ i = 1 /\ OfAllocator(Allocator!CallStep)
  \/ i \in {2, 3} /\ OfAllocator(Allocator!Finish(<<c1, c2>>[i - 1]))
  \/ i = 1 /\ OfCompat(Adapter!Works)
  \/ i \in {2, 3} /\ OfCompat(Adapter!Continues(<<c1, c2>>[i - 1]))
  \/ i = 1 /\ OfGemm(Tiled!Advance \/ Tiled!Failure)
  \/ i = 1 /\ OfProof(Poc!Host)
  \/ i \in {2, 3, 4} /\ OfProof(Poc!Device(<<"h2d", "compute", "d2h">>[i - 1]))
  \/ i = 1 /\ OfProcess(Worker!ReaderSteps)
  \/ i = 2 /\ OfProcess(Worker!ControllerSteps)
  \/ i = 3 /\ OfProcess(Worker!Tick)
  \/ i = 1 /\ OfManager(Cache!Thread)
  \/ i \in {2, 3, 4} /\ OfManager(Cache!DeviceStep(<<"h2d", "compute", "d2h">>[i - 1]))
  \/ i = 1 /\ OfInference(Inference!Step)
  \/ i = 1 /\ OfTransfer(Transfer!Step)
  \/ i = 1 /\ OfBudget(Budget!Fill)
  \/ i = 2 /\ OfBudget(Budget!Recover)
  \/ i = 3 /\ OfBudget(Budget!EndLease)

(* Who asks for the pool's mutex again and again gets it, although a       *)
(* spurious wake-up may take it in between; and some call after the poll   *)
(* interval takes a sample of the budget, although a lease may be open at  *)
(* another.                                                                *)
Strong(i) ==
  \/ i \in {1, 2} /\ OfCodec(Pool!WorkerStep(<<w1, w2>>[i]))
  \/ i \in {3, 4} /\ OfCodec(Pool!CloseStep(<<c1, c2>>[i - 2]))
  \/ i \in {5, 6} /\ LET c == <<c1, c2>>[i - 4] IN
       OfCodec(Pool!WaitDelivers(c) \/ Pool!WaitIsStale(c))
  \/ i = 1 /\ OfBudget(Budget!Begin)

ProgressSpec ==
  /\ ProgressInit /\ [][ProgressNext]_suite
  /\ \A i \in 1 .. 4 : WF_suite(Weak(i))
  /\ \A i \in 1 .. 6 : SF_suite(Strong(i))

-----------------------------------------------------------------------------
(* A call, and the work or the condition that outlives it. The clients are *)
(* alike, so the calls of one are watched.                                 *)
Call ==
  CASE focus \in {"session", "alone"} -> th[c1].pc # "idle"
    [] focus = "codec" -> client[c1] # Pool!Idle
    [] focus = "compat" -> ~Adapter!At(c1, "idle")
    [] focus = "pipeline" -> pipe.closing
    [] focus = "allocator" -> ~Allocator!At("idle")
    [] focus = "gemm" -> outcome = "planned" /\ ~Tiled!At("ended")
    [] focus = "proof" -> run.pc # "done"
    [] focus = "process" -> ~Worker!Done
    [] focus = "manager" -> run.phase # "closed"
    [] focus = "inference" -> rt = "running"
    [] focus = "transfer" -> ~Transfer!Idle
    [] focus = "budget" -> Budget!Pressed
Work ==
  CASE focus = "session" -> \E o \in Session!Created : ~Session!Done(o)
    [] focus = "alone" -> \E o \in Alone!Created : ~Alone!Done(o)
    [] focus = "codec" -> \E j \in Pool!Submitted : job[j].stage # "complete"
    [] focus = "budget" -> Budget!Suspended
    [] OTHER -> FALSE

(* What is begun ends, whoever waits for it: calls of the session return   *)
(* and its operations end although their callers left; a codec job is      *)
(* completed and every wait and close of the pool returns; the pipeline    *)
(* closes; calls of the allocator and of the adapter return; a product, an *)
(* inference run, a chunk's call, a run of the cache manager and the proof *)
(* of concept end; a controller reports whatever its worker does; and      *)
(* while the device has room, a suspended pipeline and an admission that   *)
(* was refused for pressure come back.                                     *)
WorkEnds == (Call ~> ~Call) /\ (Work ~> ~Work)
=============================================================================
