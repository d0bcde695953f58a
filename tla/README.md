# A TLA+ model of xVRAM

xVRAM gives GPU programs more memory than the device has. Host memory is the
authority; device memory is a write-back cache of chunk-sized physical frames
that are mapped and unmapped under stable virtual addresses while the GPU
computes. This directory holds specifications of the runtime and of the
programs around it, the configurations that check them with TLC, and proofs
about them for TLAPS.

    tlc -config ResidencyFaults.cfg MCResidency.tla      # one run; see "Runs"
    tlapm ResidencyRuntimeProofs.tla                     # one module of proofs

`PROJECT.json` lists components, runs, the source lines behind every
definition, the hazards the properties are aimed at, and the theorems.

## The system

| component | state | operations | what is hard | what makes it correct |
|---|---|---|---|---|
| **residency runtime** `residency/runtime.cpp` | chunk records, frames, staging rings, spill reservations, the active lease, poison and quarantine flags | `allocate release discard_dead write read prefetch acquire_external seal_external poll_external wait_external drain close`; inside them `ensure_resident writeback unmap refresh_budget` | every CUDA call may fail half way; kernels and copies that stopped answering run on; the budget shrinks at any time | it implements a flat memory; the GPU's memory is never taken away; a failed call leaves nothing behind; nothing is admitted after an unknown completion |
| **chunk core** `residency/core.cpp` | - | legal transitions, record validation, eviction and unmap predicates | record invariants | every reachable record validates |
| **victim policies** `residency/policy.cpp` | CLOCK hand and reference bits, LRU order | choose, touch, forget | entries shift under the hand; all candidates referenced | an eligible victim whenever there is one, a clean one first |
| **budget control** `refresh_budget`, `residency/budget.cpp` | capacity, growth and restore counters, the pipeline suspended or not | a live sample changes the capacity | samples nested in a call that already pinned frames; hysteresis | frames and pipeline leave headroom and reserve alone |
| **host backing store, host budget** `residency/compression.cpp` | images per chunk, committed and reserved bytes | snapshot, reserve, build, commit, release, erase | an image outlives its source; credits leak | only the image of the current generation commits; the budget is conserved |
| **chunk transfers, cost model** `runtime.cpp`, `compression.cpp` | the three copies of a chunk, credits, averages | write-back with candidate or raw, upload with decoding, probes | fallbacks of fallbacks | the only current copy is never lost |
| **CPU codec pool** `residency/cpu_codec_pool.cpp` | bounded queue, jobs, workers | submit, poll, wait, close | a waiter gives up while the job completes | each result and capacity unit is returned once |
| **nvCOMP pipeline** `residency/nvcomp_pipeline.cpp` | slots with streams, events, buffers; tickets | setup, decode, encode, poll, acknowledge, close | slots whose work did not answer; identifiers that run out | no slot is reused or released while the device uses it |
| **SDK session** `sdk/runtime.cpp` | FIFO of operations, closing flags, status | submit, cancel, wait, close, destroy | cancellation and deadlines race with the worker; several closers | accepted operations end once, in order; a cancelled one never ran |
| **PyTorch allocator** `torch/allocator.cpp` | segments, quarantine, the emergency record | allocate, deallocate, reset | roll-back that fails | memory a stream uses stays mapped; nothing leaks unrecorded |
| **PyTorch control** `torch_runtime/control.cpp` | sessions, leases, views, scratch blocks, tickets | open, lease, view, seal, wait, close | views that outlive a lease, on any thread | what is in use keeps its memory; sealed leases have no views |
| **out-of-core GEMM** `gemm/` | tiles, accesses, prefetches | plan, execute | off-by-one in tiles and chunk ranges | every product once, inside the cache |
| **CUDA adapter** `cuda_compat/` | lifecycle, queue, registries | initialise, call, shut down | threads that do all three at once | only a ready adapter has a backend; stale pointers stay dead |
| **inference** `python/xvram/torch_*.py` | plan, slots, native session | prepare, run, close | slots shared by values, merged ranges | a node reads what its producer wrote in this run |
| **worker processes** `platform/worker_process.cpp`, controllers | pipe, frames, watchdog | start, read, time out, reap | crashes, partial writes, kills racing with answers | one verdict, the worker's own where it is accepted |
| **phase 2 executor** `residency/executor.cpp`, `scenario.cpp` | frames, staging, prefetch queue, trace | demand, prefetch, evict, poll, drain | prefetches that overtake demand | uploads never share a buffer; writes reach the host |
| **proof of concept** `vmm_poc/executor.cpp` | window of mappings, three streams | run, verify, clean up | events of earlier generations | device work has its memory |
| **audit collector** `compat_launch_probe/` | ledger of device memory, observers of driver calls | enter and exit callbacks | callbacks that overtake each other, addresses used again | the ledger is the driver's state, or says it is not |

How they meet: a client (SDK, PyTorch, adapter, GEMM) calls a session, whose
worker thread alone calls the residency runtime. The runtime asks the chunk
core whether a change of a record is legal, a victim policy whom to evict, a
budget sample how many frames it may hold, and the backing store for room and
content; it hands transfers to CUDA streams and compression to the codec pool
or to nvCOMP. A client's kernel uses the mappings under a lease, beside all of
this. Phase 2, the proof of concept and the audit collector are programs of
their own, started and watched as worker processes.

## Modules

| module | stands for |
|---|---|
| `ChunkCore`, `ResidencyRuntime` | the record of a chunk; the runtime with its clients and the GPU |
| `LogicalHeap` | the flat memory that the runtime promises (abstract specification) |
| `BudgetControl` | `refresh_budget`: samples, suspension of the pipeline, growth and shrinking |
| `HostBudget`, `HostBacking` | the ledger of host bytes; the store of images on top of it, with any number of threads |
| `CodecTransfer`, `CompressionChoice` | a chunk between its three copies; which way the cost model sends it |
| `CpuCodecPool`, `CpuCompression` | the pool; the batches the runtime submits to it |
| `NvcompPipeline`, `CodecLayout` | slots and tickets with the device beside them; where a generation lies in a slot's buffers |
| `SessionWorker`, `SessionPromise` | the SDK session; the FIFO it promises (abstract specification) |
| `TorchAllocator`, `TorchControl` | the pluggable allocator; sessions, leases, views, tickets, close |
| `GemmPlan`, `TiledGemm` | the planner as operators and a search; the execution of its plans |
| `CompatAdapter` | the CUDA adapter with client threads, queue and worker |
| `InferencePlan`, `InferenceRuntime`, `ManagedRanges` | aliases, lifetimes, slots; scheduler and native backend; rows, merged ranges, tied state |
| `WorkerProcess` | both process runners, the five protocols and their controllers |
| `VictimPolicy`, `CachePlan`, `CacheManager` | CLOCK and LRU; sizing and traces; the cache manager of phase 2 |
| `VmmPoc` | the proof of concept |
| `MemoryRegistry`, `MemoryCalls`, `MemoryLedger` | the ledger of device memory, the driver's calls on it, the two followed byte by byte |
| `MemoryWitness`, `TeardownWitness` | the observers of memory calls and of teardown |
| `MCResidency`, `MCHost`, `MCCodecs`, `MCApplications`, `MCTools`, `MCProgress` | values of the constants for TLC |
| `ResidencyRuntimeProofs`, `CallProofs`, `MappingProofs`, `HostBackingProofs`, `NvcompPipelineProofs`, `TorchAllocatorProofs`, `CpuCompressionProofs`, `SessionProofs` | proofs |

`CompressionChoice` and `CodecTransfer` take apart what `ResidencyRuntime`
treats as one transfer; `CpuCompression` composes with `CpuCodecPool`,
`HostBacking` with `HostBudget`, `TiledGemm` with `GemmPlan`,
`InferenceRuntime` with `InferencePlan` and `ManagedRanges`, and the witnesses
with `MemoryRegistry`.

### ResidencyRuntime

**Calls are task lists.** The runtime is called by one thread, but a call makes
many CUDA calls, each of which may fail, and the GPU works between them. So a
call is a list `call.todo` of tasks, one per primitive of the code, and each
action executes the first one. `ensure_resident` is `ensure`, then `create`,
`map` and `h2d`, or `writeback`, `unmap`, `map` and `h2d`; an acquire is
`refresh`, `checkCapacity`, `workspace`, one `prepare`, `ensure`, `pin` per
chunk (a loop task, `forEach`, unrolled an iteration at a time) and `arm`. A
nested call of the code (a writeback in an eviction in a prefetch) pushes its
tasks in front. When a task fails, the code returns its status through its
callers; so `Fail` drops tasks up to the first one that stands for code that
runs anyway (`Catch`): the rollback of an acquire, the rest of `close`.

| variable | code |
|---|---|
| `chunk` | `ChunkRecord`s of all allocations |
| `frame` | `Frame.handle`, `Frame.key` (`None` = not mapped), `Frame.quarantined` |
| `device`, `host` | contents of frames and of host backings, opaque values |
| `capacity` | `frame_capacity_` |
| `spill` | `spill_reservations_`; `stale` when the prepared backing no longer matches the authority |
| `owner` | `Allocation`: live, and its address reservation (held, quarantined, retired, freed) |
| `lease` | `active_external_lease_`, whether the client was given its id, and its `LeaseChunk`s |
| `gpu` | the client's kernel: idle, running, finished, and what it may write |
| `dma` | copies submitted and not known to be finished |
| `next` | `next_h2d_staging_`, `next_d2h_staging_` |
| `rt` | `poisoned_`, `launches_blocked_`, `async_resources_quarantined_`, `closed_`, `close_status_`, whether streams and staging memory exist |

There is one action per primitive and outcome: `MapAndSubmit` is the mapping
and the submission that succeed, `MapRefused`, `MapFails`, `MapRollbackFails`,
`MapAndSubmitFails`, `MapWithoutSource` are the ways they do not. The actions
of the clients (`Allocate` ... `Close`) check what the code checks before it
changes anything, and queue the tasks; a rejected call changes nothing and is
no step. `Launch`, `KernelWrites` and `KernelFinishes` are the client's kernel,
which reaches memory through the mappings whatever the runtime believes. Every
constant of `Faults` names a call that may fail whenever it is made (`oom` is
the failure the code retries).

Abstracted: contents are opaque, and a partial host write replaces the content
of its chunk. A copy's effect is taken when its event retires; until then
`dma` says that frame and slot belong to it. The victim is any eligible one,
and growth by two frames may happen at every sample that leaves room. The
compressed paths differ from the raw path in what can fail. Generations of a
chunk are compared for equality and order only and are renumbered when the last
one retires. A chunk's memory is mapped exactly when its frame has a key: the
code keeps both flags and sets and clears them together. `execute` is
`acquire_external`, the callback, `seal_external` and `wait_external` in one
call and adds no state. The roll-back of `allocate` for a reservation that
cannot hold the aligned range (`runtime.cpp:702`) is no action: a reservation is
one chunk longer than its range, and the lemma `PaddedReservationFits` proves
that one which ends within the machine word always holds it.

### LogicalHeap and SessionPromise

A client sees a flat memory. The content of a chunk changes when the host
writes it, while a write lease is out, when it is declared dead, and when its
allocation ends; never because of an eviction, a shrink, a rollback, a
cancellation or a failed transfer. `ResidencyRuntime` implements `LogicalHeap`
under the mapping that reads a chunk from its frame when the frame is ahead of
the host and from its backing otherwise (`ImplementsHeap`). `SessionWorker`
serves in the order of `SessionPromise` (`ServesInOrder`, in `HostSteps`;
proved in `SessionProofs`).

### What the other modules abstract

- `CachePlan`: the pseudo-random generator of a scenario is abstracted to
  progressions and rotations of the keys.
- `CacheManager`: `MaxFaults`, `MaxOom`, `Ops` bound what fails and how long a
  trace is; where no call fails, chunks are numbered in order of first touch.
- `BudgetControl`: growth and restoring wait for two safe samples in the runs,
  not ten; the code compares a counter with the number and nothing else.
- `CompressionChoice`: averages are integers in quarters, rounded down, and
  times come in tens of microseconds.
- `CompatAdapter`, `SessionWorker`, `TorchControl`: argument checks that refuse
  a call are one choice; telemetry is kept only where a property reads it.
- `MemoryWitness`: callbacks are serialised by the lock of the census, as in
  the code; `TeardownWitness`: misses of its try_lock are bounded, contexts may
  come back at an old address.
- `WorkerProcess`: a frame crosses the pipe in two pieces, and in `ToolSuite` the
  pipe holds two frames, which one read may take together; payloads are what
  consumers compare.

## Runs

The components of a suite share no state. They are checked side by side and not
multiplied: a variable `focus`, chosen in the initial state and never changed,
names the component that moves, and the variables of the others rest at
`Nobody`. A variable of a suite may stand for like-named variables of several
components. An instance name (`Faulty`, `Tight`) is one choice of constants.
`CHECK_DEADLOCK FALSE`: clients may stop calling, and a closed runtime stops.

| run | instances and bounds | question |
|---|---|---|
| `ResidencyFaults` | two chunks in two allocations, one frame, all faults | do the promises hold whatever fails, and does the runtime implement the heap? |
| `ResidencyTwoFrames` | two frames, all faults, a budget that shrinks | does an admitted working set find its frames; does any copy or kernel meet another? |
| `ResidencyOneAllocation` | one allocation of two chunks, retained ranges | do ranges over several chunks behave as one? |
| `ResidencyAfterPoison` | as the first, clients call on after poisoning | does the bookkeeping survive operations that do not ask `ready()`? |
| `ResidencyCallsReturn` | one frame, all faults, one content | does every call return? |
| `ResidencyPrefetchOverwrite`, `ResidencySlotAfterPoison` | write-only prefetch; prefetch after poisoning | counterexamples, see "Findings" |
| `HostSuite` | sessions: two clients with every kind of call and two operations, or with allocations, prefetches and releases and three operations; pool: two clients, two workers, three jobs; batches of three blocks; ledger and store: two threads, one chunk of two blocks, three generations | do client, worker, timeout, cancellation and close leave a truthful account? |
| `CodecSuite` | pipeline: two slots, three generations, four operations; layout: every shape of up to three blocks; transfers: two chunks with two faults, or three without room; model: three contents, four to six steps (a slow codec for the longest); budget: a device of fourteen units | does the compressed tier keep every chunk, credit and byte? |
| `ApplicationSuite` | PyTorch: one thread with two tickets, one with two leases, two threads with two sessions; allocator: three segments, every driver call failing; adapter: two threads, four calls; GEMM: every layout and operand sharing up to 4x4x3; graphs of six nodes, two runs, two faults | does nothing in use lose its memory; are plans exact? |
| `ToolSuite` | cache manager with faults, with failing close, with look-ahead, with a moving budget; both policies; plans at the edge of a six-bit width; five worker protocols; ledger, witness, teardown | do the programs report only what happened? |
| `ProgressSuite` | thirteen instances under fairness | does what begins end? |

Why this is enough. In the runtime two chunks suffice because every interaction
is between a chunk and the one that wants its frame; one staging slot makes the
ring wrap at once, one spill reservation makes a second writer write back; two
frames are needed for leases of two chunks. The runs with one frame stand for a
cache that was shrunk to one: it grows again only by two frames. In the pipeline
two slots and three generations let both identifiers run out in either order;
in the pool two workers and a capacity of two make every wait and every race of
two happen, and three jobs fill and refill it. A suite's numbers are the
smallest with which each of its mutants is caught and every action taken.
Symmetry (clients, workers, threads, segments) is used only in runs without
liveness.

What the conjunctions say is written above them (`MappingsSafe`,
`BookkeepingHolds`, `DataIsCurrent` in `ResidencyRuntime`; `SessionSafe` to
`ToolSteps` in the MC modules); each names the invariants of its component's
module, where they are stated and explained one by one.

**Fairness.** `ResidencyRuntime`'s `Spec` has weak fairness of `Worker` only:
the thread inside a call goes on, because the code blocks nowhere without a
deadline. Nothing is assumed of clients, which need not call, or of kernels,
which need not finish. `MCProgress` has weak fairness of the threads inside a
call, of the device for what was submitted to it, and of the clock of a
watchdog; strong fairness of those who ask for the pool's mutex again and again
(a spurious wake-up may take it in between), and of the call that samples the
budget after the poll interval, although a lease may be open at other times.
Inference is fair only in `Step`, what the call under way does. In
`ProgressSuite` clients are alike, so the calls of one are watched; operations
and jobs are bounded, so "some operation is open" ends exactly if each ends.
The budget instance has room for frames, pipeline and reserve when the others
are gone: on a tighter device spare handles, which a sample does not count,
make the pipeline come and go for ever.

## Findings

1. **A write-only prefetch leaves clean chunks with foreign content**
   (`ResidencyPrefetchOverwrite`). `prefetch` passes write-only ranges on to
   `ensure_resident`, which transfers only when the plan requires it and then
   marks the chunk `resident_clean`. The frame holds memory nobody transferred,
   and the next reader takes the chunk for resident. The other runs therefore
   prefetch for reading only.
2. **A prefetch on a poisoned runtime reuses a staging slot**
   (`ResidencySlotAfterPoison`). `prefetch` does not ask `ready()`, and the
   staging ring is advanced without looking at what still uses the slot, so
   after `wait_event` gave up on a copy a prefetch can fill the slot that copy
   reads.

`PROJECT.json` quotes the sentences of the documents next to the lines.

Seen while modelling, each confirmed by a counterexample of TLC in the module
named, but no run of its own is kept for it; where a property would fail it is
stated for the cases that hold:

- `CpuCompression`: when the buffer of a block cannot be allocated, both
  reservations are released although jobs accepted before still own their
  buffers in the pool (`runtime.cpp:2673`; the comment at 2462 has them covered).
- `TorchControl`: a wait or close with timeout 0 is refused and copies an answer
  that was never filled in, so that a sealed lease takes views again
  (`control.cpp:1277`).
- `CacheManager`: a demand access fails when every frame holds an upload in
  flight (`executor.cpp:1019`); after an out-of-memory the frame is created
  above the lowered target (`executor.cpp:940`).
- `BudgetControl`: restoring compares with the workspace of the request, not
  with the larger one that exists (`runtime.cpp:3378`); an unsafe sample that
  returns early does not reset the restore counter (3318); growth counts samples
  with one frame of surplus (3453); handles of empty frames count as somebody
  else's memory (3233). A pool that shrank by exactly one frame never regrows.
- `InferenceRuntime`: a failed preparation whose clean-up fails drops its
  session, and `close()` reports success (`torch_native.py:2022`); closing twice
  after a failed close reports CLOSED.
- `CompressionChoice`: the mark `never_compress` of an old content suppresses the
  first probe of a new one (`runtime.cpp:3940`); a CPU candidate is committed on
  a decision for the GPU path (`runtime.cpp:2816`).
- `MemoryWitness`: between the throw of a callback and the count of its error the
  observer answers from a ledger that is behind (`memory_witness.cpp:412`).
- `CodecTransfer`: a raw commit that is refused, without a candidate, leaves the
  chunk in flight on a runtime that is not poisoned (`runtime.cpp:4199`).
- `ResidencyRuntime`: `read` does not ask `ready()` and returns the backing's
  older content of a chunk that was in flight when the runtime was poisoned
  (`runtime.cpp:931`); `discard_dead` drops a mapping before it fails to
  invalidate (848); `release` frees the address range before it fails to erase
  (769).

## Proofs

Everything below is proved for any number of chunks, frames, threads, slots,
addresses and any sizes, from the named assumptions of the modules on their
constants (`RuntimeAssumption`, `NoneAssumption`, `BudgetAssumption`,
`BackingAssumption`, `PipelineAssumption`, `AllocatorAssumption`,
`PoolAssumption`, `CompressionAssumption`, `SessionAssumption`). They ask for
what the code has: sizes that are numbers, at least one slot, finite sets of
blocks, addresses and workers, a `None` that is no chunk, calls among those of
the interface. TLC evaluates each of them.

| theorem | run property | says |
|---|---|---|
| `ResidencyRuntimeProofs!TypeCorrect` | `TypeOK` | every reachable state is well typed |
| `ResidencyRuntimeProofs!NothingAdmittedAfterPoison` | `PoisonStopsAdmission` | a poisoned runtime arms no lease and hands out no allocation |
| `CallProofs!CallsWellFormed` | - | the task list of every call is one its kind allows, in an order its kind allows |
| `MappingProofs!MappingsAreSafe` | `MappingsSafe` | chunks and frames name each other, mappings lie in reserved ranges, what a lease or the device may use stays mapped |
| `MappingProofs!SuccessfulCloseIsClean` | `SuccessfulCloseLeaksNothing` | a close that reports success leaves nothing of the device |
| `MappingProofs!TransfersStayExclusive` | `TransfersExclusive` | two copies under way never share a staging slot, no copy touches a chunk of a running kernel; if `LateCalls \subseteq {"poll", "wait"}` |
| `MappingProofs!CapacityHolds` | `CapacityBoundsResidency` | no frame beyond the capacity has a mapping or a handle |
| `HostBackingProofs!LedgerSafe` | - (`LedgerHolds`, which the run checks as `LedgerSafe`) | the limit, the balance and the counters of the budget, whatever handles are presented |
| `HostBackingProofs!StoreSafe` | `StoreTruthful` | the same for the store, and no image claims a representation its content has not |
| `HostBackingProofs!NoLostUpdate` | `CommitsApply` | a commit applies its operation to what the chunk holds at that moment |
| `HostBackingProofs!StoreIsAccounted` | `StoreAccounts` | the counters are what reservations hold and images are charged; no reservation is left behind; what an operation reserved suffices for its commit |
| `NvcompPipelineProofs!PipelineIsSafe` | `PipelineSafe` | no slot is given back or released while the device uses it; tickets find their own operation; a closed pipeline holds nothing |
| `NvcompPipelineProofs!ExhaustionIsFinal` | - | after `resource_exhausted` no operation begins |
| `TorchAllocatorProofs!AllocatorIsSafe` | `AllocatorSafe` | what the driver holds is recorded, usable segments have their memory, statistics are what is outstanding |
| `TorchAllocatorProofs!FenceAndEmergencyHold` | - | nothing is unmapped under work of the device; the emergency record is never overwritten; nothing is reserved after poisoning |
| `CpuCompressionProofs!PoolIsSafe` | - (its parts, which `HostSuite` checks in `CodecJobsSafe`) | a job is executed once and its result handed out once; the pool owes no more than its capacity; nobody sleeps beside a job nobody was woken for; a joined pool has every result |
| `CpuCompressionProofs!BatchesAreSafe` | - (its parts, the same) | what a worker may touch stays charged; every batch finds room; nothing stays charged at rest; generations are committed or discarded; all but the last up to the timeouts and exceptions the properties name |
| `SessionProofs!SessionIsSafe` | - (`SessionSafe` of the module, which `HostSuite` checks under the same name) | cancelled operations never run; the frames the worker points into live; released allocations are gone; one thread joins; a close that succeeded left nothing |
| `SessionProofs!OutcomesAreFinal` | - (`TerminalIsFinal`, in `HostSteps`) | the state and error of an ended operation never change |
| `SessionProofs!SessionKeepsItsPromise` | - (`ServesInOrder`, in `HostSteps`) | the session implements `SessionPromise` |

**Residency runtime, types** (`TypeInv`). Beside the types it says that the
frames named by chunks exist (`FramesOK`), that tasks carry the fields their
actions read and only the first can be the completion of a copy to the host
(`CallOK`), and that this copy has a frame (`ToHostHasFrame`): without them a
write-back could read the content of no frame into the backing. One lemma per
action; the lemmas about `Goto`, `Push`, `Fail` and `Begin` carry the lists.

**Residency runtime, poison** (`PoisonInv`, with `TypeInv`). That `allocate`
and `acquire_external` ask `ready()` is not enough: the runtime may be poisoned
in the middle of an acquire, with the task that arms the lease still in the
list. The invariant says why that task is not reached. No handler stands in
front of a task that admits (`AdmitsFirst`), so a failure drops it; a poisoned
call holds no such task (`NoAdmission`), or is about to fail within two tasks
(`Doomed`: a mapping without a host source poisons first and fails after it was
taken down). Lists that admit nothing are sequences over `Unarmed`, which makes
the closure facts instances of the library's theorems on sequences.

**Residency runtime, calls** (`CallInv`). What a task may do depends on the
tasks behind it, so the invariant describes the list. A loop stands for the
tasks it will unroll into (`WorkOf`, `Work`): the invariant is stated of this
work and unrolling leaves it as it is. It says which work a call of each kind
may have (`Permitted`), which tasks may not wait behind which (`InOrder`), what
comes right before a `pin` and right after a `dropDirty` (`Linked`), that what
is prepared is pinned, and that what is pinned is rolled back (`Proper`). The
lists of every action are put together from a few shapes: a prefix in front of
the rest, a handler and what is behind it, one to three tasks for one.

**Residency runtime, mappings** (`CacheInv`, `UseInv`, with `TypeInv` and
`CallInv`). `MappingsSafe` is not inductive: that no chunk of a lease is
unmapped depends on pins, the pins on the list of the acquire that takes them
and on the roll-back that gives them back, and that a release frees a range
only when nothing is mapped in it on the flushes still in its list. `CacheInv`
says how chunks, frames, copies, spill reservations and allocations agree:
`Mappings`, what the head of the list finds (`HeadsReady`), which copies the
device has (`Copies`, `NoneStuck`), and what a release still flushes
(`FlushPending`, `Owned`). `UseInv` says how the lease keeps what it uses:
`KernelHolds`, `LeasePins`, and what an acquire, a completion and a close still
have to give back (`LeaseCalls`, `LeaseSpills`, `LeaseDirties`, `Closing`).
Most steps leave the lease alone: they go through `BesideOK`, `AsideOK` and
`QuietOK`, which say what such a step has to show.

**Residency runtime, transfers** (`Halted`, `OneCopy`, `NoCopyUnderKernel`, on
the invariants above). The runtime waits for each of its copies, so there is
never a second one, except after a copy it could not wait for. What holds then
is `Halted`: the rest of the call has nothing to do that copies. A failure
leaves only handlers; the lists a handler, a roll-back or a close puts in front
copy nothing (`Ending`); and a later call must be one that ends the lease or
the runtime. That last part is not the code's doing, it is the theorem's
hypothesis about its clients: `prefetch` does not ask `ready()`, and with
`"prefetch"` in `LateCalls` the run `ResidencySlotAfterPoison` finds two copies
on one slot. That no copy touches a chunk of a running kernel needs no such
hypothesis: what a kernel uses is pinned and resident, what is copied is in
flight (`KernelStep`).

**Residency runtime, capacity** (`CapacityKept`). A shrink sets the capacity in
its last task, many tasks after it was decided, and between them a write-back or
an unmapping may fail. What makes that safe is `EmptiesFirst`: while the task
that sets the capacity waits, each frame it would cut off is bare or its
`dropFrame` waits in front. It holds because nothing but the shrink's own tasks
may wait in front of it (`InOrder`), none of which maps or creates, and because
the only way past a failed one is to drop the whole list. The other half is
`CreatesWithin`: a handle is created next only for a frame below the capacity.
The retry after a refresh compares the frame with the capacity once more.

**Host budget** (`LedgerInv`). The types, the limit, the balance and the match
of counters and reservations carry each other: a reservation is compared with
the total, and a release or a commit lowers it by what the ledger recorded,
never by what the handle says.

**Host store** (`StoreInv`). A commit compares only generations. What makes
that sufficient is `FollowsChunk`: the snapshot of an operation is never newer
than the chunk, and one of the same generation is the same image. It needs
that what was built is built from the snapshot (`Built`), and that a chunk
being registered is nobody else's (`Entering`, `Alone`).

**Host store, accounts** (`AccountsInv`, with `StoreInv`). The counters are sums
over reservations and images. `BytesOf` states such a sum as the number of
elements of a set of bytes, so that a holder that joins or leaves moves it by
its size (`HolderJoins`, `HolderLeaves`), for any number of holders and without
induction. `Holding` follows the reservations: each is held by one operation
from its reservation to its end, and is as large as the largest image the
operation can build; so the ledger never refuses the commit of an admitted
operation. `Charged` does the same for the images.

**nvCOMP pipeline** (`PipelineInv`). `PipelineSafe` is not inductive. That a
slot is idle on the device when its operation leaves it depends on what a
stream may hold in each phase (`StreamsFit`); that a ticket finds its operation
on the slot and generation written in it (`SlotsFit`, `TicketsFit`); that
nothing is set up over a running slot on the life of the pipeline (`LifeFits`);
and `ExhaustionFits` ties the flag to the identifiers that ran out.

**PyTorch allocator** (`AllocatorInv`). `AllocatorSafe` speaks of the moments
between two calls, so the invariant says what each step of a call relies on
(`Step`), that the device works only for segments a client was given
(`WorkKnown`), and that an address without a record is the one of the call or
of the emergency slot (`Strayed`). Every step gives one address a new record:
`SegmentStep` says once what that does to records, memory and statistics, which
are cardinalities and sums over them.

**CPU codec pool** (`PoolInv`). That a job is executed and handed out once is
no fact about its record. `JobsFit` says that each job is in one place and its
record says which: in the queue once, with one worker, or with its result; a
result leaves `jobs` only when it is taken. That close drains rests on
`EndFits`: a worker exits when it has found the queue empty while closing, and
nothing is accepted from then on. `NoJobBesideSleepers` is inductive with it: a
worker goes to sleep in the critical section that found the queue empty, and
each accept wakes one.

**CPU compression** (`PrepInv`, with `PoolInv`). Whether a preparation may give
back its scratch depends on the results still owed to it: `Gathered` says that
each is pending, unless a wait for one timed out, which spoils the batch. So
the scratch of a whole batch is nobody's when it is released. `BatchFits` bounds
the pending jobs by the capacity, batch by batch; before a timeout or an
exception they are all that is outstanding, so no submit finds the pool full.

**SDK session** (`SessInv`). What a client was told depends on where its
operation is: `Served` and `Queued` say that each is in the queue once, in the
worker's hand, or ended, and that its state says which; `Fates` adds what that
means for cancellation, for having run and for the telemetry. That the worker
finds the variables of a caller alive (`CallersWait`) rests on only a drain
having a time limit, and a drain borrows nothing (`CallsTyped`). That a released
allocation is gone needs the chain of `Handles`: the call that allocates is
alone with its allocation, a release that is being reported has freed it, and a
failed one gives the handle back before its caller returns. That a close which
succeeded left nothing needs the order of closing: the queue is empty when the
closing operation is served (`CloseOrder`), the runtime is closed when that
operation has ended (`ShutDownOnce`), and the worker leaves after both
(`Phases`, `Joining`). The same invariant gives the refinement: a submission
accepts, taking the head of the queue serves, refusing or finishing retires,
and the rest is unseen but for the two steps of closing. That every submitted
call finds an identifier is the bound `Room` of the model, not of the code.

**What stays with TLC.** Liveness (`CallsReturn` and `ProgressSuite`) and what
speaks of `ENABLED`: TLAPS has no rules for them. What a recursive definition
computes for every input (plans of GEMM and of inference, layouts, merging of
ranges, search of CLOCK): that needs induction over data, whose theorems the
installed provers cannot instantiate. The refinement
`ImplementsHeap` and the other invariants of the runtime (contents, records,
frames of an admitted plan): not out of reach, but not done.

## Plan

Done: the core with its abstract specification, every component of the table,
and the proofs above. Left, in the order of what they would say most about:

1. `ResidencyRuntime`: `BookkeepingHolds`, `AdmittedPlanFindsFrames` and
   `DataIsCurrent`, on the invariants of `MappingProofs`.
2. `BudgetControl`: frames and pipeline within the observed budget.

## Not modelled

The benchmark harnesses, report writers, capability probes, vendor library
loaders and evidence collectors: they keep no state of the memory system. The
bindings of platforms and of Python to the interfaces above: they pass calls
on. The SHA and file handling of the audit tools, the census and the samplers
of the collector, which only count. LZ4 and nvCOMP themselves, CUDA and the
GPU appear as what the code sees of them: outcomes, events, contents.
Within the modelled components, argument checks that refuse a call without any
change are no steps. `PROJECT.json` says of every component what is left out.

## Further hazards

`PROJECT.json` lists forty hazards with the properties aimed at them. The
modules cover more of the same kinds: waiters of the codec pool that give up
while their job completes (`cpu_codec_pool.cpp:357`), a batch whose allocation
fails between two submissions (`runtime.cpp:2544`), a close that meets a
verified candidate nobody stored (`nvcomp_pipeline.cpp:971`), tensors destroyed
on any thread around a seal (`control.cpp:1702`), a roll-back that fails itself
(`allocator.cpp:402`), an unmapping that fails in the middle of a drain
(`executor.cpp:1430`), an entry erased under the hand of CLOCK
(`policy.cpp:79`), calls of two threads whose exits are reported in another
order than the driver did them (`memory_witness.cpp:367`). One is left to
review: with `SIGCHLD` ignored by the parent, `waitpid` reports `ECHILD` and the
exit code of a crashed worker reads as 0 (`worker_process.cpp:365`).
