--------------------------- MODULE MCApplications ---------------------------
(***************************************************************************)
(* The programs on top of the runtime, for TLC: the PyTorch runtime and    *)
(* its allocator, the CUDA adapter, the out-of-core product, the ranges of *)
(* managed weights, and inference on a captured graph.                     *)
(*                                                                         *)
(* They share no state: "focus" names the one that moves. A variable is    *)
(* that of the component in focus; the others rest, the allocator in its   *)
(* initial state.                                                          *)
(***************************************************************************)
EXTENDS TorchAllocator, Sequences, TLC

CONSTANTS Nobody, t1, s1, s2, l1, a1, a3, h1, x1, x2

VARIABLES
  focus,                                          \* the component that moves
  sess, lease, alloc, ticket, owners, tls,        \* of the PyTorch runtime
  adapter, jobs, worker, backend, memory, handles, counts, client, lifecycle,  \* of the adapter
  problem, cache, geometry, outcome, tiles,       \* of the product, with run
  job, state, result, rest, covered, written,     \* of the ranges
  graph, plan, rt, at, be, native, mem, faults,   \* of the inference, with run
  run

torch == <<sess, lease, alloc, ticket, owners, tls>>
compat == <<adapter, jobs, worker, backend, memory, handles, counts, client, lifecycle>>
gemm == <<problem, cache, geometry, outcome, tiles>>
ranges == <<job, state, result, rest, covered, written>>
inference == <<graph, plan, rt, at, be, native, mem, faults>>
suite == <<focus, torch, allocatorVars, compat, gemm, ranges, inference, run>>

(* Tickets, leases, threads and segments are told apart by nothing.         *)
Pair == {x1, x2}
Symmetric == Permutations(Pair)

-----------------------------------------------------------------------------
(* Products: every layout and operation, views with and without padding,   *)
(* and operands that share an allocation.                                  *)
Bytes == 2

View(id, size, offset, rows, columns, layout, pad) ==
  [id |-> id, size |-> size, offset |-> offset, rows |-> rows, columns |-> columns,
   ld |-> (IF layout = "row" THEN columns ELSE rows) + pad, layout |-> layout]

Turned(o, rows, columns) == IF o = "none" THEN <<rows, columns>> ELSE <<columns, rows>>

Placed(d, la, lb, lc, oa, ob, pad, sharing) ==
  LET sa == Turned(oa, d[1], d[3])
      sb == Turned(ob, d[3], d[2])
      ids == CASE sharing = "distinct" -> <<1, 2, 3>>
               [] sharing = "inputs" -> <<1, 1, 3>>
               [] OTHER -> <<1, 2, 1>>
      after == CASE sharing = "beside" -> 16 * Bytes
                 [] sharing = "interleaved" -> 3 * Bytes
                 [] OTHER -> 0
      before == IF sharing = "distinct" THEN Bytes ELSE 0
  IN [m |-> d[1], n |-> d[2], k |-> d[3], opA |-> oa, opB |-> ob,
      zeroBeta |-> oa = ob, narrow |-> oa = "transpose" /\ lb = lc,
      a |-> View(ids[1], 40 * Bytes, before, sa[1], sa[2], la, pad),
      b |-> View(ids[2], 40 * Bytes, 2 * Bytes, sb[1], sb[2], lb, 0),
      c |-> View(ids[3], 40 * Bytes, after, d[1], d[2], lc, pad)]

Layouts == {"row", "column"}
Ops == {"none", "transpose"}
Placements ==
  {<<"distinct", 0>>, <<"distinct", 2>>, <<"inputs", 2>>, <<"beside", 0>>, <<"interleaved", 2>>}
AllProblems ==
  {Placed(d, la, lb, lc, oa, ob, pl[2], pl[1]) :
     d \in {<<3, 2, 3>>, <<1, 4, 2>>, <<4, 3, 1>>}, la \in Layouts, lb \in Layouts,
     lc \in Layouts, oa \in Ops, ob \in Ops, pl \in Placements}
AllCaches == {[chunk |-> 4, capacity |-> 13], [chunk |-> 4, capacity |-> 30],
              [chunk |-> 8, capacity |-> 50]}
Large == [m |-> 4, n |-> 3, k |-> 2]
Small == [m |-> 3, n |-> 2, k |-> 2]

Whole(id, rows, columns) == View(id, 40, 0, rows, columns, "row", 0)
FewProblems ==
  {[m |-> d[1], n |-> d[2], k |-> d[3], opA |-> "none", opB |-> "none",
    zeroBeta |-> zero, narrow |-> narrow,
    a |-> Whole(1, d[1], d[3]), b |-> Whole(2, d[3], d[2]), c |-> Whole(3, d[1], d[2])] :
     d \in {<<2, 3, 3>>, <<3, 2, 2>>, <<1, 1, 4>>}, zero \in BOOLEAN, narrow \in BOOLEAN}
FewCaches == {[chunk |-> 2, capacity |-> 8], [chunk |-> 4, capacity |-> 40]}
Square == [m |-> 2, n |-> 2, k |-> 2]

(* Targets that overlap, in and out of order, over a storage of five bytes. *)
Interval(from, to) == [begin |-> from, end |-> to]
TiedTargets ==
  {<<Interval(0, 5)>>, <<Interval(0, 3), Interval(2, 5)>>, <<Interval(1, 4), Interval(0, 5)>>,
   <<Interval(3, 5), Interval(0, 2)>>, <<Interval(3, 5), Interval(0, 2), Interval(1, 4)>>}

(* Graphs of an input, a state and four calls.                             *)
Input == [op |-> "input", args |-> {}, size |-> 1, key |-> 0]
State(key) == [op |-> "state", args |-> {}, size |-> 1, key |-> key]
Compute(args, size) == [op |-> "compute", args |-> args, size |-> size, key |-> 0]
Product(args, size) == [op |-> "matmul", args |-> args, size |-> size, key |-> 0]
Show(v) == [op |-> "alias", args |-> {v}, size |-> 1, key |-> 0]

NodesAt(n, sizes) ==
  LET data == (1 .. n - 1) \ {2} IN
    {Compute({v, w}, s) : v \in data, w \in data, s \in sizes}
      \union {Product({v, 2}, s) : v \in data, s \in sizes}
      \union {Show(v) : v \in 1 .. n - 1}
Four(sizes, last, outputs) ==
  {[nodes |-> <<Input, State(7), n3, n4, n5, n6>>, outputs |-> out] :
     n3 \in NodesAt(3, sizes), n4 \in NodesAt(4, sizes), n5 \in NodesAt(5, sizes),
     n6 \in last, out \in outputs}
PlannedGraphs == Four({1, 2}, NodesAt(6, {1}), {{4, 6}})
RunGraphs == Four({1}, {Compute({3, 5}, 1), Product({4, 2}, 1), Show(4)}, {{6}})
(* A chain that reuses its slot, an output that is an alias, tied state, a *)
(* slot that products and others share, and a value nobody reads.          *)
FaultGraphs ==
  {[nodes |-> <<Input, State(7), Compute({1}, 1), Compute({3}, 2), Compute({4}, 1)>>,
    outputs |-> {5}],
   [nodes |-> <<Input, State(7), State(7), Product({1, 2}, 1), Show(4), Product({1, 3}, 1)>>,
    outputs |-> {5}],
   [nodes |-> <<Input, State(7), Compute({1}, 1), Product({3, 2}, 1), Compute({4}, 1), Show(5)>>,
    outputs |-> {1, 6}]}

-----------------------------------------------------------------------------
OneSession == INSTANCE TorchControl WITH
  Thread <- {t1}, Session <- {s1}, Lease <- {l1}, Alloc <- {a1}, Ticket <- Pair,
  Timeouts <- {"positive"}, Arena <- 3, Alignment <- 2, BlockSizes <- {1, 2}
TwoLeases == INSTANCE TorchControl WITH
  Thread <- {t1}, Session <- {s1}, Lease <- Pair, Alloc <- {a1}, Ticket <- {t1},
  Timeouts <- {"positive"}, Arena <- 3, Alignment <- 2, BlockSizes <- {2}
TwoThreads == INSTANCE TorchControl WITH
  Thread <- Pair, Session <- {s1, s2}, Lease <- {l1}, Alloc <- {a1}, Ticket <- {},
  Timeouts <- {"positive"}, Arena <- 3, Alignment <- 2, BlockSizes <- {}
Adapter == INSTANCE CompatAdapter WITH
  Client <- Pair, Address <- {a1}, Handle <- {h1}, Tiles <- 2, MaxCalls <- 4,
  MaxQueueFailures <- 1
Plans == INSTANCE GemmPlan WITH
  Problems <- AllProblems, Caches <- AllCaches, Preferred <- Large, Element <- Bytes,
  Alignment <- 2, MaxTiles <- 40, MaxRanges <- 40
Limited == INSTANCE GemmPlan WITH
  Problems <- AllProblems, Caches <- AllCaches, Preferred <- Small, Element <- Bytes,
  Alignment <- 2, MaxTiles <- 4, MaxRanges <- 6
Tiled == INSTANCE TiledGemm WITH
  Problems <- FewProblems, Caches <- FewCaches, Preferred <- Square, Element <- 1,
  Alignment <- 2, MaxTiles <- 20, MaxRanges <- 20, PrefetchDistance <- 2
Ranges == INSTANCE ManagedRanges WITH
  Vocabulary <- 6, RowBytes <- 2, RowOffset <- 3, Storages <- {"a", "b"}, Space <- 4,
  MaxRanges <- 3, StorageBytes <- 5, Tied <- TiedTargets, Chunks <- 3
Captured == INSTANCE InferenceRuntime WITH Graphs <- PlannedGraphs, MaxRuns <- 0, MaxFaults <- 0
Runs == INSTANCE InferenceRuntime WITH Graphs <- RunGraphs, MaxRuns <- 2, MaxFaults <- 0
Failing == INSTANCE InferenceRuntime WITH Graphs <- FaultGraphs, MaxRuns <- 2, MaxFaults <- 2

ASSUME /\ OneSession!TorchAssumption /\ TwoLeases!TorchAssumption /\ TwoThreads!TorchAssumption
       /\ Adapter!CompatAssumption
       /\ Plans!PlanAssumption /\ Limited!PlanAssumption
       /\ Tiled!PlanAssumption /\ Tiled!PrefetchAssumption /\ Ranges!RangesAssumption
       /\ Captured!InferenceAssumption /\ Runs!InferenceAssumption
       /\ Failing!InferenceAssumption

-----------------------------------------------------------------------------
NoTorch ==
  /\ sess = Nobody /\ lease = Nobody /\ alloc = Nobody /\ ticket = Nobody
  /\ owners = Nobody /\ tls = Nobody
NoCompat ==
  /\ adapter = Nobody /\ jobs = Nobody /\ worker = Nobody /\ backend = Nobody
  /\ memory = Nobody /\ handles = Nobody /\ counts = Nobody /\ client = Nobody
  /\ lifecycle = Nobody
NoGemm ==
  /\ problem = Nobody /\ cache = Nobody /\ geometry = Nobody /\ outcome = Nobody
  /\ tiles = Nobody
NoRanges ==
  /\ job = Nobody /\ state = Nobody /\ result = Nobody /\ rest = Nobody
  /\ covered = Nobody /\ written = Nobody
NoInference ==
  /\ graph = Nobody /\ plan = Nobody /\ rt = Nobody /\ at = Nobody /\ be = Nobody
  /\ native = Nobody /\ mem = Nobody /\ faults = Nobody
NoRun == run = Nobody

ApplicationsInit ==
  /\ AllocatorInit
  /\ \/ /\ \/ focus = "one session" /\ OneSession!TorchInit
           \/ focus = "two leases" /\ TwoLeases!TorchInit
           \/ focus = "two threads" /\ TwoThreads!TorchInit
        /\ NoCompat /\ NoGemm /\ NoRanges /\ NoInference /\ NoRun
     \/ /\ focus = "segments"
        /\ NoTorch /\ NoCompat /\ NoGemm /\ NoRanges /\ NoInference /\ NoRun
     \/ /\ focus = "adapter" /\ Adapter!Init
        /\ NoTorch /\ NoGemm /\ NoRanges /\ NoInference /\ NoRun
     \/ /\ \/ focus = "plans" /\ Plans!Init /\ NoRun
           \/ focus = "limited" /\ Limited!Init /\ NoRun
           \/ focus = "tiled" /\ Tiled!TiledInit
        /\ NoTorch /\ NoCompat /\ NoRanges /\ NoInference
     \/ /\ focus = "ranges" /\ Ranges!Init
        /\ NoTorch /\ NoCompat /\ NoGemm /\ NoInference /\ NoRun
     \/ /\ \/ focus = "captured" /\ Captured!Init
           \/ focus = "runs" /\ Runs!Init
           \/ focus = "failing" /\ Failing!Init
        /\ NoTorch /\ NoCompat /\ NoGemm /\ NoRanges

TorchStep ==
  /\ \/ focus = "one session" /\ OneSession!TorchNext
     \/ focus = "two leases" /\ TwoLeases!TorchNext
     \/ focus = "two threads" /\ TwoThreads!TorchNext
  /\ UNCHANGED <<focus, allocatorVars, compat, gemm, ranges, inference, run>>

AllocatorStep ==
  /\ focus = "segments" /\ AllocatorNext
  /\ UNCHANGED <<focus, torch, compat, gemm, ranges, inference, run>>

CompatStep ==
  /\ focus = "adapter" /\ Adapter!Next
  /\ UNCHANGED <<focus, torch, allocatorVars, gemm, ranges, inference, run>>

GemmStep ==
  /\ \/ focus = "plans" /\ Plans!Next /\ UNCHANGED run
     \/ focus = "limited" /\ Limited!Next /\ UNCHANGED run
     \/ focus = "tiled" /\ Tiled!TiledNext
  /\ UNCHANGED <<focus, torch, allocatorVars, compat, ranges, inference>>

RangesStep ==
  /\ focus = "ranges" /\ Ranges!Next
  /\ UNCHANGED <<focus, torch, allocatorVars, compat, gemm, inference, run>>

InferenceStep ==
  /\ \/ focus = "captured" /\ Captured!Prepare
     \/ focus = "runs" /\ Runs!Next
     \/ focus = "failing" /\ Failing!Next
  /\ UNCHANGED <<focus, torch, allocatorVars, compat, gemm, ranges>>

ApplicationsNext ==
  \/ TorchStep \/ AllocatorStep \/ CompatStep
  \/ GemmStep \/ RangesStep \/ InferenceStep

ApplicationsSpec == ApplicationsInit /\ [][ApplicationsNext]_suite

-----------------------------------------------------------------------------
(* Views, leases, scratch blocks and events are counted against what       *)
(* PyTorch still holds: however calls fail and threads race with a close,  *)
(* nothing that is in use loses its memory, nothing sealed has views, and  *)
(* nothing stays behind.                                                   *)
TorchSafe ==
  /\ focus = "one session" =>
       /\ OneSession!TorchTypeOK /\ OneSession!SealedHasNoViews /\ OneSession!ViewsCounted
       /\ OneSession!ScratchOwned /\ OneSession!ViewsHaveMemory
       /\ OneSession!ActiveLeaseIsTheRuntimes /\ OneSession!EventsBalance
       /\ OneSession!CloseLeavesNothing
  /\ focus = "two leases" =>
       /\ TwoLeases!SealedHasNoViews /\ TwoLeases!ViewsCounted /\ TwoLeases!ScratchOwned
       /\ TwoLeases!ViewsHaveMemory /\ TwoLeases!ActiveLeaseIsTheRuntimes
       /\ TwoLeases!EventsBalance /\ TwoLeases!CloseLeavesNothing
  /\ focus = "two threads" =>
       /\ TwoThreads!ViewsHaveMemory /\ TwoThreads!ActiveLeaseIsTheRuntimes
       /\ TwoThreads!CloseLeavesNothing

(* While threads call, initialise and shut down the adapter at once: only  *)
(* a ready adapter has a backend, a worker leaves nothing behind, a        *)
(* pointer that was freed or torn down is never served again, and every    *)
(* call is counted and answered.                                           *)
CompatSafe ==
  focus = "adapter" =>
    /\ Adapter!CompatTypeOK /\ Adapter!ReadyHasBackend /\ Adapter!WorkerLeavesNothing
    /\ Adapter!TornIsNeverUsed /\ Adapter!StalePointersStayDead
    /\ Adapter!LedgerAgrees /\ Adapter!CallsBalance

(* The tiles of a plan fit the cache and the limits, compute every product *)
(* once and touch what they announce; their execution launches nothing     *)
(* that was not announced, keeps its prefetches ahead and retires exactly  *)
(* what it has computed.                                                   *)
GemmSafe ==
  /\ focus = "plans" =>
       /\ Plans!PlanTypeOK /\ Plans!ResultIsNoOperand /\ Plans!PlannedTilesFit
       /\ Plans!ProductsOnce /\ Plans!NarrowInOneCall /\ Plans!SummariesAreExact
       /\ Plans!AccessesAreExact /\ Plans!CallComputesTile /\ Plans!GivesUpOnlyAtTheEnd
  /\ focus = "limited" => Limited!LimitsKept
  /\ focus = "tiled" =>
       /\ Tiled!TiledTypeOK /\ Tiled!LaunchedWasAnnounced /\ Tiled!SuccessIsComplete
       /\ Tiled!RetiredIsExact /\ Tiled!PrefetchIsAhead

(* What a node reads is what its producer wrote in this run, although      *)
(* values share slots and overlapping runs of bytes are merged: a slot is  *)
(* not reused too early, an output stays valid until the next run, memory  *)
(* a kernel uses stays mapped, and a failed session closes completely.     *)
InferenceSafe ==
  /\ focus = "ranges" =>
       /\ Ranges!RangesTypeOK /\ Ranges!RowsAreExact /\ Ranges!MergeIsExact
       /\ Ranges!ModesNotWeakened /\ Ranges!RangesApart /\ Ranges!WrittenOnce
       /\ Ranges!WholeIsAccepted
  /\ focus = "captured" =>
       /\ Captured!ReadsFindTheirValue /\ Captured!SlotsAreFewest
       /\ Captured!SlotsHoldTheirValues /\ Captured!ReleasedOnce
  /\ focus = "runs" =>
       /\ Runs!InferenceTypeOK /\ Runs!ReadsAreCurrent /\ Runs!DiscardedIsVoid
       /\ Runs!TiledOutputStaysValid /\ Runs!RestsClean
  /\ focus = "failing" =>
       /\ Failing!InternalChecksHold /\ Failing!MappedUnderKernel
       /\ Failing!CloseLeavesNothing

(* What a step may not do: destroy cuBLAS while work of unknown state is   *)
(* under way, unmap what a kernel uses, overwrite the emergency record,    *)
(* take the adapter's lifecycle back, retry a plan without shrinking it,   *)
(* or revive a failed session.                                             *)
ApplicationSteps ==
  [][/\ focus = "one session" => OneSession!CublasSurvivesUnknownWork
     /\ focus = "two leases" => TwoLeases!CublasSurvivesUnknownWork
     /\ focus = "two threads" => TwoThreads!CublasSurvivesUnknownWork
     /\ focus = "segments" => NoUnmapUnderWork /\ EmergencyIsKept
     /\ focus = "adapter" => Adapter!LifecycleAdvances
     /\ focus = "plans" => Plans!AlwaysShrinks
     /\ focus = "failing" => Failing!FailedForGood]_suite
=============================================================================
