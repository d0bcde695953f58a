------------------------------ MODULE MCTools ------------------------------
(***************************************************************************)
(* The other programs of the repository, for TLC: the cache manager of     *)
(* phase 2 with its plan and its victim policies, the virtual memory proof *)
(* of concept, the worker process with its controller, and the collector   *)
(* that audits the memory of a launched program.                           *)
(*                                                                         *)
(* They share no state: "focus" names the one that moves. A variable is    *)
(* that of the component in focus; the others rest.                        *)
(***************************************************************************)
EXTENDS Integers, Sequences, FiniteSets, TLC

CONSTANTS Nobody, None, t0, t1, t2, lib1, dev0, ctxA, ctxB

VARIABLES
  focus,                                          \* the component that moves
  chunk, frame, slot, stream, host, dev, written, token,  \* of the cache manager
  queue, prefetched, target, todo, got, trace, run, freed,
  request, machine, plan, stage, reason, accesses,  \* of its plan
  page, ring, lru, now, used,                     \* of the victim policies
  window, memory, pinned, backing, submitted, loop, res, result, ledger, failed,  \* of the proof
  prog, w, pipe, rd, ctl, clock,                  \* of the worker, with faults
  reg, under, right,                              \* of the memory ledger
  lastApi, apiCount, failures, nullFrees, closed, drv, told, finished, refusals,
                                                  \* of the memory witness, with reg and those below
  libraries, primaries, producer, nextContext, checkpointed, counts,
  loaded, held, context, incarnation, calls, missed,  \* of the teardown witness, with those below
  pending, sequence, errors, thread, faults       \* of several

Symmetric == {p @@ q : p \in Permutations({t1, t2}), q \in Permutations({ctxA, ctxB})}

cache == <<chunk, frame, slot, stream, host, dev, written, token,
           queue, prefetched, target, todo, got, trace, run, freed>>
planner == <<request, machine, plan, stage, reason, accesses>>
policy == <<page, ring, lru, now, used>>
proof == <<window, memory, pinned, backing, submitted, loop, res, result, ledger, failed>>
process == <<prog, w, pipe, rd, ctl, clock>>
bytes == <<under, right>>
witness == <<lastApi, apiCount, failures, nullFrees, closed, drv, told, finished, refusals>>
teardown == <<libraries, primaries, producer, nextContext, checkpointed, counts,
              loaded, held, context, incarnation, calls, missed>>
shared == <<pending, sequence, errors, thread>>
suite == <<focus, cache, planner, policy, proof, process, reg, bytes, witness, teardown,
           shared, faults>>

-----------------------------------------------------------------------------
(* Chunks of two to six units on machines whose memory is scarce in one    *)
(* place or another; the last set stands at the edge of the width.         *)
RequestsOf(chunks, logicals, caches, headrooms) ==
  [chunk : chunks, slots : {2}, logical : logicals, cache : caches, headroom : headrooms,
   passes : {3}, pressure : {None}]
SomeRequests ==
  RequestsOf({1, 5}, {None, 26}, {None, 9}, {0, 3})
    \union RequestsOf({16, 60}, {None}, {None}, {0})
MachinesOf(recommended, physical, available, vram, free, wddm) ==
  [minimum : {1, 9}, recommended : recommended, physical : physical, available : available,
   vram : vram, free : free, wddm : wddm]
SomeMachines ==
  MachinesOf({2}, {0, 63}, {40, 63}, {13, 24, 47}, {12, 23}, {None, [budget |-> 20, usage |-> 3]})
    \union MachinesOf({2, 8}, {4}, {63}, {24, 63}, {63}, {None})

(* What an audited program may call.                                       *)
Descriptor(d, f) == [device |-> d, flag |-> f]
Reserve == [op |-> "reserve", a |-> 1, n |-> 2, context |-> 9]
Make == [op |-> "create", h |-> 1, n |-> 1, context |-> 9]
MapAt(a) == [op |-> "map", a |-> a, n |-> 1, h |-> 1, context |-> 9]
Unmap(n) == [op |-> "unmap", a |-> 1, n |-> n, context |-> 9]
Drop == [op |-> "release", h |-> 1, context |-> 9]
Access(n, descriptors) ==
  [op |-> "access", a |-> 1, n |-> n, context |-> 9, descriptors |-> descriptors]
Call(name, a, n) == [op |-> name, a |-> a, n |-> n, context |-> 9]
Peer == [op |-> "d2d", a |-> 1, source |-> 1, n |-> 1, context |-> 9]
MappingCalls ==
  {Reserve, Make, MapAt(1), MapAt(2), Unmap(2), Unmap(1), Drop,
   Access(1, <<Descriptor(0, "write")>>),
   Access(2, <<Descriptor(0, "write"), Descriptor(1, "read")>>),
   Peer, Call("free_reservation", 1, 2)}
AllocationCalls ==
  {Call("allocate", 1, 1), Call("free", 1, 1), Call("free", 0, 1), Call("unsupported", 2, 1),
   Call("flagged", 2, 1)}

-----------------------------------------------------------------------------
Faulty == INSTANCE CacheManager WITH
  Chunks <- 3, Cap <- 2, HSlots <- 2, DSlots <- 1, Distance <- 2, Ops <- 3, Workloads <- 1,
  Headroom <- 0, SafeSamples <- 2, GrowthStep <- 1, GrowthReserve <- 1,
  MaxFaults <- 1, MaxOom <- 0, FreeSamples <- {4}
Closing == INSTANCE CacheManager WITH
  Chunks <- 3, Cap <- 2, HSlots <- 1, DSlots <- 1, Distance <- 1, Ops <- 2, Workloads <- 1,
  Headroom <- 0, SafeSamples <- 2, GrowthStep <- 1, GrowthReserve <- 1,
  MaxFaults <- 2, MaxOom <- 1, FreeSamples <- {4}
Ahead == INSTANCE CacheManager WITH
  Chunks <- 4, Cap <- 2, HSlots <- 2, DSlots <- 1, Distance <- 3, Ops <- 4, Workloads <- 1,
  Headroom <- 0, SafeSamples <- 2, GrowthStep <- 1, GrowthReserve <- 1,
  MaxFaults <- 0, MaxOom <- 0, FreeSamples <- {4}
Shifting == INSTANCE CacheManager WITH
  Chunks <- 5, Cap <- 4, HSlots <- 1, DSlots <- 1, Distance <- 2, Ops <- 3, Workloads <- 1,
  Headroom <- 1, SafeSamples <- 2, GrowthStep <- 1, GrowthReserve <- 1,
  MaxFaults <- 0, MaxOom <- 0, FreeSamples <- {0, 1, 4}
Plan == INSTANCE CachePlan WITH
  MaxWord <- 63, Word <- 2, MinHeadroom <- 4, Service <- 1, Cycles <- 8,
  Requests <- SomeRequests, Machines <- SomeMachines, trace <- accesses
Clock == INSTANCE VictimPolicy WITH
  Keys <- 1 .. 3, Hot <- {3}, Policies <- {"clock"}, Calls <- 1, chunk <- page, clock <- ring
Lru == INSTANCE VictimPolicy WITH
  Keys <- 1 .. 3, Hot <- {3}, Policies <- {"lru"}, Calls <- 7, chunk <- page, clock <- ring
Poc == INSTANCE VmmPoc WITH
  N <- 2, Tiles <- 3, Passes <- 2, Requested <- "both", MaxFaults <- 2,
  slot <- window, frame <- memory, stream <- submitted, run <- loop, faults <- failed
Worker == INSTANCE WorkerProcess WITH
  Programs <- {"poc", "cache", "gemm", "compression", "compat"}, Codes <- {0, 25},
  MaxSteps <- 1, MaxBeats <- 1, MaxTraces <- 1, PipeRoom <- 4, Quiet <- 1, Overall <- 2,
  MaxFaults <- 1

Spans == INSTANCE MemoryLedger WITH
  Address <- 1 .. 3, Size <- 1 .. 3, HandleName <- {1}, Device <- {0, 1}, Context <- {9},
  LastByte <- 4, ObjectCap <- 20, AccessCap <- 2, ByteCap <- 8, IdCap <- 8, SegmentCap <- 8,
  Calls <- 5
Mappings == INSTANCE MemoryLedger WITH
  Address <- 1 .. 2, Size <- 1 .. 2, HandleName <- {1}, Device <- {0}, Context <- {9},
  LastByte <- 3, ObjectCap <- 9, AccessCap <- 1, ByteCap <- 3, IdCap <- 8, SegmentCap <- 8,
  Calls <- 8
Mapping == INSTANCE MemoryWitness WITH
  Thread <- {t0}, MemoryCall <- MappingCalls, Address <- 1 .. 2, Size <- 1 .. 2,
  HandleName <- {1}, Device <- {0, 1}, Context <- {9}, LastByte <- 3, ObjectCap <- 20,
  AccessCap <- 4, ByteCap <- 8, IdCap <- 9, SegmentCap <- 1, RecordCap <- 9, ApiCap <- 5,
  MaxRefusals <- 1, MaxFaults <- 1, Plenty <- 100
Allocating == INSTANCE MemoryWitness WITH
  Thread <- {t1, t2}, MemoryCall <- AllocationCalls, Address <- 1 .. 2, Size <- 1 .. 2,
  HandleName <- {1}, Device <- {0, 1}, Context <- {9}, LastByte <- 3, ObjectCap <- 2,
  AccessCap <- 4, ByteCap <- 8, IdCap <- 9, SegmentCap <- 4, RecordCap <- 5, ApiCap <- 3,
  MaxRefusals <- 1, MaxFaults <- 1, Plenty <- 100
Teardown == INSTANCE TeardownWitness WITH
  Thread <- {t1, t2}, Library <- {lib1}, Device <- {dev0}, NativeContext <- {ctxA, ctxB},
  RecordCap <- 5, ObjectCap <- 2, MaxCalls <- 3, MaxMissed <- 1, MaxFaults <- 1

ASSUME /\ Faulty!CacheAssumption /\ Closing!CacheAssumption /\ Ahead!CacheAssumption
       /\ Shifting!CacheAssumption /\ Plan!PlanAssumption
       /\ Clock!PolicyAssumption /\ Lru!PolicyAssumption
       /\ Poc!VmmPocAssumption /\ Worker!WorkerAssumption
       /\ Spans!LedgerAssumption /\ Mappings!LedgerAssumption
       /\ Mapping!WitnessAssumption /\ Allocating!WitnessAssumption
       /\ Teardown!TeardownAssumption

-----------------------------------------------------------------------------
NoCache ==
  /\ chunk = Nobody /\ frame = Nobody /\ slot = Nobody /\ stream = Nobody /\ host = Nobody
  /\ dev = Nobody /\ written = Nobody /\ token = Nobody /\ queue = Nobody
  /\ prefetched = Nobody /\ target = Nobody /\ todo = Nobody /\ got = Nobody
  /\ trace = Nobody /\ run = Nobody /\ freed = Nobody
NoPlan ==
  /\ request = Nobody /\ machine = Nobody /\ plan = Nobody /\ stage = Nobody
  /\ reason = Nobody /\ accesses = Nobody
NoPolicy ==
  /\ page = Nobody /\ ring = Nobody /\ lru = Nobody /\ now = Nobody /\ used = Nobody
NoProof ==
  /\ window = Nobody /\ memory = Nobody /\ pinned = Nobody /\ backing = Nobody
  /\ submitted = Nobody /\ loop = Nobody /\ res = Nobody /\ result = Nobody
  /\ ledger = Nobody /\ failed = Nobody
NoProcess ==
  /\ prog = Nobody /\ w = Nobody /\ pipe = Nobody /\ rd = Nobody /\ ctl = Nobody
  /\ clock = Nobody
NoBytes ==
  /\ under = Nobody /\ right = Nobody
NoWitness ==
  /\ lastApi = Nobody /\ apiCount = Nobody /\ failures = Nobody /\ nullFrees = Nobody
  /\ closed = Nobody /\ drv = Nobody /\ told = Nobody /\ finished = Nobody
  /\ refusals = Nobody
NoTeardown ==
  /\ libraries = Nobody /\ primaries = Nobody /\ producer = Nobody /\ nextContext = Nobody
  /\ checkpointed = Nobody /\ counts = Nobody /\ loaded = Nobody /\ held = Nobody
  /\ context = Nobody /\ incarnation = Nobody /\ calls = Nobody /\ missed = Nobody
NoShared ==
  /\ pending = Nobody /\ sequence = Nobody /\ errors = Nobody /\ thread = Nobody

ToolsInit ==
  \/ /\ \/ focus = "faulty" /\ Faulty!Init
        \/ focus = "closing" /\ Closing!Init
        \/ focus = "ahead" /\ Ahead!Init
        \/ focus = "shifting" /\ Shifting!Init
     /\ NoPlan /\ NoPolicy /\ NoProof /\ NoProcess
     /\ NoBytes /\ NoWitness /\ NoTeardown /\ NoShared /\ reg = Nobody /\ faults = Nobody
  \/ /\ focus = "plan" /\ Plan!Init
     /\ NoCache /\ NoPolicy /\ NoProof /\ NoProcess
     /\ NoBytes /\ NoWitness /\ NoTeardown /\ NoShared /\ reg = Nobody /\ faults = Nobody
  \/ /\ \/ focus = "clock" /\ Clock!Init
        \/ focus = "lru" /\ Lru!Init
     /\ NoCache /\ NoPlan /\ NoProof /\ NoProcess
     /\ NoBytes /\ NoWitness /\ NoTeardown /\ NoShared /\ reg = Nobody /\ faults = Nobody
  \/ /\ focus = "proof" /\ Poc!Init
     /\ NoCache /\ NoPlan /\ NoPolicy /\ NoProcess
     /\ NoBytes /\ NoWitness /\ NoTeardown /\ NoShared /\ reg = Nobody /\ faults = Nobody
  \/ /\ focus = "worker" /\ Worker!Init
     /\ NoCache /\ NoPlan /\ NoPolicy /\ NoProof
     /\ NoBytes /\ NoWitness /\ NoTeardown /\ NoShared /\ reg = Nobody
  \/ /\ \/ focus = "spans" /\ Spans!Init
        \/ focus = "mappings" /\ Mappings!Init
     /\ NoCache /\ NoPlan /\ NoPolicy /\ NoProof /\ NoProcess
     /\ NoWitness /\ NoTeardown /\ NoShared /\ faults = Nobody
  \/ /\ \/ focus = "mapping" /\ Mapping!Init
        \/ focus = "allocating" /\ Allocating!Init
     /\ NoCache /\ NoPlan /\ NoPolicy /\ NoProof /\ NoProcess /\ NoBytes /\ NoTeardown
  \/ /\ focus = "teardown" /\ Teardown!Init
     /\ NoCache /\ NoPlan /\ NoPolicy /\ NoProof /\ NoProcess
     /\ NoBytes /\ NoWitness /\ reg = Nobody

(* Where no call fails chunks are told apart by the trace alone: they are   *)
(* numbered in the order in which it comes to them.                        *)
Numbered(keys) ==
  \A i \in DOMAIN keys : keys[i] = 1 \/ \E j \in 1 .. i : keys[j] = keys[i] - 1

CacheStep ==
  /\ \/ focus = "faulty" /\ Faulty!Next
     \/ focus = "closing" /\ Closing!Next
     \/ focus = "ahead" /\ Ahead!Next /\ (trace = <<>> => Numbered(trace'))
     \/ focus = "shifting" /\ Shifting!Next /\ (trace = <<>> => Numbered(trace'))
  /\ UNCHANGED <<focus, planner, policy, proof, process, reg, bytes, witness, teardown,
                 shared, faults>>

PlanStep ==
  /\ focus = "plan" /\ Plan!Next
  /\ UNCHANGED <<focus, cache, policy, proof, process, reg, bytes, witness, teardown,
                 shared, faults>>

PolicyStep ==
  /\ \/ focus = "clock" /\ Clock!Next
     \/ focus = "lru" /\ Lru!Next
  /\ UNCHANGED <<focus, cache, planner, proof, process, reg, bytes, witness, teardown,
                 shared, faults>>

ProofStep ==
  /\ focus = "proof" /\ Poc!Next
  /\ UNCHANGED <<focus, cache, planner, policy, process, reg, bytes, witness, teardown,
                 shared, faults>>

WorkerStep ==
  /\ focus = "worker" /\ Worker!Next
  /\ UNCHANGED <<focus, cache, planner, policy, proof, reg, bytes, witness, teardown, shared>>

LedgerStep ==
  /\ \/ focus = "spans" /\ Spans!Next
     \/ focus = "mappings" /\ Mappings!Next
  /\ UNCHANGED <<focus, cache, planner, policy, proof, process, witness, teardown,
                 shared, faults>>

WitnessStep ==
  /\ \/ focus = "mapping" /\ Mapping!Next
     \/ focus = "allocating" /\ Allocating!Next
  /\ UNCHANGED <<focus, cache, planner, policy, proof, process, bytes, teardown>>

TeardownStep ==
  /\ focus = "teardown" /\ Teardown!Next
  /\ UNCHANGED <<focus, cache, planner, policy, proof, process, reg, bytes, witness>>

ToolsNext ==
  \/ CacheStep \/ PlanStep \/ PolicyStep \/ ProofStep
  \/ WorkerStep \/ LedgerStep \/ WitnessStep \/ TeardownStep

ToolsSpec == ToolsInit /\ [][ToolsNext]_suite

-----------------------------------------------------------------------------
(* Whatever the device and the budget do between two accesses, and         *)
(* whatever fails, the cache manager never uploads from a staging buffer   *)
(* in use, never evicts the last copy of a write, keeps its queue of       *)
(* prefetches and its frames in order, stays under its target, and calls a *)
(* run complete only when it is. Its plan fits the machine without         *)
(* overflow, and its policies find the victim they promise.                *)
CacheSafe ==
  /\ focus = "faulty" =>
       /\ Faulty!TypeOK /\ Faulty!UploadStagingExclusive /\ Faulty!ResidentIsReference
       /\ Faulty!NeverDiffers /\ Faulty!WritesReachTheHost /\ Faulty!FramesLinked
       /\ Faulty!NoFailureOfItsOwn /\ Faulty!CompletesWithoutFaults
  /\ focus = "closing" =>
       /\ Closing!DeviceWorkIsSafe /\ Closing!CompletedMeansClean
       /\ Closing!RangeOutlivesMappings
  /\ focus = "ahead" => 
       Ahead!UploadStagingExclusive /\ Ahead!PrefetchesAccounted /\ Ahead!QueueMatchesChunks
  /\ focus = "shifting" => Shifting!PoolWithinTarget /\ Shifting!CompletesWithoutFaults
  /\ focus = "plan" =>
       /\ Plan!TypeOK /\ Plan!ChunksCanBeMapped /\ Plan!HostMemoryHolds /\ Plan!CacheIsProper
       /\ Plan!TargetFitsTheDevice /\ Plan!PlannedCanBeGenerated
       /\ Plan!AccessesStayInTheHeap /\ Plan!PassesCoverTheHeap /\ Plan!HotSetsFit
       /\ Plan!PressureIsReleased /\ Plan!WriteHeavyMix
  /\ focus = "clock" =>
       /\ Clock!TypeOK /\ Clock!EntriesAreTheMapped /\ Clock!VictimWhenever
       /\ Clock!CleanBeforeDirty /\ Clock!SecondChance
  /\ focus = "lru" => Lru!VictimWhenever /\ Lru!LeastRecentlyUsed

(* However a worker crashes, hangs, writes in pieces or is killed, what    *)
(* the controller reports as the worker's is the worker's own, and its     *)
(* watchdog is wound up by work only; and the executor of the proof of     *)
(* concept never has device work on memory it has taken away, reports      *)
(* success only for exact results, and does not lie about its cleanup.     *)
WorkerSafe ==
  /\ focus = "worker" =>
       /\ Worker!TypeOK /\ Worker!AcceptedIsWorkersOwn /\ Worker!ReportedAfterReap
       /\ Worker!TimeoutIsPrimary /\ Worker!FaultFreeAccepted /\ Worker!ProgressIsWork
  /\ focus = "proof" =>
       /\ Poc!TypeOK /\ Poc!DeviceWorkHasMemory /\ Poc!OneMappingPerTile
       /\ Poc!OneKernelAtATime /\ Poc!FaultFreeRunSucceeds /\ Poc!CompletedMeansExact
       /\ Poc!BackingKeepsPace /\ Poc!ReservationOutlivesMappings /\ Poc!LedgerIsTruthful

(* The collector's ledger holds what the driver holds: its segments        *)
(* partition the mapped bytes, its counters are sums over its objects,     *)
(* memory lives as long as a mapping or handle keeps it, a call under way  *)
(* is known, and a trace that calls itself healthy is complete, although   *)
(* addresses are used again and callbacks of two threads overtake.         *)
AuditSafe ==
  /\ focus = "spans" =>
       Spans!LedgerTypeOK /\ Spans!SpansPartition /\ Spans!AnswersAreBytewise
  /\ focus = "mappings" =>
       /\ Mappings!CountsAreSums /\ Mappings!MemoryLivesWhileKept
       /\ Mappings!MappingsLieInTheirReservation /\ Mappings!MappingsKeepTheirMemory
       /\ Mappings!RangeIsItsMappings
  /\ focus = "mapping" => Mapping!LedgerFollowsDriver
  /\ focus = "allocating" =>
       /\ Allocating!WitnessTypeOK /\ Allocating!LedgerFollowsDriver
       /\ Allocating!OpenCallIsInFlight
  /\ focus = "teardown" =>
       /\ Teardown!TeardownTypeOK /\ Teardown!BalancesHold
       /\ Teardown!HealthyIsComplete /\ Teardown!ContextNamesOneCreation

(* What a step may not do: move the hand of CLOCK past an entry by erasing *)
(* another, give an identity of the ledger a second time, finish a trace   *)
(* as complete with something untold, or take a library's generation back. *)
ToolSteps ==
  [][/\ focus = "clock" => Clock!EraseKeepsTheTurn
     /\ focus = "mappings" => Mappings!IdentitiesAreNotReused
     /\ focus = "mapping" => Mapping!CompleteTellsAll
     /\ focus = "allocating" => Allocating!CompleteTellsAll
     /\ focus = "teardown" => Teardown!GenerationsGrow]_suite
=============================================================================
