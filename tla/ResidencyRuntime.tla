-------------------------- MODULE ResidencyRuntime --------------------------
(***************************************************************************)
(* The residency runtime (src/residency/runtime.cpp): a logical heap whose *)
(* authority is host memory and whose device memory is a write-back cache  *)
(* of chunk-sized frames, mapped and unmapped while the GPU computes.      *)
(*                                                                         *)
(* One thread calls the runtime.  A call is a list of tasks (call.todo),   *)
(* one per primitive of the code that can fail or that the GPU can observe *)
(* half done; each action below executes the first task, and a task may    *)
(* put the tasks it needs in front of the remaining ones.  The client's    *)
(* kernel, and a copy the runtime stopped waiting for, run beside it.      *)
(*                                                                         *)
(* Chunk contents are opaque values.  Every CUDA call named in Faults may  *)
(* fail whenever it is made.                                               *)
(***************************************************************************)
EXTENDS ChunkCore, Sequences, FiniteSets

CONSTANTS
  NumKeys,        (* Number of chunks; plans are ordered by chunk key.       *)
  Alloc,          (* Allocation ids; one is never used twice.                *)
  AllocOf,        (* The allocation of each chunk.                           *)
  MaxFrames,      (* maximum_frame_capacity_: two frames or more after setup;
                     one stands for a cache that lost the rest to a shrink and
                     grows again only by two.                                *)
  Slots,          (* Staging slots of each transfer direction.               *)
  SpillLimit,     (* Raw spill reservations the host budget can hold.        *)
  Val, Zero,      (* Contents of a chunk, and the content of fresh memory.   *)
  Garbage,        (* Content of a frame nothing was transferred to.          *)
  Invalid,        (* A host backing that was discarded.                      *)
  RetainReleasedVa,
  PrefetchModes,  (* Access modes clients pass to prefetch.                  *)
  LateCalls,      (* Operations clients still call on a poisoned runtime.    *)
  Faults          (* The CUDA and host calls that may fail.                  *)

Key == 1..NumKeys
Frame == 0..(MaxFrames - 1)
Slot == 0..(Slots - 1)
Mode == {"read", "write", "overwrite"}

ASSUME RuntimeAssumption ==
  /\ NumKeys \in Nat \ {0} /\ MaxFrames \in Nat \ {0} /\ Slots \in Nat \ {0}
  /\ SpillLimit \in Nat
  /\ AllocOf \in [Key -> Alloc] /\ \A a \in Alloc : \E k \in Key : AllocOf[k] = a
  /\ Zero \in Val /\ Garbage \notin Val /\ Invalid \notin Val
  /\ RetainReleasedVa \in BOOLEAN
  /\ PrefetchModes \subseteq Mode

VARIABLES
  chunk,      (* The record of every chunk.                                  *)
  frame,      (* Frame.handle, the chunk mapped on it, Frame.quarantined.    *)
  device,     (* Content of every frame.                                     *)
  capacity,   (* frame_capacity_                                             *)
  host,       (* Content of every host backing.                              *)
  spill,      (* spill_reservations_, and whether the prepared backing still
                 matches the generation of the authority.                    *)
  owner,      (* Whether an allocation is live, and its VA reservation.      *)
  lease,      (* active_external_lease_                                      *)
  gpu,        (* The kernel the client launched under the lease.             *)
  dma,        (* Copies submitted and not known to be finished.              *)
  next,       (* next_h2d_staging_, next_d2h_staging_                        *)
  rt,         (* poisoned_, launches_blocked_, async_resources_quarantined_,
                 closed_, close_status_, and whether staging and streams exist *)
  call        (* The API call in progress.                                   *)

vars == <<chunk, frame, device, capacity, host, spill, owner, lease, gpu, dma,
          next, rt, call>>

-----------------------------------------------------------------------------
(* Records. *)

NoUse == [gen |-> 0, dirty |-> FALSE, provisional |-> FALSE, spillHere |-> FALSE]
NoLease == [state |-> "none", held |-> FALSE, seal |-> "none", use |-> [k \in Key |-> NoUse]]
NoKernel == [phase |-> "idle", keys |-> {}, writes |-> {}, unwritten |-> {}]
NoCall == [op |-> "none", todo |-> << >>, failure |-> "none",
           plan |-> << >>, val |-> Zero]

Mapped(f) == frame[f].key # None
Members == {k \in Key : lease.use[k].gen # 0}
ActiveLease == lease.state # "none"
ReadyWhenPoisoned == ~rt.closed /\ ~rt.blocked   \* mutant
Ready == ~rt.closed /\ ~rt.poisoned /\ ~rt.blocked
Plan == call.plan
Touched == DOMAIN Plan

Least(S) == CHOOSE x \in S : \A y \in S : x <= y

-----------------------------------------------------------------------------
(* The tasks of a call. *)

Task(do) == [do |-> do]
KeyTask(do, k) == [do |-> do, key |-> k]
FrameTask(do, f) == [do |-> do, frame |-> f]
MapTask(k, f) == [do |-> "map", key |-> k, frame |-> f]

(* For every key of K in order, the named steps. *)
ForEach(K, steps) ==
  IF K = {} THEN << >> ELSE <<[do |-> "forEach", keys |-> K, steps |-> steps]>>

(* A loop in front of the list is unrolled by one iteration. *)
Iteration(loop) ==
  LET k == Least(loop.keys)
  IN  [i \in DOMAIN loop.steps |-> KeyTask(loop.steps[i], k)]
        \o ForEach(loop.keys \ {k}, loop.steps)
Unrolled(tasks) ==
  IF Head(tasks).do = "forEach" THEN Iteration(Head(tasks)) \o Tail(tasks) ELSE tasks

Goto(tasks) ==
  call' = IF tasks = << >> THEN NoCall ELSE [call EXCEPT !.todo = Unrolled(tasks)]
Continue == Goto(Tail(call.todo))
Push(tasks) == Goto(tasks \o Tail(call.todo))

CatchWithoutRollback == {"catch", "dropSpills", "finishLease", "abandon",   \* mutant
                         "closeFrame", "closeCheck", "closeEnd"}

(* Tasks that run even when the task before them failed. *)
Catch == {"rollback", "catch", "dropSpills", "finishLease", "abandon",
          "closeFrame", "closeCheck", "closeEnd"}

(* The first task fails: the call returns its status, unless a handler of  *)
(* the code is still to run.                                               *)
Fail(status) ==
  LET rest == Tail(call.todo)
      handlers == {i \in DOMAIN rest : rest[i].do \in Catch}
  IN  call' = IF handlers = {} THEN NoCall
              ELSE [call EXCEPT !.todo = SubSeq(rest, Least(handlers), Len(rest)),
                                !.failure = status]

At(do) == call.todo # << >> /\ Head(call.todo).do = do
AtKey(do, k) == At(do) /\ Head(call.todo).key = k
AtFrame(do, f) == At(do) /\ Head(call.todo).frame = f

Poisoned == [rt EXCEPT !.poisoned = TRUE]
AsyncNotPoisoned == [rt EXCEPT !.asyncQ = TRUE]        \* mutant
CompletionForgotten == [rt EXCEPT !.poisoned = TRUE]   \* mutant
AsyncUnknown == [rt EXCEPT !.poisoned = TRUE, !.asyncQ = TRUE]
QuarantineVa(k) == [owner EXCEPT ![AllocOf[k]].va = "quarantined"]

-----------------------------------------------------------------------------
Init ==
  /\ chunk = [k \in Key |-> NewChunk]
  /\ frame = [f \in Frame |-> [handle |-> FALSE, key |-> None, quarantined |-> FALSE]]
  /\ device = [f \in Frame |-> Garbage]
  /\ capacity = MaxFrames
  /\ host = [k \in Key |-> Zero]
  /\ spill = [k \in Key |-> "none"]
  /\ owner = [a \in Alloc |-> [live |-> FALSE, va |-> "none"]]
  /\ lease = NoLease
  /\ gpu = NoKernel
  /\ dma = {}
  /\ next = [h2d |-> 0, d2h |-> 0]
  /\ rt = [poisoned |-> FALSE, blocked |-> FALSE, asyncQ |-> FALSE,
           closed |-> FALSE, closeOk |-> TRUE, pools |-> TRUE]
  /\ call = NoCall

-----------------------------------------------------------------------------
(* Mapping a frame and filling it: the second half of ensure_resident.     *)

(* Chunk k enters h2d_in_flight on frame f with a new generation and the   *)
(* next staging slot.                                                      *)
OnFrame(k, f) == [chunk EXCEPT ![k] =
  [BeginGeneration(@) EXCEPT !.state = "h2d_in_flight", !.frame = f,
                             !.staging = next.h2d]]

NextSlotUnwrapped(n) == n + 1   \* mutant
NextSlot(n) == (n + 1) % Slots

MapFrame(k, f) ==
  /\ chunk' = OnFrame(k, f)
  /\ device' = [device EXCEPT ![f] = Garbage]
  /\ next' = [next EXCEPT !.h2d = NextSlot(@)]
  /\ UNCHANGED <<capacity, host, spill, lease, gpu>>

CanMap(k, f) ==
  /\ ~Mapped(f) /\ frame[f].handle
  /\ IsLegalTransition(chunk[k].state, "mapping")

MapRefused(k, f) ==
  /\ AtKey("map", k) /\ Head(call.todo).frame = f /\ ~CanMap(k, f)
  /\ rt' = Poisoned
  /\ Fail("other")
  /\ UNCHANGED <<chunk, frame, device, capacity, host, spill, owner, lease, gpu, dma, next>>

(* cuMemMap fails, or access cannot be granted or verified and cuMemUnmap  *)
(* takes the mapping down again.                                           *)
MapFails(k, f) ==
  /\ AtKey("map", k) /\ Head(call.todo).frame = f /\ CanMap(k, f)
  /\ "map" \in Faults
  /\ Fail("other")
  /\ UNCHANGED <<chunk, frame, device, capacity, host, spill, owner, lease, gpu, dma, next, rt>>

(* Access cannot be granted and the mapping cannot be taken down either.   *)
MapRollbackFails(k, f) ==
  /\ AtKey("map", k) /\ Head(call.todo).frame = f /\ CanMap(k, f)
  /\ {"map", "unmap"} \subseteq Faults
  /\ chunk' = [chunk EXCEPT ![k].state = "mapping", ![k].frame = f]
  /\ \E kept \in {FALSE} \union {h \in {TRUE} : "release" \in Faults} :
       frame' = [frame EXCEPT ![f] = [handle |-> kept, key |-> k, quarantined |-> TRUE]]
  /\ owner' = QuarantineVa(k)
  /\ rt' = Poisoned
  /\ Fail("other")
  /\ UNCHANGED <<device, capacity, host, spill, lease, gpu, dma, next>>

MapAndSubmit(k, f) ==
  /\ AtKey("map", k) /\ Head(call.todo).frame = f /\ CanMap(k, f)
  /\ Plan[k] # "overwrite" => host[k] # Invalid
  /\ MapFrame(k, f)
  /\ frame' = [frame EXCEPT ![f].key = k]
  /\ dma' = dma \union {[key |-> k, dir |-> "h2d", slot |-> next.h2d]}
  /\ Push(<<KeyTask("h2d", k)>>)
  /\ UNCHANGED <<owner, rt>>

(* The copy or its event could not be submitted: whether the GPU still     *)
(* reads the staging slot is unknown.                                      *)
MapAndSubmitFails(k, f) ==
  /\ AtKey("map", k) /\ Head(call.todo).frame = f /\ CanMap(k, f)
  /\ "h2dSubmit" \in Faults
  /\ Plan[k] # "overwrite" => host[k] # Invalid
  /\ MapFrame(k, f)
  /\ frame' = [frame EXCEPT ![f] = [@ EXCEPT !.key = k, !.quarantined = TRUE]]
  /\ dma' = dma \union {[key |-> k, dir |-> "h2d", slot |-> next.h2d]}
  /\ owner' = QuarantineVa(k)
  /\ rt' = AsyncUnknown
  /\ Fail("other")

(* There is no host content to copy, or it cannot be decoded: the mapping  *)
(* is retired through an event before it is taken down.                    *)
MapWithoutSource(k, f) ==
  /\ AtKey("map", k) /\ Head(call.todo).frame = f /\ CanMap(k, f)
  /\ Plan[k] # "overwrite"
  /\ host[k] = Invalid \/ "decode" \in Faults
  /\ MapFrame(k, f)
  /\ frame' = [frame EXCEPT ![f].key = k]
  /\ rt' = IF host[k] = Invalid THEN Poisoned ELSE rt
  /\ Push(<<KeyTask("retireH2d", k), KeyTask("unmap", k), Task("fail")>>)
  /\ UNCHANGED <<owner, dma>>

(* The record of chunk k after its transfer retired. *)
Retired(k) == [chunk EXCEPT ![k] =
  [CompleteGeneration(@, @.event) EXCEPT !.state = "resident_clean", !.staging = None]]

H2dDone(k) ==
  /\ AtKey("h2d", k)
  /\ chunk' = Retired(k)
  /\ device' = [device EXCEPT ![chunk[k].frame] =
                  IF Plan[k] = "overwrite" THEN @ ELSE host[k]]
  /\ dma' = {d \in dma : d.key # k}
  /\ Continue
  /\ UNCHANGED <<frame, capacity, host, spill, owner, lease, gpu, next, rt>>

(* wait_event fails or reaches the stall deadline. *)
TransferStuck(k) ==
  /\ AtKey("h2d", k) \/ AtKey("d2h", k)
  /\ "wait" \in Faults
  /\ rt' = AsyncUnknown
  /\ Fail("other")
  /\ UNCHANGED <<chunk, frame, device, capacity, host, spill, owner, lease, gpu, dma, next>>

RetireFailedH2d(k) ==
  /\ AtKey("retireH2d", k)
  /\ \/ /\ chunk' = Retired(k)
        /\ Continue
        /\ UNCHANGED <<frame, owner, rt>>
     \/ /\ "wait" \in Faults
        /\ frame' = [frame EXCEPT ![chunk[k].frame].quarantined = TRUE]
        /\ owner' = QuarantineVa(k)
        /\ rt' = AsyncUnknown
        /\ Fail("other")
        /\ UNCHANGED chunk
  /\ UNCHANGED <<device, capacity, host, spill, lease, gpu, dma, next>>

FailTask ==
  /\ At("fail")
  /\ Fail("other")
  /\ UNCHANGED <<chunk, frame, device, capacity, host, spill, owner, lease, gpu, dma, next, rt>>

-----------------------------------------------------------------------------
(* Choosing a frame: the first half of ensure_resident, acquire_frame,     *)
(* create_handle.                                                          *)

Active == {f \in Frame : f < capacity}
Reusable == {f \in Active : ~Mapped(f) /\ frame[f].handle}
Creatable == {f \in Active : ~Mapped(f) /\ ~frame[f].handle}
CleanVictims ==   \* mutant
  {f \in Active : Mapped(f) /\ chunk[frame[f].key].state = "resident_clean"
                            /\ IsPolicyCandidateEligible(chunk[frame[f].key])}
Victims == {f \in Active : Mapped(f) /\ IsPolicyCandidateEligible(chunk[frame[f].key])}

EnsureHit(k) ==
  /\ AtKey("ensure", k) /\ IsResident(chunk[k])
  /\ Continue
  /\ UNCHANGED <<chunk, frame, device, capacity, host, spill, owner, lease, gpu, dma, next, rt>>

EnsureMiss(k) ==
  /\ AtKey("ensure", k) /\ ~IsResident(chunk[k])
  /\ IF Reusable # {} THEN Push(<<MapTask(k, Least(Reusable))>>)
     ELSE IF Creatable # {}
       THEN LET f == Least(Creatable)
            IN  Push(<<FrameTask("create", f), MapTask(k, f)>>)
     ELSE IF Victims = {} THEN Fail("pressure")
     ELSE \E f \in Victims :  (* the policy chooses *)
            LET v == frame[f].key
            IN  Push((IF chunk[v].state = "resident_dirty"
                      THEN <<KeyTask("writeback", v)>> ELSE << >>)
                     \o <<KeyTask("unmap", v), MapTask(k, f)>>)
  /\ UNCHANGED <<chunk, frame, device, capacity, host, spill, owner, lease, gpu, dma, next, rt>>

(* cuMemCreate; when the device is out of memory, the live budget is       *)
(* sampled again and the creation retried once.                            *)
CreateHandle(f) ==
  /\ AtFrame("create", f) \/ AtFrame("createRetry", f)
  /\ \/ At("create") \/ f < capacity
  /\ frame' = [frame EXCEPT ![f].handle = TRUE]
  /\ Continue
  /\ UNCHANGED <<chunk, device, capacity, host, spill, owner, lease, gpu, dma, next, rt>>

CreateHandleFails(f) ==
  /\ AtFrame("create", f) \/ AtFrame("createRetry", f)
  /\ \/ At("create") /\ "oom" \in Faults
        /\ Push(<<Task("forceRefresh"), FrameTask("createRetry", f)>>)
     \/ At("createRetry") /\ f >= capacity /\ Fail("pressure")
     \/ "create" \in Faults /\ Fail("other")
  /\ UNCHANGED <<chunk, frame, device, capacity, host, spill, owner, lease, gpu, dma, next, rt>>

-----------------------------------------------------------------------------
(* refresh_budget: a live sample says how many frames are safe now.  How   *)
(* samples turn into growth is the subject of BudgetControl; here any      *)
(* growth by up to two frames may happen.                                  *)

AtRefresh == At("refresh") \/ At("forceRefresh")
Required == IF At("refresh") THEN Cardinality(Touched) ELSE 0

(* The frames beyond the observed target. *)
TailFrames(observed) == {f \in Frame : observed <= f /\ f < capacity}
DropTailButFirst(observed) ==   \* mutant
  [i \in 1..(capacity - observed - 1) |-> FrameTask("dropFrame", observed + i)]
DropTail(observed) ==
  [i \in 1..(capacity - observed) |-> FrameTask("dropFrame", observed + i - 1)]

RefreshSkipped ==
  /\ At("refresh")  (* sampled less than budget_poll_interval ago *)
  /\ Continue
  /\ UNCHANGED <<chunk, frame, device, capacity, host, spill, owner, lease, gpu, dma, next, rt>>

RefreshFails ==
  /\ AtRefresh
  /\ \/ "memInfo" \in Faults /\ Fail("other")
     \/ "reserve" \in Faults /\ Fail("pressure")  (* scratch and codec exceed the target *)
  /\ UNCHANGED <<chunk, frame, device, capacity, host, spill, owner, lease, gpu, dma, next, rt>>

RefreshShrinks(observed) ==
  /\ AtRefresh /\ observed < capacity
  /\ IF \A f \in TailFrames(observed) : Mapped(f) => IsVictimEligible(chunk[frame[f].key])
     THEN Push(DropTail(observed)
                 \o <<FrameTask(IF At("refresh") THEN "setCapacityFor" ELSE "setCapacity",
                               observed)>>)
     ELSE Fail("pressure")
  /\ UNCHANGED <<chunk, frame, device, capacity, host, spill, owner, lease, gpu, dma, next, rt>>

RefreshKeeps(observed) ==
  /\ AtRefresh /\ observed >= capacity
  /\ IF observed < Required
     THEN Fail("pressure") /\ UNCHANGED capacity
     ELSE /\ Continue
          /\ \/ UNCHANGED capacity
             \/ /\ observed >= capacity + 2
                /\ capacity' = capacity + 2
  /\ UNCHANGED <<chunk, frame, device, host, spill, owner, lease, gpu, dma, next, rt>>

DropMapping(f) ==
  /\ AtFrame("dropFrame", f) /\ Mapped(f)
  /\ Goto(<<KeyTask("writebackIfDirty", frame[f].key), KeyTask("unmap", frame[f].key)>>
             \o call.todo)
  /\ UNCHANGED <<chunk, frame, device, capacity, host, spill, owner, lease, gpu, dma, next, rt>>

ReleaseTailHandle(f) ==
  /\ AtFrame("dropFrame", f) /\ ~Mapped(f)
  /\ \/ /\ frame' = [frame EXCEPT ![f].handle = FALSE]
        /\ Continue
     \/ /\ frame[f].handle /\ "release" \in Faults
        /\ Fail("other")
        /\ UNCHANGED frame
  /\ UNCHANGED <<chunk, device, capacity, host, spill, owner, lease, gpu, dma, next, rt>>

SetCapacity(observed) ==
  /\ AtFrame("setCapacity", observed) \/ AtFrame("setCapacityFor", observed)
  /\ capacity' = observed
  /\ \/ At("setCapacityFor") /\ observed < Cardinality(Touched) /\ Fail("pressure")
     \/ "reserve" \in Faults /\ Fail("pressure")
     \/ (At("setCapacityFor") => observed >= Cardinality(Touched)) /\ Continue
  /\ UNCHANGED <<chunk, frame, device, host, spill, owner, lease, gpu, dma, next, rt>>

(* The declared working set must fit the cache as it now is. *)
FitsCapacity == Cardinality(Touched) <= capacity

CheckCapacity ==
  /\ At("checkCapacity")
  /\ IF FitsCapacity THEN Continue ELSE Fail("pressure")
  /\ UNCHANGED <<chunk, frame, device, capacity, host, spill, owner, lease, gpu, dma, next, rt>>

-----------------------------------------------------------------------------
(* writeback.  Here and in unmap and discard_dirty_mapping, the code       *)
(* poisons the runtime when its guard does not hold: InternalChecksHold    *)
(* shows that it always does.                                              *)

AtWriteback(k) == AtKey("writeback", k) \/ AtKey("writebackIfDirty", k)

WritebackSkipped(k) ==
  /\ AtKey("writebackIfDirty", k) /\ chunk[k].state # "resident_dirty"
  /\ Continue
  /\ UNCHANGED <<chunk, frame, device, capacity, host, spill, owner, lease, gpu, dma, next, rt>>

CanWriteBack(k) == chunk[k].state = "resident_dirty" /\ IsVictimEligible(chunk[k])

StartD2h(k) ==
  /\ AtWriteback(k) /\ CanWriteBack(k)
  /\ chunk' = [chunk EXCEPT ![k] =
       [BeginGeneration(@) EXCEPT !.state = "d2h_in_flight", !.staging = Slots + next.d2h]]
  /\ next' = [next EXCEPT !.d2h = NextSlot(@)]
  /\ dma' = dma \union {[key |-> k, dir |-> "d2h", slot |-> next.d2h]}
  /\ \/ /\ Push(<<KeyTask("d2h", k)>>)
        /\ UNCHANGED <<frame, owner, rt>>
     \/ /\ "d2hSubmit" \in Faults
        /\ frame' = [frame EXCEPT ![chunk[k].frame].quarantined = TRUE]
        /\ owner' = QuarantineVa(k)
        /\ rt' = AsyncUnknown
        /\ Fail("other")
  /\ UNCHANGED <<device, capacity, host, spill, lease, gpu>>

(* The copy arrived; it becomes the authority if the prepared backing was  *)
(* made from the authority it replaces, and otherwise the writeback fails  *)
(* with the chunk still in flight.  Compression of the new authority may   *)
(* time out afterwards and block further launches.                         *)
D2hDone(k) ==
  /\ AtKey("d2h", k)
  /\ dma' = {d \in dma : d.key # k}
  /\ IF spill[k] = "stale"
     THEN Fail("other") /\ UNCHANGED <<chunk, host, spill, rt>>
     ELSE /\ host' = [host EXCEPT ![k] = device[chunk[k].frame]]
          /\ spill' = [spill EXCEPT ![k] = "none"]
          /\ chunk' = Retired(k)
          /\ \/ Continue /\ UNCHANGED rt
             \/ /\ "compress" \in Faults
                /\ rt' = [rt EXCEPT !.blocked = TRUE]
                /\ Fail("other")
  /\ UNCHANGED <<frame, device, capacity, owner, lease, gpu, next>>

-----------------------------------------------------------------------------
(* unmap, retire_evicting_mapping, discard_dirty_mapping *)

AtUnmap(k) == AtKey("unmap", k) \/ AtKey("unmapIfClean", k)

UnmapSkipped(k) ==
  /\ AtKey("unmapIfClean", k) /\ chunk[k].state # "resident_clean"
  /\ Continue
  /\ UNCHANGED <<chunk, frame, device, capacity, host, spill, owner, lease, gpu, dma, next, rt>>

CanUnmap(k) ==
  /\ chunk[k].state = "resident_clean" /\ IsVictimEligible(chunk[k])
  /\ chunk[k].event # 0
  /\ IsSafeToUnmap([chunk[k] EXCEPT !.state = "evicting"])

TakeDownKeepsLink(k) ==   \* mutant
  /\ chunk' = [chunk EXCEPT ![k].state = "host_clean"]
  /\ frame' = [frame EXCEPT ![chunk[k].frame] =
                 [@ EXCEPT !.key = None, !.quarantined = FALSE]]
  /\ device' = [device EXCEPT ![chunk[k].frame] = Garbage]

(* The mapping of k goes; its frame keeps the physical handle. *)
TakeDown(k) ==
  /\ chunk' = [chunk EXCEPT ![k].state = "host_clean", ![k].frame = None]
  /\ frame' = [frame EXCEPT ![chunk[k].frame] =
                 [@ EXCEPT !.key = None, !.quarantined = FALSE]]
  /\ device' = [device EXCEPT ![chunk[k].frame] = Garbage]

(* cuMemUnmap fails: the mapping and its reservation stay quarantined and  *)
(* the explicit handle is dropped, if that succeeds.                       *)
TakeDownFails(k) ==
  /\ "unmap" \in Faults
  /\ \E kept \in {FALSE} \union {h \in {TRUE} : "release" \in Faults} :
       frame' = [frame EXCEPT ![chunk[k].frame] =
                   [@ EXCEPT !.handle = kept, !.quarantined = TRUE]]
  /\ owner' = QuarantineVa(k)
  /\ rt' = Poisoned
  /\ Fail("other")

Unmap(k) ==
  /\ AtUnmap(k) /\ CanUnmap(k)
  /\ \/ TakeDown(k) /\ Continue /\ UNCHANGED <<owner, rt>>
     \/ TakeDownFails(k) /\ chunk' = [chunk EXCEPT ![k].state = "evicting"] /\ UNCHANGED device
  /\ UNCHANGED <<capacity, host, spill, lease, gpu, dma, next>>

CanDiscard(k) == CanWriteBack(k) /\ chunk[k].event # 0

DropDirty(k) ==
  /\ AtKey("dropDirty", k)
  /\ \/ chunk[k].state # "resident_dirty" /\ Continue
        /\ UNCHANGED <<chunk, frame, device, owner, rt>>
     \/ CanDiscard(k) /\ TakeDown(k) /\ Continue /\ UNCHANGED <<owner, rt>>
     \/ CanDiscard(k) /\ TakeDownFails(k) /\ UNCHANGED <<chunk, device>>
  /\ UNCHANGED <<capacity, host, spill, lease, gpu, dma, next>>

-----------------------------------------------------------------------------
(* acquire_external: one prepare/ensure/pin round per chunk of the plan.   *)

EnsureWorkspace ==
  /\ At("workspace")
  /\ \/ Goto(ForEach(Touched, <<"prepare", "ensure", "pin">>) \o <<Task("arm"), Task("rollback")>>)
     \/ "workspace" \in Faults /\ Fail("other")
  /\ UNCHANGED <<chunk, frame, device, capacity, host, spill, owner, lease, gpu, dma, next, rt>>

(* A write-capable chunk needs room in the host budget for its raw         *)
(* write-back before the kernel may dirty it.  While the budget is full,   *)
(* dirty chunks outside the plan are written back to free their credits.   *)
SpillHolders == {k \in Key : spill[k] # "none"}
SpillVictimsOfPlan == {k \in SpillHolders : k \in Touched}   \* mutant
SpillVictims == {k \in SpillHolders \ Touched :
                   CanDiscard(k) /\ ~frame[chunk[k].frame].quarantined}

NeedsSpill(k) == Plan[k] # "read" /\ spill[k] = "none"

PrepareUse(k) ==
  LET needsSpill == NeedsSpill(k)
      Use(here) == [NoUse EXCEPT !.dirty = Plan[k] # "read", !.spillHere = here,
                      !.provisional = Plan[k] = "overwrite" /\ chunk[k].state = "host_clean"]
  IN
  /\ AtKey("prepare", k)
  /\ \/ /\ ~needsSpill
        /\ lease' = [lease EXCEPT !.use[k] = Use(FALSE)]
        /\ Continue
        /\ UNCHANGED spill
     \/ /\ needsSpill /\ Cardinality(SpillHolders) < SpillLimit
        /\ spill' = [spill EXCEPT ![k] = "current"]
        /\ lease' = [lease EXCEPT !.use[k] = Use(TRUE)]
        /\ Continue
     \/ /\ needsSpill /\ Cardinality(SpillHolders) >= SpillLimit
        /\ IF SpillVictims = {} THEN Fail("other")
           ELSE Goto(<<KeyTask("writeback", Least(SpillVictims))>> \o call.todo)
        /\ UNCHANGED <<spill, lease>>
     \/ /\ needsSpill /\ "hostOom" \in Faults
        /\ Fail("other")
        /\ UNCHANGED <<spill, lease>>
  /\ UNCHANGED <<chunk, frame, device, capacity, host, owner, gpu, dma, next, rt>>

PinnedForUse(r) == [BeginGeneration(r) EXCEPT !.pin = r.pin + 1, !.ws = TRUE]

Pin(k) ==
  /\ AtKey("pin", k)
  /\ chunk' = [chunk EXCEPT ![k] = PinnedForUse(@)]
  /\ lease' = [lease EXCEPT !.use[k].gen = chunk[k].event + 1]
  /\ Continue
  /\ UNCHANGED <<frame, device, capacity, host, spill, owner, gpu, dma, next, rt>>

(* The compute stream waits for the transfers and the client gets the      *)
(* lease.  Without the start event it stays active, and the client never   *)
(* learns its id.                                                          *)
Arm ==
  /\ At("arm")
  /\ \/ /\ lease' = [lease EXCEPT !.state = "armed", !.held = TRUE]
        /\ Goto(<< >>)
        /\ UNCHANGED rt
     \/ /\ "event" \in Faults
        /\ lease' = [lease EXCEPT !.state = "armed"]
        /\ rt' = AsyncUnknown
        /\ Goto(<< >>)
     \/ /\ "event" \in Faults
        /\ Fail("other")
        /\ UNCHANGED <<lease, rt>>
  /\ UNCHANGED <<chunk, frame, device, capacity, host, spill, owner, gpu, dma, next>>

(* Every use of the lease retires and the chunks are no longer pinned. *)
Unpinned == [k \in Key |->
  IF k \notin Members THEN chunk[k]
  ELSE [CompleteGeneration(chunk[k], lease.use[k].gen) EXCEPT
          !.pin = IF @ = 0 THEN 0 ELSE @ - 1, !.ws = FALSE]]
AllRetire == \A k \in Members : CanComplete(chunk[k], lease.use[k].gen)
NothingProvisional == {k \in Members : FALSE}   \* mutant
Provisional == {k \in Members : lease.use[k].provisional}

Rollback ==
  /\ At("rollback")
  /\ chunk' = Unpinned
  /\ Push(ForEach(Provisional, <<"unmapIfClean", "catch">>) \o <<Task("dropSpills")>>)
  /\ rt' = IF AllRetire THEN rt ELSE Poisoned
  /\ UNCHANGED <<frame, device, capacity, host, spill, owner, lease, gpu, dma, next>>

Catching ==
  /\ At("catch")
  /\ Continue
  /\ UNCHANGED <<chunk, frame, device, capacity, host, spill, owner, lease, gpu, dma, next, rt>>

WithoutSpillsOfLease == [k \in Key |-> IF lease.use[k].spillHere THEN "none" ELSE spill[k]]

(* The last step of the rollback.  A working set that lost its room to a   *)
(* shrink makes the runtime shrink for real before it returns.             *)
DropSpills ==
  /\ At("dropSpills")
  /\ spill' = WithoutSpillsOfLease
  /\ lease' = NoLease
  /\ IF call.failure = "pressure" /\ ~rt.poisoned
     THEN Goto(<<Task("forceRefresh")>>) ELSE Goto(<< >>)
  /\ UNCHANGED <<chunk, frame, device, capacity, host, owner, gpu, dma, next, rt>>

-----------------------------------------------------------------------------
(* seal_external, poll_external, wait_external *)

Seal(mode) ==
  /\ call.todo = << >> /\ ~rt.closed /\ lease.state = "armed" /\ lease.held
  /\ mode = "success" => gpu.phase # "idle"     (* the client's contract *)
  /\ mode = "cancelled" => gpu.phase = "idle"
  /\ \/ /\ lease' = [lease EXCEPT !.state = "submitted", !.seal = mode]
        /\ LET dirtied == {k \in Members : lease.use[k].dirty /\ mode # "cancelled"}
           IN  /\ chunk' = [k \in Key |->
                    IF k \in dirtied /\ chunk[k].state = "resident_clean"
                    THEN [chunk[k] EXCEPT !.state = "resident_dirty"] ELSE chunk[k]]
               /\ rt' = IF \A k \in dirtied : IsResident(chunk[k]) THEN rt ELSE Poisoned
     \/ /\ "event" \in Faults
        /\ lease' = [lease EXCEPT !.state = "quarantined"]
        /\ rt' = AsyncUnknown
        /\ UNCHANGED chunk
  /\ UNCHANGED <<frame, device, capacity, host, spill, owner, gpu, dma, next, call>>

AtRetire == At("poll") \/ At("wait")

(* compute_done has not retired: poll returns, wait polls again until the  *)
(* stall deadline.                                                         *)
PollNotReady ==
  /\ At("poll") /\ lease.state = "submitted" /\ gpu.phase = "running"
  /\ Continue
  /\ UNCHANGED <<chunk, frame, device, capacity, host, spill, owner, lease, gpu, dma, next, rt>>

RetireUnknown ==
  /\ AtRetire
  /\ \/ lease.state = "quarantined"
     \/ lease.state = "submitted" /\ "event" \in Faults
     \/ lease.state = "submitted" /\ At("wait") /\ gpu.phase = "running"
  /\ lease' = [lease EXCEPT !.state = "quarantined"]
  /\ rt' = IF lease.state = "quarantined" THEN rt ELSE AsyncUnknown
  /\ Fail("other")
  /\ UNCHANGED <<chunk, frame, device, capacity, host, spill, owner, gpu, dma, next>>

Retire ==
  /\ AtRetire /\ lease.state = "submitted" /\ gpu.phase # "running"
  /\ chunk' = Unpinned
  /\ IF AllRetire
     THEN /\ Push((IF lease.seal = "cancelled"
                   THEN ForEach(Provisional, <<"unmapIfClean">>) ELSE << >>)
                  \o <<Task("finishLease")>>)
          /\ UNCHANGED <<lease, rt>>
     ELSE /\ Fail("other")
          /\ lease' = [lease EXCEPT !.state = "quarantined"]
          /\ rt' = Poisoned
  /\ UNCHANGED <<frame, device, capacity, host, spill, owner, gpu, dma, next>>

(* Every provisional mapping of a cancelled lease is gone, or the first    *)
(* that could not be taken down left the lease quarantined.                *)
FinishLease ==
  LET stuck == lease.seal = "cancelled" /\ \E k \in Provisional : HasFrame(chunk[k].state)
  IN
  /\ At("finishLease")
  /\ IF stuck
     THEN /\ lease' = [lease EXCEPT !.state = "quarantined"]
          /\ Fail("other")
          /\ UNCHANGED <<spill, gpu, rt>>
     ELSE /\ lease' = NoLease
          /\ gpu' = NoKernel
          /\ spill' = IF lease.seal = "cancelled" THEN WithoutSpillsOfLease ELSE spill
          /\ \/ /\ Continue
                /\ rt' = IF lease.seal = "failed" THEN Poisoned ELSE rt
             \/ /\ "duration" \in Faults /\ lease.seal = "success"
                /\ rt' = [rt EXCEPT !.blocked = TRUE]
                /\ Fail("other")
  /\ UNCHANGED <<chunk, frame, device, capacity, host, owner, dma, next>>

-----------------------------------------------------------------------------
(* Host access, discard and release, after their transfers. *)

(* host_range_is_valid, host_write_covers_invalid_chunks *)
CheckSources ==
  /\ At("checkSources")
  /\ IF \A k \in Touched : host[k] = Invalid => Plan[k] = "full"
     THEN Continue ELSE Fail("other")
  /\ UNCHANGED <<chunk, frame, device, capacity, host, spill, owner, lease, gpu, dma, next, rt>>

Stale(k) == [spill EXCEPT ![k] = IF @ = "none" THEN @ ELSE "stale"]

PutHost(k) ==
  /\ AtKey("put", k)
  /\ \/ /\ host' = [host EXCEPT ![k] = call.val]
        /\ spill' = Stale(k)
        /\ \/ Continue /\ UNCHANGED rt
           \/ /\ "compress" \in Faults
              /\ rt' = [rt EXCEPT !.blocked = TRUE]
              /\ Fail("other")
     \/ "hostOom" \in Faults /\ Fail("other") /\ UNCHANGED <<host, spill, rt>>
  /\ UNCHANGED <<chunk, frame, device, capacity, owner, lease, gpu, dma, next>>

(* The client receives host[k]. *)
GetHost(k) ==
  /\ AtKey("get", k)
  /\ Continue
  /\ UNCHANGED <<chunk, frame, device, capacity, host, spill, owner, lease, gpu, dma, next, rt>>

Invalidate(k) ==
  /\ AtKey("invalidate", k)
  /\ spill' = [spill EXCEPT ![k] = "none"]
  /\ \/ host' = [host EXCEPT ![k] = Invalid] /\ Continue
     \/ "hostOom" \in Faults /\ Fail("other") /\ UNCHANGED host
  /\ UNCHANGED <<chunk, frame, device, capacity, owner, lease, gpu, dma, next, rt>>

KeysOf(a) == {k \in Key : AllocOf[k] = a}
Forgotten(K) == /\ chunk' = [k \in Key |-> IF k \in K THEN NewChunk ELSE chunk[k]]
                /\ spill' = [k \in Key |-> IF k \in K THEN "none" ELSE spill[k]]
                /\ host' = [k \in Key |-> IF k \in K THEN Zero ELSE host[k]]

EraseAllocation(a) ==
  /\ At("erase") /\ a = AllocOf[Least(Touched)]
  /\ \/ /\ owner' = [owner EXCEPT ![a] =
                       [live |-> FALSE,
                        va |-> IF @.va = "quarantined" THEN @.va
                               ELSE IF RetainReleasedVa THEN "retired" ELSE "freed"]]
        /\ Forgotten(KeysOf(a))
        /\ Continue
     \/ /\ "vaFree" \in Faults /\ ~RetainReleasedVa
        /\ Fail("other")
        /\ UNCHANGED <<owner, chunk, spill, host>>
  /\ UNCHANGED <<frame, device, capacity, lease, gpu, dma, next, rt>>

-----------------------------------------------------------------------------
(* close: best effort, one frame after the other. *)

(* A lease that is still active may hide client work nobody observes. *)
Abandon ==
  /\ At("abandon")
  /\ IF ActiveLease
     THEN /\ lease' = [lease EXCEPT !.state = "quarantined"]
          /\ rt' = [AsyncUnknown EXCEPT !.closeOk = FALSE]
     ELSE /\ rt' = [rt EXCEPT !.closeOk = @ /\ call.failure = "none"]
          /\ UNCHANGED lease
  /\ Continue
  /\ UNCHANGED <<chunk, frame, device, capacity, host, spill, owner, gpu, dma, next>>

CloseFrame(f) ==
  LET k == frame[f].key IN
  /\ AtFrame("closeFrame", f)
  /\ IF ~Mapped(f) THEN Continue /\ UNCHANGED <<frame, owner, rt>>
     ELSE IF rt.asyncQ
     THEN /\ frame' = [frame EXCEPT ![f].quarantined = TRUE]
          /\ owner' = QuarantineVa(k)
          /\ rt' = [Poisoned EXCEPT !.closeOk = FALSE]
          /\ Continue
     ELSE IF frame[f].quarantined
     THEN Continue /\ rt' = [rt EXCEPT !.closeOk = FALSE] /\ UNCHANGED <<frame, owner>>
     ELSE /\ Push((IF chunk[k].state = "resident_dirty" THEN <<KeyTask("writeback", k)>>
                   ELSE << >>)
                  \o (IF IsResident(chunk[k]) THEN <<KeyTask("unmap", k)>> ELSE << >>)
                  \o <<FrameTask("closeCheck", f)>>)
          /\ UNCHANGED <<frame, owner, rt>>
  /\ UNCHANGED <<chunk, device, capacity, host, spill, lease, gpu, dma, next>>

CloseCheck(f) ==
  /\ AtFrame("closeCheck", f)
  /\ IF Mapped(f)
     THEN /\ owner' = QuarantineVa(frame[f].key)
          /\ rt' = [Poisoned EXCEPT !.closeOk = FALSE]
     ELSE UNCHANGED <<owner, rt>>
  /\ Continue
  /\ UNCHANGED <<chunk, frame, device, capacity, host, spill, lease, gpu, dma, next>>

LiveMapping(a) == \E f \in Frame : Mapped(f) /\ AllocOf[frame[f].key] = a
HoldsVa(a) == owner[a].va \in {"held", "quarantined", "retired"}
Kept(f) == Mapped(f) /\ rt.asyncQ   (* the GPU may still use its memory *)

(* Nothing failed so far, and no reservation or handle failed to go. *)
CloseSucceededRegardless(FA, FF) == rt.closeOk /\ FA = {}   \* mutant
CloseSucceeded(FA, FF) == rt.closeOk /\ FA = {} /\ FF = {}

(* Everything that is safe to release goes; the calls of FA and FF fail. *)
CloseEnd(FA, FF) ==
  LET busy == {a \in Alloc : owner[a].live /\ (LiveMapping(a) \/ owner[a].va = "quarantined")}
      mapped == {f \in Frame : Mapped(f) /\ frame[f].handle}
  IN
  /\ At("closeEnd")
  /\ FA \subseteq {a \in Alloc : HoldsVa(a)} \ busy
  /\ FF \subseteq {f \in Frame : frame[f].handle /\ ~Kept(f)}
  /\ owner' = [a \in Alloc |->
       [live |-> FALSE,
        va |-> IF a \in busy THEN "quarantined"
               ELSE IF HoldsVa(a) /\ a \notin FA THEN "freed" ELSE owner[a].va]]
  /\ frame' = [f \in Frame |-> [frame[f] EXCEPT !.handle = @ /\ (Kept(f) \/ f \in FF)]]
  /\ Forgotten(Key)
  /\ rt' = [rt EXCEPT !.closed = TRUE,
                      !.pools = rt.asyncQ,
                      !.poisoned = @ \/ busy # {} \/ mapped # {},
                      !.closeOk = /\ CloseSucceeded(FA, FF)
                                  /\ busy = {} /\ mapped = {} /\ ~rt.asyncQ]
  /\ Goto(<< >>)
  /\ UNCHANGED <<device, capacity, lease, gpu, dma, next>>

-----------------------------------------------------------------------------
(* The API: each action checks the arguments and the state as the code     *)
(* does, and queues the tasks of the call.  A rejected call changes        *)
(* nothing.                                                                *)

LiveKeys == {k \in Key : owner[AllocOf[k]].live}
LeaseReferences(a) == ActiveLease /\ \E k \in Members : AllocOf[k] = a
MayCall(op) ==
  call.todo = << >> /\ ~rt.closed /\ (rt.poisoned => op \in LateCalls)

Begin(op, plan, val, tasks) ==
  /\ call' = [op |-> op, todo |-> Unrolled(tasks), failure |-> "none", plan |-> plan, val |-> val]
  /\ UNCHANGED <<chunk, frame, device, capacity, host, spill, owner, lease, gpu, dma, next, rt>>

(* flush_overlapping, and the unmapping that follows it where the device   *)
(* copy must not outlive the call.                                         *)
FlushAllButFirst(K) == ForEach({k \in K : \E j \in K : j < k}, <<"writebackIfDirty">>)   \* mutant
Flush(K) == ForEach(K, <<"writebackIfDirty">>)
UnmapAndFlush(K) == ForEach(K, <<"unmapIfClean", "writebackIfDirty">>)   \* mutant
FlushAndUnmap(K) == ForEach(K, <<"writebackIfDirty", "unmapIfClean">>)

Plans(K, modes) == UNION {[S -> modes] : S \in (SUBSET K) \ {{}}}

(* Byte ranges of one allocation: consecutive chunks, of which only the    *)
(* outer ones may be covered in part.                                      *)
RangePlans(a, modes) ==
  {p \in Plans(KeysOf(a), modes) :
     /\ \A i, j \in DOMAIN p, k \in Key : i < k /\ k < j => k \in DOMAIN p
     /\ \A i, j, k \in DOMAIN p : i < k /\ k < j => p[k] = "full"}

(* plan_has_valid_host_sources *)
HasValidSources(plan) ==
  \A k \in DOMAIN plan :
    plan[k] = "overwrite" \/ IsResident(chunk[k]) \/ host[k] # Invalid

AlignUp(value, alignment) ==
  IF value % alignment = 0 THEN value ELSE value + (alignment - (value % alignment))

(* A reservation is one chunk longer than what is mapped in it, so that it *)
(* holds the range at its aligned base wherever the driver puts it (lemma  *)
(* PaddedReservationFits): the code never comes to give back one that does *)
(* not, and poisons the runtime where even that fails.                     *)
Allocate(a) ==
  /\ call.todo = << >> /\ Ready /\ owner[a].va = "none"
  /\ owner' = [owner EXCEPT ![a] = [live |-> TRUE, va |-> "held"]]
  /\ UNCHANGED <<chunk, frame, device, capacity, host, spill, lease, gpu, dma, next, rt, call>>

Release(a) ==
  /\ call.todo = << >> /\ Ready /\ owner[a].live /\ ~LeaseReferences(a)
  /\ Begin("release", [k \in KeysOf(a) |-> "full"], Zero,
           FlushAndUnmap(KeysOf(a)) \o <<Task("erase")>>)

DiscardDead(a, plan) ==
  /\ call.todo = << >> /\ Ready /\ owner[a].live
  /\ \A k \in DOMAIN plan :
       \/ chunk[k].state = "host_clean" /\ Unused(chunk[k]) /\ ValidRecord(chunk[k])
       \/ IsVictimEligible(chunk[k]) /\ chunk[k].event # 0
  /\ Begin("discard", plan, Zero,
           ForEach(DOMAIN plan, <<"unmapIfClean", "dropDirty", "invalidate">>))

Write(a, plan, v) ==
  /\ MayCall("write") /\ owner[a].live /\ ~LeaseReferences(a)
  /\ Begin("write", plan, v,
           FlushAndUnmap(DOMAIN plan)
             \o <<Task("checkSources")>> \o ForEach(DOMAIN plan, <<"put">>))

Read(a, plan) ==
  /\ MayCall("read") /\ owner[a].live /\ ~LeaseReferences(a)
  /\ Begin("read", plan, Zero,
           Flush(DOMAIN plan)
             \o <<Task("checkSources")>> \o ForEach(DOMAIN plan, <<"get">>))

Prefetch(plan) ==
  /\ MayCall("prefetch") /\ HasValidSources(plan)
  /\ Begin("prefetch", plan, Zero,
           <<Task("refresh"), Task("checkCapacity")>> \o ForEach(DOMAIN plan, <<"ensure">>))

AcquireExternal(plan) ==
  /\ call.todo = << >> /\ Ready /\ ~ActiveLease /\ HasValidSources(plan)
  /\ Begin("acquire", plan, Zero,
           <<Task("refresh"), Task("checkCapacity"), Task("workspace")>>)

Poll ==
  /\ MayCall("poll") /\ lease.state \in {"submitted", "quarantined"}
  /\ Begin("poll", << >>, Zero, <<Task("poll")>>)

Wait ==
  /\ MayCall("wait") /\ lease.state \in {"submitted", "quarantined"}
  /\ Begin("wait", << >>, Zero, <<Task("wait")>>)

WaitFirst == IF lease.state = "submitted" THEN <<Task("wait")>> ELSE << >>

Drain(releaseMappings) ==
  /\ MayCall("drain") /\ lease.state \in {"none", "submitted"}
  /\ LET tasks == WaitFirst \o Flush(LiveKeys)
                  \o (IF releaseMappings THEN ForEach(LiveKeys, <<"unmapIfClean">>) ELSE << >>)
     IN  tasks # << >> /\ Begin("drain", << >>, Zero, tasks)

Close ==
  /\ call.todo = << >> /\ ~rt.closed
  /\ Begin("close", << >>, Zero,
           WaitFirst \o <<Task("abandon")>>
             \o [i \in 1..MaxFrames |-> FrameTask("closeFrame", i - 1)]
             \o <<Task("closeEnd")>>)

-----------------------------------------------------------------------------
(* The client's kernel.  It reaches memory through the mappings of the     *)
(* logical addresses, whatever the runtime thinks of it.                   *)

Launch ==
  /\ call.todo = << >> /\ ~rt.closed
  /\ lease.state = "armed" /\ lease.held /\ gpu.phase = "idle"
  /\ gpu' = [phase |-> "running", keys |-> Members,
             writes |-> {k \in Members : lease.use[k].dirty}, unwritten |-> Provisional]
  /\ UNCHANGED <<chunk, frame, device, capacity, host, spill, owner, lease, dma, next, rt, call>>

KernelWrites(k, v) ==
  /\ gpu.phase = "running" /\ k \in gpu.writes
  /\ device' = [f \in Frame |-> IF frame[f].key = k THEN v ELSE device[f]]
  /\ gpu' = [gpu EXCEPT !.unwritten = @ \ {k}]
  /\ UNCHANGED <<chunk, frame, capacity, host, spill, owner, lease, dma, next, rt, call>>

KernelFinishes ==
  /\ gpu.phase = "running" /\ gpu.unwritten = {}
  /\ gpu' = [gpu EXCEPT !.phase = "finished"]
  /\ UNCHANGED <<chunk, frame, device, capacity, host, spill, owner, lease, dma, next, rt, call>>

-----------------------------------------------------------------------------
Worker ==
  \/ \E k \in Key :
       \/ \E f \in Frame : \/ MapRefused(k, f) \/ MapFails(k, f) \/ MapRollbackFails(k, f)
                           \/ MapAndSubmit(k, f) \/ MapAndSubmitFails(k, f)
                           \/ MapWithoutSource(k, f)
       \/ H2dDone(k) \/ TransferStuck(k) \/ RetireFailedH2d(k)
       \/ EnsureHit(k) \/ EnsureMiss(k)
       \/ WritebackSkipped(k) \/ StartD2h(k) \/ D2hDone(k)
       \/ UnmapSkipped(k) \/ Unmap(k) \/ DropDirty(k)
       \/ PrepareUse(k) \/ Pin(k)
       \/ PutHost(k) \/ GetHost(k) \/ Invalidate(k)
  \/ \E f \in Frame : \/ CreateHandle(f) \/ CreateHandleFails(f)
                      \/ DropMapping(f) \/ ReleaseTailHandle(f) \/ CloseFrame(f) \/ CloseCheck(f)
  \/ \E observed \in 0..MaxFrames :
       RefreshShrinks(observed) \/ RefreshKeeps(observed) \/ SetCapacity(observed)
  \/ RefreshSkipped \/ RefreshFails \/ CheckCapacity \/ EnsureWorkspace
  \/ FailTask \/ Catching \/ Arm \/ Rollback \/ DropSpills
  \/ PollNotReady \/ RetireUnknown \/ Retire \/ FinishLease
  \/ CheckSources \/ Abandon
  \/ \E a \in Alloc : EraseAllocation(a)
  \/ At("closeEnd") /\ \E FA \in {{}} \union {S \in SUBSET Alloc : "vaFree" \in Faults},
                           FF \in {{}} \union {S \in SUBSET Frame : "release" \in Faults} :
                          CloseEnd(FA, FF)

(* One thread calls the runtime, one call at a time. *)
Client ==
  /\ call.todo = << >> /\ ~rt.closed
  /\ \/ \E a \in Alloc :
          \/ Allocate(a) \/ Release(a)
          \/ \E plan \in RangePlans(a, {"full"}) : DiscardDead(a, plan)
          \/ \E plan \in RangePlans(a, {"full", "part"}), v \in Val : Write(a, plan, v)
          \/ \E plan \in RangePlans(a, {"part"}) : Read(a, plan)
     \/ \E plan \in Plans(LiveKeys, PrefetchModes) : Prefetch(plan)
     \/ \E plan \in Plans(LiveKeys, Mode) : AcquireExternal(plan)
     \/ \E mode \in {"success", "cancelled", "failed"} : Seal(mode)
     \/ Poll \/ Wait \/ (\E r \in BOOLEAN : Drain(r)) \/ Close
     \/ Launch

Kernel == (\E k \in Key, v \in Val : KernelWrites(k, v)) \/ KernelFinishes

Next == Worker \/ Client \/ Kernel

(* The thread inside a call keeps executing it: the code never blocks      *)
(* without a deadline.  Clients need not call, kernels need not finish.    *)
Spec == Init /\ [][Next]_vars /\ WF_vars(Worker)

-----------------------------------------------------------------------------
(* The types of the members of Runtime::Impl: slots stay inside the        *)
(* staging rings, the capacity below its maximum, and only host content    *)
(* or undefined bytes travel between a frame and its backing.              *)
TypeOK ==
  /\ chunk \in [Key -> ChunkRecord]
  /\ frame \in [Frame -> [handle: BOOLEAN, key: Key \union {None}, quarantined: BOOLEAN]]
  /\ device \in [Frame -> Val \union {Garbage, Invalid}]
  /\ capacity \in 0..MaxFrames
  /\ host \in [Key -> Val \union {Garbage, Invalid}]
  /\ spill \in [Key -> {"none", "current", "stale"}]
  /\ owner \in [Alloc -> [live: BOOLEAN,
                          va: {"none", "held", "quarantined", "retired", "freed"}]]
  /\ lease \in [state: {"none", "armed", "submitted", "quarantined"},
                held: BOOLEAN,
                seal: {"none", "success", "cancelled", "failed"},
                use: [Key -> [gen: Nat, dirty: BOOLEAN, provisional: BOOLEAN,
                              spillHere: BOOLEAN]]]
  /\ gpu \in [phase: {"idle", "running", "finished"}, keys: SUBSET Key,
              writes: SUBSET Key, unwritten: SUBSET Key]
  /\ dma \subseteq [key: Key, dir: {"h2d", "d2h"}, slot: Slot]
  /\ next \in [h2d: Slot, d2h: Slot]
  /\ rt \in [poisoned: BOOLEAN, blocked: BOOLEAN, asyncQ: BOOLEAN, closed: BOOLEAN,
             closeOk: BOOLEAN, pools: BOOLEAN]

-----------------------------------------------------------------------------
(* What the clients see: a chunk whose device copy is ahead of the host is *)
(* read from its frame, every other one from its backing.                  *)

LogicalContent(k) ==
  LET ahead == \/ chunk[k].state \in {"resident_dirty", "d2h_in_flight"}
               \/ chunk[k].state = "resident_clean" /\ device[chunk[k].frame] # Garbage
      content == IF ahead THEN device[chunk[k].frame] ELSE host[k]
  IN  IF content \in Val THEN content ELSE Invalid

(* The chunks that the write in progress has still to replace. *)
Puts == UNION {LET t == call.todo[i]
               IN  IF t.do = "put" THEN {t.key}
                   ELSE IF t.do = "forEach" /\ t.steps = <<"put">> THEN t.keys ELSE {}
               : i \in DOMAIN call.todo}

Heap == INSTANCE LogicalHeap WITH
  Undefined <- Invalid,
  mem <- [k \in Key |-> LogicalContent(k)],
  live <- {a \in Alloc : owner[a].live},
  granted <- IF ActiveLease THEN {k \in Members : lease.use[k].dirty} ELSE {},
  writing <- [k \in Puts |-> call.val],
  dying <- IF call.op = "discard" THEN Touched ELSE {}

(* The cache implements a flat memory: no sequence of faults, evictions,   *)
(* shrinks, rollbacks and cancellations changes what a chunk contains.     *)
ImplementsHeap == Heap!Spec

(* A host read returns the content of the logical memory, also when the    *)
(* chunk was dirty on the device when the read began.                      *)
ReadsAreCurrent ==
  \A k \in Key : AtKey("get", k) => host[k] = LogicalContent(k) /\ host[k] \in Val

-----------------------------------------------------------------------------
(* Two chunks never share a frame, a chunk and its frame agree about each  *)
(* other, and every record satisfies validate_chunk_record.                *)
FrameLinkage ==
  ~rt.closed =>
    /\ \A k \in Key, f \in Frame : chunk[k].frame = f <=> frame[f].key = k
    /\ \A k \in Key : ValidRecord(chunk[k])

(* Memory the GPU may be using is never taken away: a chunk of a running   *)
(* kernel or of an unfinished copy stays mapped, and staging memory,       *)
(* events and streams stay, even when the runtime is closed before the     *)
(* work is known to be over.  (A mapping keeps its memory after the        *)
(* explicit handle is released.)                                           *)
GpuMemoryStaysMapped ==
  LET MappedChunks == {frame[f].key : f \in Frame}
  IN  /\ gpu.phase = "running" => gpu.keys \subseteq MappedChunks
      /\ {d.key : d \in dma} \subseteq MappedChunks
      /\ gpu.phase = "running" \/ dma # {} => rt.pools

(* The runtime never copies a chunk that a kernel may be writing.          *)
NoCopyUnderKernel ==
  gpu.phase = "running" => \A d \in dma : d.key \notin gpu.keys

(* A staging slot belongs to one unfinished copy at a time.                *)
StagingExclusive ==
  \A d, e \in dma : d.dir = e.dir /\ d.slot = e.slot => d = e

(* A chunk the host does not have yet can be written back without asking   *)
(* the host budget: a spill reservation prepared from the authority it     *)
(* will replace is held for it.                                            *)
DirtyHasSpill ==
  \A k \in Key : chunk[k].state \in {"resident_dirty", "d2h_in_flight"} => spill[k] = "current"

TakenDownNext(k) == call.todo # << >> /\ Head(call.todo) = KeyTask("unmap", k)

(* A clean resident chunk can be dropped at any time: its host backing is  *)
(* valid and has the same content.  Only a chunk that a lease is about to  *)
(* dirty, or whose failed transfer is being taken down, may differ.        *)
CleanMatchesHost ==
  \A k \in Key :
    chunk[k].state = "resident_clean" /\ ~lease.use[k].dirty /\ ~TakenDownNext(k) =>
      host[k] = device[chunk[k].frame] /\ host[k] # Invalid

(* Frames beyond the live budget hold neither a mapping nor memory.        *)
CapacityBoundsResidency ==
  \A f \in Frame : f >= capacity => ~Mapped(f) /\ ~frame[f].handle

(* The virtual range of a mapped chunk is still reserved.                  *)
MappingHasReservation ==
  \A f \in Frame : Mapped(f) => owner[AllocOf[frame[f].key]].va \in {"held", "quarantined"}

(* What the GPU can reach is what the runtime says it can: a chunk and its *)
(* frame name each other, nothing in use is taken away, and every mapping  *)
(* lies in a virtual range that is still the runtime's.                    *)
MappingsSafe == FrameLinkage /\ GpuMemoryStaysMapped /\ MappingHasReservation

(* A lease the client may still use, or whose kernel may still run, keeps  *)
(* its whole working set resident and pinned, and no later use of a chunk  *)
(* made its generation stale.                                              *)
LeaseHoldsItsChunks ==
  lease.state = "armed" \/ (lease.state = "submitted" /\ call.todo = << >>) =>
    \A k \in Members : /\ IsResident(chunk[k]) /\ chunk[k].pin > 0 /\ chunk[k].ws
                        /\ CanComplete(chunk[k], lease.use[k].gen)

(* The runtime poisons itself when a chunk is not in the state that one of *)
(* its own transfers, unmappings or retirements needs.  No caller reaches  *)
(* those checks with a chunk that fails them.                              *)
InternalChecksHold ==
  /\ \A k \in Key :
       /\ \/ AtKey("writeback", k)
          \/ AtKey("writebackIfDirty", k) /\ chunk[k].state = "resident_dirty"
          => CanWriteBack(k)
       /\ \/ AtKey("unmap", k)
          \/ AtKey("unmapIfClean", k) /\ chunk[k].state = "resident_clean"
          => CanUnmap(k)
       /\ AtKey("dropDirty", k) /\ chunk[k].state = "resident_dirty" => CanDiscard(k)
  /\ At("rollback") \/ (AtRetire /\ lease.state = "submitted") => AllRetire

(* Between calls, a runtime that is not poisoned has no transfer, pin,     *)
(* reservation or half-made mapping left over from a call that failed.     *)
QuiescentAtRest ==
  call.todo = << >> /\ ~rt.poisoned /\ ~rt.closed =>
    /\ dma = {}
    /\ lease.state = "none" => lease = NoLease
    /\ \A k \in Key :
         /\ chunk[k].state \in {"host_clean", "resident_clean", "resident_dirty"}
         /\ chunk[k].pin = IF k \in Members THEN 1 ELSE 0
         /\ chunk[k].ws <=> k \in Members
         /\ spill[k] # "none" => chunk[k].state = "resident_dirty" \/ lease.use[k].spillHere

(* Credits, pins, leases and chunk states agree with each other, so that   *)
(* no path of the runtime meets a state it has no answer to.               *)
BookkeepingHolds == DirtyHasSpill /\ LeaseHoldsItsChunks /\ InternalChecksHold /\ QuiescentAtRest

(* A chunk is never dropped, and never read, with content that is not the  *)
(* newest one.                                                             *)
DataIsCurrent == CleanMatchesHost /\ ReadsAreCurrent

(* A transfer has its slot and its chunk to itself.                        *)
TransfersExclusive == StagingExclusive /\ NoCopyUnderKernel

(* All of these at once. *)
RuntimeSafe == MappingsSafe /\ BookkeepingHolds /\ DataIsCurrent

(* While the working set fits the capacity, which only a nested budget      *)
(* sample can take away again, the acquire loop never runs out of frames:  *)
(* what it has not pinned itself it can evict.                             *)
AdmittedPlanFindsFrames ==
  \A k \in Key :
    AtKey("ensure", k) /\ call.op = "acquire" /\ ~IsResident(chunk[k]) /\ FitsCapacity =>
      Reusable \union Creatable \union Victims # {}

(* close answers success only when nothing of the device is left.          *)
SuccessfulCloseLeaksNothing ==
  rt.closed /\ rt.closeOk =>
    /\ \A f \in Frame : ~Mapped(f) /\ ~frame[f].handle
    /\ \A a \in Alloc : owner[a].va \in {"none", "freed"}
    /\ gpu.phase # "running" /\ dma = {} /\ ~rt.pools

(* After an unknown completion no lease is armed and no allocation made.   *)
PoisonStopsAdmission ==
  [][rt.poisoned => /\ lease'.state = "armed" => lease.state = "armed"
                    /\ \A a \in Alloc : owner'[a].live => owner[a].live]_vars

(* Every call returns, whatever the GPU does.                              *)
CallsReturn == call.todo # << >> ~> call.todo = << >>
=============================================================================
