---------------------------- MODULE BudgetControl ----------------------------
(***************************************************************************)
(* The live device budget of the residency runtime                         *)
(* (src/residency/runtime.cpp, refresh_budget and its callers).  Other     *)
(* users of the device come and go (others); the runtime samples what is   *)
(* free at the start of a call and whenever a frame cannot be created.  A  *)
(* sample may suspend the nvCOMP pipeline, shrink the frame pool, restore  *)
(* the pipeline after enough safe samples and grow the pool after enough   *)
(* samples with a surplus.                                                 *)
(*                                                                         *)
(* Bytes are small numbers: Chunk to a frame, Codec to the pipeline's      *)
(* device buffers, the rest as their constants say.  A frame is "none" (no *)
(* handle), "spare" (a handle without a mapping), "clean", "dirty" or      *)
(* "lost" (its unmapping failed).  A frame is pinned by the call that is   *)
(* being served or by the external lease.                                  *)
(***************************************************************************)
EXTENDS Integers, FiniteSets

CONSTANTS Device, Limit, Headroom,   \* device memory, configured cap, headroom
          Chunk, Codec, Reserve,     \* frame, pipeline, compute workspace
          Pinned, HostLimit,         \* pipeline's host staging, host budget
          HasCodec,                  \* whether setup obtained a pipeline
          Loads, HostLoads,          \* what everybody else may use
          SetupLoad,                 \* what they used at setup
          Requests,                  \* chunks one call may ask for
          Workspaces,                \* workspace a lease may ask for
          GrowSamples, RestoreSamples,
          PrefetchInLease,           \* clients prefetch while a lease is open
          MaxFaults                  \* driver calls that fail (bound)

Smaller(x, y) == IF x < y THEN x ELSE y
Above(x, y) == IF x > y THEN x - y ELSE 0

SetupTarget == LET t == Smaller(Limit, Above(Device - SetupLoad, Headroom))
               IN  t - (t % Chunk)
CodecBytes == IF HasCodec THEN Codec ELSE 0
MaxFrames == Above(SetupTarget, Reserve + CodecBytes) \div Chunk

BudgetAssumption ==
  /\ {Device, Limit, Headroom, Codec, Reserve, Pinned, HostLimit,
      SetupLoad, MaxFaults} \subseteq Nat
  /\ {Chunk, GrowSamples, RestoreSamples} \subseteq Nat \ {0}
  /\ Loads \subseteq Nat /\ SetupLoad \in Loads
  /\ HostLoads \subseteq 0 .. HostLimit
  /\ Workspaces \subseteq 0 .. Reserve
  /\ Requests \subseteq Nat \ {0}
  /\ {HasCodec, PrefetchInLease} \subseteq BOOLEAN
  /\ MaxFrames >= 2

VARIABLES others, hostload, b, call, faults

vars == <<others, hostload, b, call, faults>>

Frame == 1 .. MaxFrames
Statuses == {"success", "budget_pressure", "cuda_failure", "device_oom",
             "cleanup_failure", "poisoned"}
FaultKind == {"none", "sample", "close", "close_unknown", "writeback", "unmap",
              "release", "setup", "setup_close"}
Idle == [op |-> "none", need |-> 0, frames |-> {}]

-----------------------------------------------------------------------------
(* Reading the state.  s is a value of b.                                  *)

Resident(s) == {f \in Frame : s.frame[f] \in {"clean", "dirty", "lost"}}
Handles(s) == {f \in Frame : s.frame[f] # "none"}
Piped(s) == IF s.pipe = "none" THEN 0 ELSE Codec
Managed(s) == Chunk * Cardinality(Resident(s)) + s.ws + Piped(s)
FreeBytes(s) ==
  Device - others - Chunk * Cardinality(Handles(s)) - s.ws - Piped(s)
Ready == ~b.poisoned /\ ~b.blocked
HostUsed(s) == hostload + (IF s.charged THEN Pinned ELSE 0)

\* mutant: the headroom is not taken off
ObservedWhole(s) ==
  LET t == Smaller(Limit, FreeBytes(s) + Managed(s))
  IN  t - (t % Chunk)
(* What a sample concludes the runtime may use, and how many frames that is. *)
ObservedTarget(s) ==
  LET t == Smaller(Limit, Above(FreeBytes(s) + Managed(s), Headroom))
  IN  t - (t % Chunk)
ObservedFrames(s) ==
  Smaller(Above(s.obs, s.fixed) \div Chunk, MaxFrames)

-----------------------------------------------------------------------------
(* The steps of refresh_budget, each from one state to the next.           *)

Failed(s, why) == [s EXCEPT !.status = why, !.fresh = FALSE]

Suspend(s, fault) ==
  CASE fault = "close" -> Failed([s EXCEPT !.pipe = "stuck"], "cleanup_failure")
    [] fault = "close_unknown" ->
         Failed([s EXCEPT !.pipe = "stuck", !.poisoned = TRUE], "poisoned")
    [] OTHER -> [s EXCEPT !.pipe = "none", !.charged = FALSE, !.susp = TRUE,
                          !.restore = 0, !.fixed = Reserve]

(* Codec buffers are the first to go when the next call needs more.        *)
Required(s, n, w) == Chunk * n + w + Above(s.fixed, Reserve)
Relieve(s, n, w, fault) ==
  IF /\ s.pipe # "none"
     /\ s.obs < Required(s, n, w) \/ s.obs <= s.fixed
  THEN Suspend(s, fault)
  ELSE s

(* The frames past the observed target are written back, unmapped and      *)
(* released in order; a failure at frame at leaves the earlier ones gone.  *)
Dropped(s, gone) ==
  [s EXCEPT !.frame = [f \in Frame |-> IF f \in gone THEN "none" ELSE s.frame[f]]]
ShrinkFails(s, gone, at, fault) ==
  LET d == Dropped(s, {f \in gone : f < at})
  IN  CASE fault = "writeback" -> Failed(d, "cuda_failure")
        [] fault = "unmap" ->
             Failed([d EXCEPT !.frame[at] = "lost", !.poisoned = TRUE], "poisoned")
        [] OTHER -> Failed([d EXCEPT !.frame[at] = "spare"], "cuda_failure")
ShrinkFaultAt(s, at, fault) ==
  \/ fault = "writeback" /\ s.frame[at] = "dirty"
  \/ fault = "unmap" /\ s.frame[at] \in {"clean", "dirty"}
  \/ fault = "release" /\ s.frame[at] # "none"

Busy(s, f) == f \in call.frames \union s.lease \/ s.frame[f] = "lost"

Shrinks(s, fault) ==
  LET tail == ObservedFrames(s) + 1 .. s.cap
      stops == {at \in tail : ShrinkFaultAt(s, at, fault)}
  IN  IF tail = {} THEN {s}
      ELSE IF \E f \in tail : Busy(s, f) THEN {Failed(s, "budget_pressure")}
      ELSE IF stops # {} THEN {ShrinkFails(s, tail, at, fault) : at \in stops}
      ELSE {[Dropped(s, tail) EXCEPT !.cap = ObservedFrames(s), !.grow = 0]}

(* A suspended pipeline comes back after RestoreSamples safe samples.      *)
SafeSample(s, n, w) ==
  /\ Pinned <= HostLimit - HostUsed(s)
  /\ s.obs >= Chunk * s.cap + w + Codec
  /\ s.obs >= Chunk * n + w + Codec
  /\ s.obs > Reserve + Codec
  /\ s.lease = {}

Recreate(s, fault) ==
  IF s.pipe # "none" THEN s
  ELSE IF fault = "setup_close"
  THEN Failed([s EXCEPT !.pipe = "stuck", !.charged = TRUE, !.blocked = TRUE,
                        !.fixed = Reserve + Codec], "cleanup_failure")
  ELSE IF fault = "setup" \/ FreeBytes(s) < Codec
  THEN s
  ELSE [s EXCEPT !.pipe = "live", !.charged = TRUE, !.susp = FALSE,
                 !.fixed = Reserve + Codec]

Restore(s, n, w, fault) ==
  IF ~s.susp THEN s
  ELSE IF ~SafeSample(s, n, w) THEN [s EXCEPT !.restore = 0]
  ELSE IF s.restore + 1 < RestoreSamples THEN [s EXCEPT !.restore = @ + 1]
  ELSE Recreate([s EXCEPT !.restore = 0], fault)

Growth(s) ==
  IF s.susp \/ ObservedFrames(s) <= s.cap THEN [s EXCEPT !.grow = 0]
  ELSE IF s.grow + 1 >= GrowSamples /\ ObservedFrames(s) >= s.cap + 2
  THEN [s EXCEPT !.cap = Smaller(ObservedFrames(s), s.cap + 2), !.grow = 0]
  ELSE [s EXCEPT !.grow = Smaller(@ + 1, GrowSamples)]

(* What is left must fit the target, and so must the next call.            *)
Settle(s, n, w) ==
  IF \/ Managed(s) > s.obs
     \/ s.obs < Required(s, n, w) \/ s.obs <= s.fixed
     \/ ObservedFrames(s) < n
  THEN Failed(s, "budget_pressure")
  ELSE [Growth(s) EXCEPT !.status = "success", !.fresh = TRUE]

(* The outcomes of one sample in which fault, if any, is what fails: a     *)
(* step is taken by the outcomes of the one before that are a success.     *)
Unless(s, after) == IF s.status = "success" THEN after ELSE {s}
Sample(s, n, w, fault) ==
  LET seen == [s EXCEPT !.status = "success", !.obs = ObservedTarget(s)]
      eased == Relieve(seen, n, w, fault)
      shrunk == Unless(eased, Shrinks(eased, fault))
      restored == UNION {Unless(x, {Restore(x, n, w, fault)}) : x \in shrunk}
  IN  IF fault = "sample" THEN {Failed(s, "cuda_failure")}
      ELSE UNION {Unless(x, {Settle(x, n, w)}) : x \in restored}

-----------------------------------------------------------------------------
(* The environment: the device and the host are shared.                    *)

Init ==
  /\ others = SetupLoad
  /\ hostload \in {h \in HostLoads : h + Pinned <= HostLimit}
  /\ b = [frame |-> [f \in Frame |-> "none"], cap |-> MaxFrames, ws |-> 0,
          fixed |-> Reserve + CodecBytes,
          pipe |-> IF HasCodec THEN "live" ELSE "none", susp |-> FALSE,
          charged |-> HasCodec, grow |-> 0, restore |-> 0, lease |-> {},
          blocked |-> FALSE, poisoned |-> FALSE, status |-> "success",
          obs |-> SetupTarget, fresh |-> FALSE]
  /\ call = Idle /\ faults = 0

OthersMove ==
  /\ \E x \in Loads : x # others /\ x <= others + FreeBytes(b) /\ others' = x
  /\ b' = [b EXCEPT !.fresh = FALSE]
  /\ UNCHANGED <<hostload, call, faults>>
HostMove ==
  /\ \E x \in HostLoads : /\ x # hostload /\ hostload' = x
                           /\ x + (IF b.charged THEN Pinned ELSE 0) <= HostLimit
  /\ UNCHANGED <<others, b, call, faults>>

(* The driver call that fails in a sample, if one does.                    *)
Meets(fault) ==
  /\ fault # "none" => faults < MaxFaults
  /\ faults' = faults + (IF fault = "none" THEN 0 ELSE 1)

-----------------------------------------------------------------------------
(* prefetch and acquire_external: sample, size check, then chunk by chunk. *)

(* ensure_workspace replaces a workspace that is too small.                *)
Workspace(s, w) ==
  IF w <= s.ws THEN s
  ELSE IF FreeBytes([s EXCEPT !.ws = 0]) < w
  THEN Failed([s EXCEPT !.ws = 0], "device_oom")
  ELSE [s EXCEPT !.ws = w]
Admit(op, n, w, r) ==
  LET s == IF r.status = "success" /\ n > r.cap
           THEN Failed(r, "budget_pressure")
           ELSE IF r.status = "success" /\ op = "acquire"
           THEN Workspace(r, w) ELSE r
  IN  /\ b' = s
      /\ call' = IF s.status = "success"
                 THEN [op |-> op, need |-> n, frames |-> {}] ELSE Idle
Allowed(op) ==
  /\ call = Idle
  /\ op = "acquire" => Ready /\ b.lease = {}
  /\ op = "prefetch" => PrefetchInLease \/ b.lease = {}
Begin ==
  \E op \in {"prefetch", "acquire"}, n \in Requests, w \in Workspaces, fault \in FaultKind :
    /\ Allowed(op)
    /\ op = "prefetch" => w = 0
    /\ Meets(fault) /\ \E r \in Sample(b, n, w, fault) : Admit(op, n, w, r)
    /\ UNCHANGED <<others, hostload>>
(* Within budget_poll_interval of the last sample there is no new one.     *)
BeginUnsampled ==
  \E op \in {"prefetch", "acquire"}, n \in Requests, w \in Workspaces :
    /\ Allowed(op)
    /\ op = "prefetch" => w = 0
    /\ Admit(op, n, w, [b EXCEPT !.status = "success", !.fresh = FALSE])
    /\ UNCHANGED <<others, hostload, faults>>

(* One chunk more is resident in frame f of s.                             *)
Place(s, f) ==
  LET mine == IF call.op = "acquire" THEN call.frames \union {f} ELSE {}
  IN  IF call.need = 1
      THEN /\ call' = Idle
           /\ b' = [s EXCEPT !.fresh = FALSE, !.status = "success",
                             !.lease = @ \union mine]
      ELSE /\ call' = [call EXCEPT !.need = @ - 1, !.frames = mine]
           /\ b' = [s EXCEPT !.fresh = FALSE, !.status = "success"]
(* rollback: the pins go, and so may the mappings of full overwrites; a    *)
(* lease that failed for pressure samples once more.                       *)
GiveUp(s) ==
  \E gone \in SUBSET {f \in call.frames : s.frame[f] = "clean"} :
    /\ b' = [s EXCEPT !.fresh = FALSE,
                      !.frame = [f \in Frame |-> IF f \in gone THEN "spare" ELSE s.frame[f]]]
    /\ call' = IF call.op = "acquire" /\ s.status = "budget_pressure"
               THEN [op |-> "recover", need |-> 0, frames |-> {}] ELSE Idle

Filling == call.need > 0
Hit ==
  /\ Filling
  /\ \E f \in {g \in 1 .. b.cap : b.frame[g] \in {"clean", "dirty"}} :
       /\ f \notin call.frames /\ Place(b, f)
  /\ UNCHANGED <<others, hostload, faults>>

Lowest(S) == CHOOSE x \in S : \A y \in S : x <= y
Spare == {f \in 1 .. b.cap : b.frame[f] = "spare"}
Empty == {f \in 1 .. b.cap : b.frame[f] = "none"}
Victims == {f \in 1 .. b.cap : b.frame[f] \in {"clean", "dirty"} /\ ~Busy(b, f)}
Mapped(s, f) == [s EXCEPT !.frame[f] = "clean"]

Reuse ==
  /\ Filling /\ Spare # {}
  /\ Place(Mapped(b, Lowest(Spare)), Lowest(Spare))
  /\ UNCHANGED <<others, hostload, faults>>
(* create_handle: out of memory samples the budget and tries once more.    *)
Create ==
  /\ Filling /\ Spare = {} /\ Empty # {}
  /\ LET f == Lowest(Empty)
         Retry(r) == IF r.status # "success" THEN GiveUp(r)
                     ELSE IF f > r.cap THEN GiveUp(Failed(r, "budget_pressure"))
                     ELSE IF FreeBytes(r) < Chunk THEN GiveUp(Failed(r, "device_oom"))
                     ELSE Place(Mapped(r, f), f)
     IN  IF FreeBytes(b) >= Chunk
         THEN Place(Mapped(b, f), f) /\ UNCHANGED faults
         ELSE \E fault \in FaultKind :
                Meets(fault) /\ \E r \in Sample(b, 0, b.ws, fault) : Retry(r)
  /\ UNCHANGED <<others, hostload>>
Evict ==
  /\ Filling /\ Spare = {} /\ Empty = {}
  /\ IF Victims = {}
     THEN GiveUp(Failed(b, "budget_pressure")) /\ UNCHANGED faults
     ELSE \E f \in Victims :
            \/ Place(Mapped(b, f), f) /\ UNCHANGED faults
            \/ /\ b.frame[f] = "dirty" /\ faults < MaxFaults
               /\ GiveUp(Failed(b, "cuda_failure")) /\ faults' = faults + 1
  /\ UNCHANGED <<others, hostload>>
Recover ==
  /\ call.op = "recover"
  /\ \E fault \in FaultKind :
       Meets(fault) /\ \E r \in Sample(b, 0, b.ws, fault) : b' = [r EXCEPT !.fresh = FALSE]
  /\ call' = Idle
  /\ UNCHANGED <<others, hostload>>

(* The lease is submitted and completes: what it wrote is dirty.           *)
EndLease ==
  /\ call = Idle /\ b.lease # {}
  /\ \E written \in SUBSET b.lease :
       b' = [b EXCEPT !.lease = {}, !.fresh = FALSE,
                      !.frame = [f \in Frame |-> IF f \in written THEN "dirty" ELSE b.frame[f]]]
  /\ UNCHANGED <<others, hostload, call, faults>>
(* release of an allocation: its chunks leave, their handles stay.         *)
ReleaseAllocation ==
  /\ call = Idle /\ Ready
  /\ \E gone \in SUBSET {f \in Frame : b.frame[f] \in {"clean", "dirty"} /\ ~Busy(b, f)} :
       /\ gone # {}
       /\ b' = [b EXCEPT !.fresh = FALSE, !.status = "success",
                         !.frame = [f \in Frame |-> IF f \in gone THEN "spare" ELSE b.frame[f]]]
  /\ UNCHANGED <<others, hostload, call, faults>>

Fill == Hit \/ Reuse \/ Create \/ Evict
Next == \/ OthersMove \/ HostMove \/ Begin \/ BeginUnsampled
        \/ Fill \/ Recover \/ EndLease \/ ReleaseAllocation

Spec == Init /\ [][Next]_vars

-----------------------------------------------------------------------------
(* Properties.                                                             *)

TypeOK ==
  /\ others \in Loads /\ hostload \in HostLoads /\ faults \in 0 .. MaxFaults
  /\ b.frame \in [Frame -> {"none", "spare", "clean", "dirty", "lost"}]
  /\ b.cap \in 0 .. MaxFrames /\ b.ws \in {0} \union Workspaces
  /\ b.pipe \in {"none", "live", "stuck"} /\ b.status \in Statuses
  /\ {b.susp, b.charged, b.blocked, b.poisoned, b.fresh} \subseteq BOOLEAN
  /\ b.grow \in 0 .. GrowSamples /\ b.restore \in 0 .. RestoreSamples - 1
  /\ b.lease \subseteq Frame /\ b.obs \in 0 .. Limit
  /\ call.op \in {"none", "prefetch", "acquire", "recover"}
  /\ call.need \in {0} \union UNION {1 .. n : n \in Requests}
  /\ call.frames \subseteq Frame

(* A sampled call that is admitted leaves the device headroom free, with   *)
(* its workspace allocated and whatever was suspended, shrunk, restored or *)
(* grown on the way (refresh_budget then ensure_workspace).                *)
HeadroomKept == b.fresh => FreeBytes(b) >= Headroom

(* docs/adaptive-compression.md:167: codec buffers and compute scratch     *)
(* reduce the cache target: after a sample, filling every frame still fits *)
(* what was observed, next to the workspace and the pipeline.              *)
FullPoolFits(s) == Chunk * s.cap + s.ws + Piped(s) <= s.obs

(* What refresh_budget does keep of that: only the sample that restores    *)
(* the pipeline may leave the pool too large, never two in a row.          *)
CapacityFitsButForRestore ==
  b'.fresh /\ (b.susp => b'.susp) => FullPoolFits(b')

(* The host budget is charged for the pipeline's staging exactly while the *)
(* pipeline exists, through suspension, failed closing, failed setup and   *)
(* restoration.                                                            *)
ChargedWhileItExists == b.charged <=> b.pipe # "none"

(* A suspended pipeline owns nothing on the device, unless closing what    *)
(* could not be restored failed, and then no more leases are admitted.     *)
SuspendedOwnsNothing == b.susp /\ b.pipe # "none" => b.blocked

(* The reserve the frame pool is sized by always counts the pipeline that  *)
(* is really there.                                                        *)
ReserveCountsPipeline == b.fixed = Reserve + Piped(b)

(* No frame beyond the capacity keeps device memory.                       *)
NothingBeyondCapacity == Handles(b) \subseteq 1 .. b.cap

(* No sample takes the frame of a chunk that the call in progress or the   *)
(* external lease has pinned.                                              *)
PinnedFramesStay ==
  \A f \in call.frames \union b.lease : b.frame[f] \in {"clean", "dirty"}

(* A shrink that is refused for budget pressure has released nothing: with *)
(* the capacity unchanged every mapped frame is still mapped.              *)
RefusedShrinkDropsNothing ==
  (b'.status = "budget_pressure" /\ b'.cap = b.cap /\ call.need = 0)
    => Resident(b) \subseteq Resident(b')

(* While the device stays as free as at setup, a suspended pipeline comes  *)
(* back, and so does the admission that was refused for budget pressure    *)
(* (ProgressSuite).                                                        *)
Plenty == others <= SetupLoad /\ hostload + Pinned <= HostLimit
Healthy == ~b.blocked /\ ~b.poisoned
Suspended == b.susp /\ Healthy /\ Plenty
Pressed == b.status = "budget_pressure" /\ ~b.fresh /\ Healthy /\ Plenty
=============================================================================
