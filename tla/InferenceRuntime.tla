-------------------------- MODULE InferenceRuntime --------------------------
(***************************************************************************)
(* The inference scheduler (InferenceRuntime, torch_runtime.py) and its    *)
(* native backend (NativeInferenceBackend, torch_native.py) running the    *)
(* plan of a graph: state is loaded once, then every run binds its inputs, *)
(* submits, retires and releases node by node, and reads the outputs.      *)
(*                                                                         *)
(* The scheduler holds a lock for the whole of a call and the backend      *)
(* wants its calls on one thread, so there is one actor; what interleaves  *)
(* with it is the kernel of the open lease.  The control table below is    *)
(* TorchControl, reduced here to what it answers: every call of it may     *)
(* fail, MaxFaults times.  Contents are modelled whole: a storage holds    *)
(* the value last written to it and the run that wrote it, and is void     *)
(* once it has been discarded.                                             *)
(***************************************************************************)
EXTENDS InferencePlan

CONSTANTS Graphs, MaxRuns, MaxFaults

InferenceAssumption == MaxRuns \in Nat /\ MaxFaults \in Nat

VARIABLES
  graph, plan,  \* what was captured; neither ever changes
  rt,           \* the scheduler: "new", "ready", "running", "failed", "closed"
  at,           \* where its call stands: a phase and the node it is at
  be,           \* the backend
  native,       \* the session, its allocations and its one lease
  mem,          \* contents of the storages
  run,          \* runs begun
  faults

vars == <<graph, plan, rt, at, be, native, mem, run, faults>>

Void == [value |-> 0, run |-> 0]
NoLease == [st |-> "none", node |-> 0]
NewBackend == [started |-> FALSE, prepared |-> FALSE, closed |-> FALSE, closeOk |-> FALSE,
               session |-> FALSE, allocs |-> {}, discarded |-> {}, token |-> "none"]

InFlight == native.lease.st \in {"armed", "running"}
Resting == at.phase = "idle"

Init ==
  /\ graph \in Graphs
  /\ plan = Plan(graph)
  /\ rt = "new" /\ at = [phase |-> "idle", node |-> 0]
  /\ be = NewBackend
  /\ native = [session |-> "none", allocs |-> {}, lease |-> NoLease]
  /\ mem = [s \in Storages(plan) |-> Void]
  /\ run = 0 /\ faults = 0

Fault == faults < MaxFaults /\ faults' = faults + 1
Calm == UNCHANGED faults
Still == UNCHANGED <<graph, plan>>

Idle == at' = [phase |-> "idle", node |-> 0]

(* Any exception while a call runs poisons the scheduler for good.         *)
Fail == rt' = "failed" /\ Idle

-----------------------------------------------------------------------------
(* prepare: one allocation per storage, then the state is written.         *)

StateMemory ==
  [s \in Storages(plan) |-> IF s[1] = "state" THEN [value |-> s[2], run |-> 0] ELSE mem[s]]

Prepare ==
  /\ Resting /\ rt = "new"
  /\ rt' = "ready"
  /\ be' = [be EXCEPT !.started = TRUE, !.prepared = TRUE, !.session = TRUE,
                      !.allocs = Storages(plan)]
  /\ native' = [native EXCEPT !.session = "open", !.allocs = Storages(plan)]
  /\ mem' = StateMemory
  /\ UNCHANGED <<at, run>> /\ Calm /\ Still

(* A failure in the middle is cleaned up: the allocations made so far are  *)
(* released and the session is closed.  A second failure there leaves the  *)
(* session to nobody: the handle is dropped whether it closed or not.      *)
PrepareFails ==
  /\ Resting /\ rt = "new"
  /\ rt' = "failed"
  /\ be' = [be EXCEPT !.started = TRUE]
  /\ \/ Fault /\ UNCHANGED native
     \/ Fault /\ native' = [native EXCEPT !.session = "closed"]
     \/ /\ faults + 1 < MaxFaults /\ faults' = faults + 2
        /\ native' = [native EXCEPT !.session = "lost"]
  /\ UNCHANGED <<at, mem, run>> /\ Still

-----------------------------------------------------------------------------
(* run: the inputs are bound first.  A wrong number of inputs is refused   *)
(* before anything happens and is not an action.                           *)

Inputs == {s \in Storages(plan) : s[1] = "input"}
After(i) ==
  LET later == {j \in Calls(graph) : j > i}
  IN IF later = {} THEN [phase |-> "read", node |-> OutputIndex(graph)]
     ELSE [phase |-> "node", node |-> Min(later)]

MayRun == rt = "ready"

Bind ==
  /\ Resting /\ MayRun /\ run < MaxRuns
  /\ run' = run + 1
  /\ mem' = [s \in Storages(plan) |-> IF s \in Inputs THEN [value |-> s[2], run |-> run'] ELSE mem[s]]
  /\ be' = [be EXCEPT !.discarded = @ \ Inputs]
  /\ rt' = "running" /\ at' = After(0)
  /\ UNCHANGED native /\ Calm /\ Still

(* An input of the wrong shape, a failed write, or a call from another     *)
(* thread than the one that prepared.                                      *)
BindFails ==
  /\ Resting /\ MayRun /\ run < MaxRuns /\ Fault
  /\ run' = run + 1
  /\ Fail /\ UNCHANGED <<be, native, mem>> /\ Still

-----------------------------------------------------------------------------
(* One node.                                                               *)

Tiled(i) == graph.nodes[i].op = "matmul"
Out(i) == plan.storage[i]

(* Slots that a tiled product may be written to are never discarded.       *)
Discardable(names) ==
  {plan.storage[v] : v \in {w \in names : plan.root[w] = w}}
    \ {Out(i) : i \in {j \in Launches(graph) : Tiled(j)}}

Release(i) ==
  LET dead == Discardable(Releases(graph, plan, i)) \ be.discarded
  IN /\ mem' = [s \in Storages(plan) |-> IF s \in dead THEN Void ELSE mem[s]]
     /\ be' = [be EXCEPT !.discarded = @ \union dead]

AliasNode ==
  /\ at.phase = "node" /\ graph.nodes[at.node].op = "alias"
  /\ Release(at.node) /\ at' = After(at.node)
  /\ UNCHANGED <<rt, native, run>> /\ Calm /\ Still

AtLaunch == at.phase = "node" /\ at.node \in Launches(graph)

Forget(s) == [be EXCEPT !.discarded = @ \ {s}]

(* An advisory read of the state the next launches need (nothing depends   *)
(* on it but that it may fail), then the lease: acquired, dispatched on    *)
(* its stream, its views dropped, sealed.                                  *)

Submit ==
  /\ AtLaunch
  /\ be.token = "none"
  /\ be' = [Forget(Out(at.node)) EXCEPT !.token = "lease"]
  /\ native' = [native EXCEPT !.lease = [st |-> "running", node |-> at.node]]
  /\ at' = [at EXCEPT !.phase = "retire"]
  /\ UNCHANGED <<rt, mem, run>> /\ Calm /\ Still

(* A product whose ranges exceed the live cache target runs tile by tile   *)
(* and is over when the call returns.                                      *)
SubmitTiled ==
  /\ AtLaunch /\ Tiled(at.node)
  /\ be.token = "none"
  /\ be' = [Forget(Out(at.node)) EXCEPT !.token = "gemm"]
  /\ mem' = [mem EXCEPT ![Out(at.node)] = [value |-> at.node, run |-> run]]
  /\ at' = [at EXCEPT !.phase = "retire"]
  /\ UNCHANGED <<rt, native, run>> /\ Calm /\ Still

(* The prefetch, the acquisition or the tiled product fails; the lease is  *)
(* cancelled before anything was dispatched; or the dispatch fails and the *)
(* lease is sealed as failed and waited for.  When the seal is refused the *)
(* lease stays armed, when the wait gives up its kernel stays in flight.   *)
SubmitFails ==
  /\ AtLaunch
  /\ Fail
  /\ \/ Fault /\ UNCHANGED native
     \/ Fault /\ native' = [native EXCEPT !.lease = [st |-> "retired", node |-> at.node]]
     \/ /\ faults + 1 < MaxFaults /\ faults' = faults + 2
        /\ \E left \in {"armed", "running"} :
             native' = [native EXCEPT !.lease = [st |-> left, node |-> at.node]]
  /\ UNCHANGED <<be, mem, run>> /\ Still

KernelEnds ==
  /\ native.lease.st = "running"
  /\ native' = [native EXCEPT !.lease.st = "finished"]
  /\ mem' = [mem EXCEPT ![Out(native.lease.node)] = [value |-> native.lease.node, run |-> run]]
  /\ UNCHANGED <<rt, at, be, run>> /\ Calm /\ Still

Completed == native.lease.st = "finished"

Retire ==
  /\ at.phase = "retire" /\ be.token = "lease" /\ Completed
  /\ native' = [native EXCEPT !.lease.st = "retired"]
  /\ be' = [be EXCEPT !.token = "none"] /\ at' = [at EXCEPT !.phase = "release"]
  /\ UNCHANGED <<rt, mem, run>> /\ Calm /\ Still

RetireTiled ==
  /\ at.phase = "retire" /\ be.token = "gemm"
  /\ be' = [be EXCEPT !.token = "none"] /\ at' = [at EXCEPT !.phase = "release"]
  /\ UNCHANGED <<rt, native, mem, run>> /\ Calm /\ Still

(* The wait times out, or answers that the lease has failed: the token is *)
(* kept for close.                                                         *)
TimesOut == native.lease.st = "running"

RetireTimesOut ==
  /\ at.phase = "retire" /\ be.token = "lease" /\ TimesOut
  /\ Fail /\ UNCHANGED <<be, native, mem, run>> /\ Calm /\ Still

RetireFails ==
  /\ at.phase = "retire" /\ be.token = "lease" /\ native.lease.st = "finished" /\ Fault
  /\ Fail /\ UNCHANGED <<be, native, mem, run>> /\ Still

ReleaseNode ==
  /\ at.phase = "release"
  /\ Release(at.node) /\ at' = After(at.node)
  /\ UNCHANGED <<rt, native, run>> /\ Calm /\ Still

(* A discard fails.                                                        *)
ReleaseFails ==
  /\ \/ at.phase = "release"
     \/ at.phase = "node" /\ graph.nodes[at.node].op = "alias"
  /\ Discardable(Releases(graph, plan, at.node)) \ be.discarded # {}
  /\ Fault /\ Fail /\ UNCHANGED <<be, native, mem, run>> /\ Still

ReadOutputs ==
  /\ at.phase = "read"
  /\ rt' = "ready" /\ Idle
  /\ UNCHANGED <<be, native, mem, run>> /\ Calm /\ Still

ReadFails ==
  /\ at.phase = "read" /\ Fault
  /\ Fail /\ UNCHANGED <<be, native, mem, run>> /\ Still

-----------------------------------------------------------------------------
(* close.  The backend's runs once, whatever comes of it: an outstanding   *)
(* token is retired, every allocation is released, the session is closed,  *)
(* and only then is the first of the errors raised.                        *)

CloseUnstarted ==
  /\ Resting /\ rt # "closed" /\ (~be.started \/ be.closed)
  /\ rt' = "closed"
  /\ UNCHANGED <<at, be, native, mem, run>> /\ Calm /\ Still

(* A call from another thread than the backend's.                          *)
CloseForeign ==
  /\ Resting /\ be.prepared /\ rt # "closed" /\ Fault
  /\ rt' = "failed"
  /\ UNCHANGED <<at, be, native, mem, run>> /\ Still

(* prepare failed: the backend has no session and finds nothing to do.     *)
CloseAbandoned ==
  /\ Resting /\ be.started /\ ~be.closed /\ ~be.session
  /\ be' = [be EXCEPT !.closed = TRUE, !.closeOk = TRUE]
  /\ rt' = "closed"
  /\ UNCHANGED <<at, native, mem, run>> /\ Calm /\ Still

Unretired == native.lease.st \in {"armed", "running", "finished"}
(* The table refuses to release what an unretired lease uses.              *)
Held(retired) ==
  IF Unretired /\ ~retired
  THEN {plan.storage[v] : v \in graph.nodes[native.lease.node].args \union {native.lease.node}}
  ELSE {}

Errors(retires, refused, closes) == ~retires \/ refused # {} \/ ~closes

(* The token retires if its kernel is over; releases fail, one of them or  *)
(* all (a poisoned session); and the session closes unless a lease of it   *)
(* is still armed or its kernel outlasts the timeout.  A session that      *)
(* closes gives back whatever was not released before.                     *)
CloseBackend ==
  /\ Resting /\ ~be.closed /\ be.session
  /\ \E retires, closes \in BOOLEAN, failing \in {{}, be.allocs} \union {{s} : s \in be.allocs} :
       LET refused == failing \union Held(retires /\ be.token = "lease")
           slips == (IF ~retires /\ native.lease.st # "running" THEN 1 ELSE 0)
                      + (IF failing = {} THEN 0 ELSE 1)
                      + (IF ~closes /\ ~InFlight THEN 1 ELSE 0)
           failed == Errors(retires, refused, closes)
       IN /\ IF be.token = "none" THEN retires ELSE retires => Completed
          /\ closes => native.lease.st # "armed"
          /\ faults + slips <= MaxFaults /\ faults' = faults + slips
          /\ be' = [be EXCEPT !.closed = TRUE, !.prepared = FALSE, !.session = FALSE,
                              !.allocs = {}, !.closeOk = ~failed,
                              !.token = IF retires THEN "none" ELSE @]
          /\ native' = IF closes
                       THEN [session |-> "closed", allocs |-> {}, lease |-> NoLease]
                       ELSE [native EXCEPT !.allocs = refused,
                               !.lease.st = IF retires /\ be.token = "lease" THEN "retired" ELSE @]
          /\ rt' = IF failed THEN "failed" ELSE "closed"
  /\ UNCHANGED <<at, mem, run>> /\ Still

Step ==
  \/ AliasNode \/ Submit \/ SubmitTiled \/ Retire \/ RetireTiled \/ RetireTimesOut
  \/ ReleaseNode \/ ReadOutputs
Failure == BindFails \/ SubmitFails \/ RetireFails \/ ReleaseFails \/ ReadFails
Close == CloseUnstarted \/ CloseForeign \/ CloseAbandoned \/ CloseBackend
Next == Prepare \/ PrepareFails \/ Bind \/ Step \/ Failure \/ KernelEnds \/ Close

Spec == Init /\ [][Next]_vars

-----------------------------------------------------------------------------
(* The state of the scheduler and of its backend.                          *)
InferenceTypeOK ==
  /\ rt \in {"new", "ready", "running", "failed", "closed"}
  /\ at.phase \in {"idle", "node", "retire", "release", "read"}
  /\ (rt = "running") = ~Resting
  /\ be.allocs \subseteq Storages(plan) /\ be.discarded \subseteq Slots(plan)
  /\ be.token \in {"none", "lease", "gemm"}
  /\ native.session \in {"none", "open", "closed", "lost"}
  /\ native.lease.st \in {"none", "armed", "running", "finished", "retired"}

(* Where a value lives and what it must hold when this run reads it.       *)
Current(v) ==
  LET root == plan.root[v]
  IN mem[plan.storage[v]] =
       CASE graph.nodes[root].op = "state" -> [value |-> graph.nodes[root].key, run |-> 0]
         [] OTHER -> [value |-> root, run |-> run]

(* Every node, and the read of the outputs, finds in each storage the      *)
(* value the graph says it reads, written by this run: not one that took   *)
(* over the slot, not one discarded with it, not one of the run before.    *)
(* It covers aliases of aliases, tied state and slots reused across runs.  *)
ReadsAreCurrent ==
  at.phase \in {"node", "read"} \/ (at.phase = "retire" /\ be.token = "lease") =>
    \A v \in ReadAt(graph, at.node) : Current(v)

(* What the backend believes discarded is what the table discarded: a slot *)
(* forgotten would not be discarded again, a slot remembered too long is   *)
(* refused as an output.                                                   *)
DiscardedIsVoid ==
  at.phase \in {"node", "read"} =>
    be.discarded \subseteq {s \in Slots(plan) : mem[s] = Void}

(* A product that runs tile by tile reads its output slot back in tiles;   *)
(* it finds no discarded bytes there, in whatever run and whichever way    *)
(* the slot was used before ("Activation slots that may become an          *)
(* mm/linear destination are conservatively kept valid").                  *)
TiledOutputStaysValid ==
  AtLaunch /\ Tiled(at.node) => Out(at.node) \notin be.discarded

(* The checks of the backend that no plan may trip: a lease is submitted   *)
(* when none is active, and an output that is read was not discarded.      *)
InternalChecksHold ==
  /\ at.phase \in {"node", "release", "read"} => be.token = "none" /\ ~Unretired
  /\ at.phase = "read" => {plan.storage[v] : v \in graph.outputs} \intersect be.discarded = {}

(* Between runs nothing is in flight and no dead activation is kept, but   *)
(* for the slots that products write to.                                   *)
RestsClean ==
  rt = "ready" =>
    /\ be.token = "none" /\ ~Unretired
    /\ \A s \in Slots(plan) :
         mem[s] # Void =>
           \/ \E v \in graph.outputs : plan.storage[v] = s
           \/ \E i \in Launches(graph) : Tiled(i) /\ Out(i) = s

(* An allocation is not given back under a kernel that uses it, though     *)
(* close goes on to release after a token that would not retire.           *)
MappedUnderKernel ==
  InFlight => {Out(native.lease.node)} \subseteq native.allocs

(* A close that reports success has left no session, no allocation and no  *)
(* lease of a backend that was prepared.                                   *)
CloseLeavesNothing ==
  be.closeOk => native.session # "open" /\ native.allocs = {} /\ ~Unretired

(* A scheduler that failed submits nothing more and is never ready again.  *)
FailedForGood == rt = "failed" => rt' \in {"failed", "closed"}

-----------------------------------------------------------------------------
(* What a plan owes to its graph.                                          *)

(* No value takes a slot between the production of the value that has it   *)
(* and the last node that reads that one, through an alias or not.         *)
ReadsFindTheirValue ==
  \A i \in Calls(graph) \union {OutputIndex(graph)} : \A v \in ReadAt(graph, i) :
    \A w \in Launches(graph) :
      plan.root[v] < w /\ w <= i => plan.storage[w] # plan.storage[v]

(* Colouring in one pass with the best fit opens no slot too many: there   *)
(* are as many as values are ever live at once.                            *)
SlotsAreFewest ==
  Launches(graph) # {} =>
    Cardinality(Slots(plan)) =
      Max({Cardinality(LiveAt(graph, plan, i)) : i \in Launches(graph)})

(* A slot is as large as the largest value that is ever in it, so that the *)
(* peak the plan reports fits in its slots.                                *)
SlotsHoldTheirValues ==
  /\ \A k \in DOMAIN plan.capacity :
       plan.capacity[k] = Max({graph.nodes[v].size :
                                 v \in {w \in Launches(graph) : plan.storage[w] = <<"activation", k>>}})
  /\ PeakLive(graph, plan) <= FoldLeft(+, 0, plan.capacity)

(* Every activation but those that escape is released at one node, which   *)
(* no later node follows that reads it.                                    *)
ReleasedOnce ==
  \A v \in Launches(graph) :
    LET releasing == {i \in Calls(graph) : v \in Releases(graph, plan, i)}
        reading == {i \in Calls(graph) \union {OutputIndex(graph)} :
                      \E w \in ReadAt(graph, i) : plan.root[w] = v}
    IN IF OutputIndex(graph) \in reading THEN releasing = {}
       ELSE Cardinality(releasing) = 1 /\ \A i \in releasing, j \in reading : j <= i
=============================================================================
