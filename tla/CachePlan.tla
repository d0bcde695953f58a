----------------------------- MODULE CachePlan -----------------------------
(***************************************************************************)
(* What the phase 2 executor decides before it runs                        *)
(* (src/residency/executor.cpp, run_executor): the effective chunk, the    *)
(* logical size that host memory can back, the cache cap and the initial   *)
(* target (src/residency/budget.cpp); then the trace of accesses of a      *)
(* scenario (src/residency/scenario.cpp).                                  *)
(*                                                                         *)
(* Sizes are unsigned integers up to MaxWord, and every operation that the *)
(* code checks for overflow is checked here.  The pseudo-random generator  *)
(* is abstracted to the arithmetic progressions and the rotations.         *)
(***************************************************************************)
EXTENDS Integers, Sequences, FiniteSets

CONSTANTS
  MaxWord,      \* the largest size: 2^64 - 1 in the code
  Word,         \* bytes of a word: 4 in the code
  MinHeadroom,  \* host headroom at least: 4 GiB in the code
  Service,      \* host bytes for everything else: 256 MiB in the code
  Requests,     \* the configurations that are asked for
  Machines,     \* the machines they are asked of
  Cycles,       \* cycles of the reuse scenario: 8 in the code
  None

PlanAssumption ==
  /\ {Word, Cycles} \subseteq Nat \ {0}
  /\ {MaxWord, MinHeadroom, Service} \subseteq Nat

VARIABLES request, machine, plan, stage, reason, trace

vars == <<request, machine, plan, stage, reason, trace>>

Scenarios == {"sequential", "reuse", "random", "read_only", "write_heavy",
              "budget_pressure"}

-----------------------------------------------------------------------------
(* 64-bit arithmetic.                                                      *)

Lesser(a, b) == IF a < b THEN a ELSE b
Greater(a, b) == IF a > b THEN a ELSE b
Checked(n) == IF n > MaxWord THEN None ELSE n
AlignUp(n, a) == Checked(IF n % a = 0 THEN n ELSE n + (a - (n % a)))
LeastCommonMultiple(a, b) ==
  Checked(CHOOSE m \in 1 .. a * b :
            /\ m % a = 0 /\ m % b = 0
            /\ \A n \in 1 .. m - 1 : n % a # 0 \/ n % b # 0)
Down(n, a) == (n \div a) * a
SaturatingSubtract(a, b) == Greater(a - b, 0)

-----------------------------------------------------------------------------
Fail(why) == reason' = why /\ stage' = "failed" /\ UNCHANGED plan
Go(next, p) == stage' = next /\ plan' = p /\ UNCHANGED reason

(* The chunk is a multiple of both granularities and of the word.          *)
Alignment(m) ==
  LET vmm == LeastCommonMultiple(m.minimum, m.recommended)
  IN IF vmm = None THEN None ELSE LeastCommonMultiple(vmm, Word)

AlignChunk ==
  /\ stage = "chunk"
  /\ LET a == Alignment(machine)
         c == IF a = None THEN None ELSE AlignUp(request.chunk, a)
     IN \/ c \in {None, 0} /\ Fail("granularity_overflow")
        \/ c \notin {None, 0} /\ Go("host", [plan EXCEPT !.chunk = c])
  /\ UNCHANGED <<request, machine, trace>>

(* Pinned staging, the headroom and the service memory are set aside.      *)
Reserved(chunk) ==
  Checked(Greater(MinHeadroom, machine.physical \div 4) + chunk * request.slots + Service)

Host ==
  /\ stage = "host"
  /\ LET r == Reserved(plan.chunk)
         enough == machine.physical # 0 /\ r # None /\ r < machine.available
     IN \/ ~enough /\ Fail("insufficient_host_memory")
        \/ enough /\ Go("logical", [plan EXCEPT !.safe = Down(machine.available - r, Word)])
  /\ UNCHANGED <<request, machine, trace>>

(* A size that was asked for, or one and a half times the device memory.   *)
LogicalSize ==
  IF request.logical # None THEN request.logical
  ELSE LET half == (machine.vram \div 2) + (machine.vram % 2)
       IN IF Checked(machine.vram + half) = None THEN None
          ELSE Down(Lesser(machine.vram + half, plan.safe), Word)

Logical ==
  /\ stage = "logical"
  /\ LET n == LogicalSize
         least == Checked(plan.chunk * 3)
     IN \/ request.logical # None /\ request.logical > plan.safe
           /\ Fail("insufficient_host_memory")
        \/ n = None /\ Fail("automatic_overflow")
        \/ /\ n # None /\ (request.logical # None => request.logical <= plan.safe)
           /\ IF least = None THEN Fail("logical_heap_too_small")
              ELSE IF n < least THEN Fail("logical_heap_too_small")
              ELSE Go("cap", [plan EXCEPT !.logical = n])
  /\ UNCHANGED <<request, machine, trace>>

(* At least one chunk of the heap must not fit.                            *)
Ceiling == Down(plan.logical - 1, plan.chunk)

Cap ==
  /\ stage = "cap"
  /\ LET asked == IF request.cache = None THEN machine.vram ELSE request.cache
         cap == Down(Lesser(asked, Ceiling), plan.chunk)
     IN \/ cap < plan.chunk * 2 /\ Fail("cache_target_too_small")
        \/ cap >= plan.chunk * 2 /\ Go("target", [plan EXCEPT !.cap = cap])
  /\ UNCHANGED <<request, machine, trace>>

(* calculate_budget_target: what the device and the WDDM budget leave.     *)
\* mutant: the WDDM budget is compared before its usage is taken off
BudgetTargetUsage(cap, chunk) ==
  LET wddm == IF machine.wddm = None THEN MaxWord ELSE machine.wddm.budget
  IN Down(SaturatingSubtract(Lesser(Lesser(cap, machine.free), wddm), request.headroom),
          chunk)
BudgetTarget(cap, chunk) ==
  LET wddm == IF machine.wddm = None THEN MaxWord
              ELSE SaturatingSubtract(machine.wddm.budget, machine.wddm.usage)
  IN Down(SaturatingSubtract(Lesser(Lesser(cap, machine.free), wddm), request.headroom),
          chunk)

Target ==
  /\ stage = "target"
  /\ LET target == BudgetTarget(plan.cap, plan.chunk) IN
       \/ target < plan.chunk * 2 /\ Fail("below_minimum")
       \/ target >= plan.chunk * 2 /\ Go("trace", [plan EXCEPT !.target = target])
  /\ UNCHANGED <<request, machine, trace>>

-----------------------------------------------------------------------------
(* The scenarios.                                                          *)

ChunkCount == ((plan.logical - 1) \div plan.chunk) + 1
CacheChunks == plan.target \div plan.chunk

(* make_chunk_access: the last chunk may be short.                         *)
Range(k) ==
  [offset |-> k * plan.chunk,
   length |-> Lesser(plan.chunk, plan.logical - k * plan.chunk)]

Access(k, mode, pass) == [kind |-> "access", range |-> Range(k), mode |-> mode, pass |-> pass]
Pressure(kind, bytes) == [kind |-> kind, bytes |-> bytes]

(* append_alternating_scan. *)
Scan(n, passes, mode) ==
  [i \in 1 .. n * passes |->
     LET pass == (i - 1) \div n
         position == (i - 1) % n
     IN Access(IF pass % 2 = 0 THEN position ELSE n - 1 - position, mode, pass)]

(* A cycle over the first chunks. *)
Over(hot, pass) == [i \in 1 .. hot |-> Access(i - 1, "read", pass)]

ReuseHot == Greater(1, Lesser(ChunkCount, CacheChunks \div 2))
Reuse ==
  [i \in 1 .. ReuseHot * Cycles |->
     Access((i - 1) % ReuseHot, "read", (i - 1) \div ReuseHot)]

Random(start, stride) ==
  [i \in 1 .. 4 * ChunkCount |->
     Access((start + (stride * i)) % ChunkCount, IF i % 2 = 1 THEN "read" ELSE "read_write", 0)]

(* A fifth of the operations read, a fifth overwrite whole chunks.         *)
Modes(total) ==
  [i \in 1 .. total |-> IF i <= total \div 5 THEN "read"
                        ELSE IF i <= 2 * (total \div 5) THEN "write_only" ELSE "read_write"]
WriteHeavy(shift, turn) ==
  LET n == ChunkCount
      total == n * request.passes
  IN [i \in 1 .. total |->
        Access((i - 1 + shift) % n, Modes(total)[((i - 1 + turn) % total) + 1], (i - 1) \div n)]

(* Four chunks of memory outside the cache, unless another size is asked.  *)
PressureBytes == IF request.pressure = None THEN Checked(plan.chunk * 4) ELSE request.pressure
BudgetPressure ==
  LET hot == Lesser(ChunkCount, CacheChunks) IN
    Over(hot, 0) \o <<Pressure("acquire", PressureBytes)>> \o Over(hot, 1)
      \o <<Pressure("release", PressureBytes)>> \o Over(hot, 2)

Traces(scenario) ==
  CASE scenario = "sequential" -> {Scan(ChunkCount, request.passes, "read_write")}
    [] scenario = "read_only" -> {Scan(ChunkCount, request.passes, "read")}
    [] scenario = "reuse" -> {Reuse}
    [] scenario = "random" -> {Random(a, b) : a, b \in 0 .. ChunkCount - 1}
    [] scenario = "write_heavy" ->
         {WriteHeavy(a, b) : a \in 0 .. ChunkCount - 1, b \in {0, ChunkCount}}
    [] scenario = "budget_pressure" -> {BudgetPressure}

(* generate_scenario_trace checks its input again.                         *)
GeneratorAccepts ==
  plan.target >= plan.chunk * 2 /\ plan.target % plan.chunk = 0 /\ request.passes \in 2 .. 8
Overflows(scenario) == scenario = "budget_pressure" /\ PressureBytes = None

Refusal(scenario) ==
  IF ~GeneratorAccepts THEN "invalid_configuration"
  ELSE IF Overflows(scenario) THEN "arithmetic_overflow" ELSE "none"

Generate ==
  /\ stage = "trace"
  /\ \E scenario \in Scenarios :
       IF Refusal(scenario) # "none"
       THEN Fail(Refusal(scenario)) /\ UNCHANGED trace
       ELSE /\ Go("planned", plan)
            /\ \E t \in Traces(scenario) :
                 trace' = [scenario |-> scenario, operations |-> t]
  /\ UNCHANGED <<request, machine>>

-----------------------------------------------------------------------------
(* validate_options and run_executor have refused what is out of range.    *)
Init ==
  /\ request \in Requests /\ machine \in Machines
  /\ plan = [chunk |-> 0, safe |-> 0, logical |-> 0, cap |-> 0, target |-> 0]
  /\ stage = "chunk" /\ reason = "none"
  /\ trace = [scenario |-> None, operations |-> <<>>]

Stopped == stage \in {"planned", "failed"} /\ UNCHANGED vars
Next == AlignChunk \/ Host \/ Logical \/ Cap \/ Target \/ Generate \/ Stopped
Spec == Init /\ [][Next]_vars

-----------------------------------------------------------------------------
Sized == stage \in {"trace", "planned"}
Operations == {trace.operations[i] : i \in DOMAIN trace.operations}
Accesses == {o \in Operations : o.kind = "access"}

TypeOK ==
  /\ plan \in [chunk : 0 .. MaxWord, safe : 0 .. MaxWord, logical : 0 .. MaxWord,
               cap : 0 .. MaxWord, target : 0 .. MaxWord]
  /\ stage \in {"chunk", "host", "logical", "cap", "target", "trace", "planned", "failed"}

(* A frame can be created and mapped at every chunk: the chunk covers what *)
(* was asked for and is a multiple of both granularities.                  *)
ChunksCanBeMapped ==
  Sized => /\ plan.chunk >= request.chunk
           /\ \A a \in {machine.minimum, machine.recommended, Word} : plan.chunk % a = 0

(* The heap, the pinned staging, the service memory and the headroom fit   *)
(* together in the memory the host has available.                          *)
HostMemoryHolds ==
  Sized =>
    plan.logical + plan.chunk * request.slots + Service
      + Greater(MinHeadroom, machine.physical \div 4) <= machine.available

(* What the cache manager relies on: two frames at least, and fewer frames *)
(* than chunks (CacheAssumption; "cache_smaller_than_logical").            *)
CacheIsProper ==
  Sized => /\ 2 * plan.chunk <= plan.target /\ plan.target <= plan.cap
           /\ plan.cap < plan.logical /\ plan.cap % plan.chunk = 0
           /\ ChunkCount >= 3

(* The initial target and the headroom fit in the free device memory and   *)
(* in what the WDDM budget leaves.                                         *)
TargetFitsTheDevice ==
  Sized => /\ plan.target + request.headroom <= machine.free
           /\ machine.wddm # None =>
                plan.target + request.headroom + machine.wddm.usage <= machine.wddm.budget

(* What was planned can be generated: the generator's own checks never     *)
(* refuse it, and four chunks of pressure do not overflow.                 *)
PlannedCanBeGenerated == reason \notin {"invalid_configuration", "arithmetic_overflow"}

(* Every access is a nonempty, aligned range of one chunk of the heap.     *)
AccessesStayInTheHeap ==
  \A o \in Accesses :
    /\ o.range.length > 0 /\ o.range.length % Word = 0
    /\ o.range.offset % plan.chunk = 0 /\ o.range.length <= plan.chunk
    /\ o.range.offset + o.range.length <= plan.logical

(* The scans and the shuffled passes touch every byte of the heap in every *)
(* pass, once.                                                             *)
PassesCoverTheHeap ==
  stage = "planned" /\ trace.scenario \in {"sequential", "read_only", "write_heavy"} =>
    /\ Len(trace.operations) = ChunkCount * request.passes
    /\ \A pass \in 0 .. request.passes - 1 :
         {o.range : o \in {a \in Accesses : a.pass = pass}}
           = {[offset |-> k * plan.chunk,
               length |-> Lesser(plan.chunk, plan.logical - k * plan.chunk)]
              : k \in 0 .. ChunkCount - 1}

(* "a hot set equal to 50% of the initial target", and the pressure's hot  *)
(* set fills the target: the warm cycles hit.                              *)
HotSetsFit ==
  stage = "planned" =>
    LET touched == plan.chunk * Cardinality({o.range : o \in Accesses}) IN
      /\ trace.scenario = "reuse" => 2 * touched <= plan.target
      /\ trace.scenario = "budget_pressure" => touched = plan.target

(* Memory taken from the cache is given back, once, after it was taken.    *)
PressureIsReleased ==
  stage = "planned" =>
    LET at(kind) == {i \in DOMAIN trace.operations : trace.operations[i].kind = kind} IN
      /\ Cardinality(at("acquire")) = Cardinality(at("release"))
      /\ \A i \in at("acquire"), j \in at("release") : i < j

(* "20% read, 60% read-write, and 20% full-chunk write-only", rounded down *)
(* for the reads and the overwrites.                                       *)
WriteHeavyMix ==
  stage = "planned" /\ trace.scenario = "write_heavy" =>
    \A mode \in {"read", "write_only"} :
      Cardinality({i \in DOMAIN trace.operations : trace.operations[i].mode = mode})
        = Len(trace.operations) \div 5
=============================================================================
