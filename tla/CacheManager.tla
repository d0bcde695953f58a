---------------------------- MODULE CacheManager ----------------------------
(***************************************************************************)
(* The asynchronous residency cache of the phase 2 executor                *)
(* (src/residency/executor.cpp): one thread runs a trace of chunk accesses *)
(* through a small pool of physical frames while three device streams copy *)
(* and compute.  Only speculative uploads are still in flight when the     *)
(* thread goes on, so the device finishing one (DeviceStep), the live      *)
(* budget, and driver calls that fail are what the thread runs against.    *)
(*                                                                         *)
(* The call stack of the thread is todo, a sequence of the calls that are  *)
(* still to be made: an action takes its head and may put callees before   *)
(* the rest.  A failing call unwinds the whole stack; then close runs.     *)
(*                                                                         *)
(* Every chunk holds one bit, and the host backing is advanced by the CPU  *)
(* reference ahead of the write-back that is compared with it.             *)
(***************************************************************************)
EXTENDS Integers, FiniteSets, Sequences

CONSTANTS Chunks,        \* chunks of the logical heap
          Cap,           \* configured cache cap, in chunks
          HSlots, DSlots,  \* staging slots of each direction
          Distance,      \* prefetch distance
          Ops,           \* accesses of one workload (bound)
          Workloads,     \* workloads run one after the other (bound)
          FreeSamples,   \* free device memory a budget query may report
          Headroom,      \* device headroom, in chunks
          SafeSamples, GrowthStep, GrowthReserve,  \* hysteresis
          MaxFaults,     \* driver calls that fail (bound)
          MaxOom,        \* frame allocations that run out of memory (bound)
          None

CacheAssumption ==
  /\ {Chunks, Cap, HSlots, DSlots, Ops, Workloads} \subseteq Nat \ {0}
  /\ Cap >= 2 /\ Cap < Chunks
  /\ {Distance, Headroom, SafeSamples, GrowthStep, GrowthReserve,
      MaxFaults, MaxOom} \subseteq Nat
  /\ FreeSamples \subseteq Nat
  /\ None \notin Nat

VARIABLES chunk, frame, slot, stream, host, dev, written, token,
          queue, prefetched, target, todo, got, trace, run, freed

data == <<host, dev, written, token>>
vars == <<chunk, frame, slot, stream, data, queue, prefetched, target, todo,
          got, trace, run, freed>>

Chunk == 1 .. Chunks
Frame == 1 .. Cap
H2d == {"h2d"} \X (1 .. HSlots)
D2h == {"d2h"} \X (1 .. DSlots)
Slot == H2d \union D2h
Mode == {"r", "rw", "w"}
Kinds == {"device", "handles", "reservation", "backing", "events", "streams",
          "pinned", "context"}

-----------------------------------------------------------------------------
(* Reading the tables.                                                     *)

Least(S) == CHOOSE x \in S : \A y \in S : x <= y
Ascending(S) ==
  [i \in 1 .. Cardinality(S) |->
     CHOOSE x \in S : Cardinality({y \in S : y < x}) = i - 1]

Mapped == {k \in Chunk : chunk[k].frame # None}
Live == Cardinality({f \in Frame : frame[f].handle})
Resident == Cardinality({f \in Frame : frame[f].key # None})
Spare == {f \in Frame : frame[f].handle /\ frame[f].key = None}
Busy(s) == slot[s].key # None
Items == UNION {{stream[d][i] : i \in DOMAIN stream[d]} : d \in DOMAIN stream}
Complete(s) == \A i \in Items : i.slot # s
FreeSlots(S) == {s \in S : ~Busy(s)}

(* is_victim_eligible. *)
Eligible(k) ==
  /\ chunk[k].st \in {"resident_clean", "resident_dirty"}
  /\ ~chunk[k].pin /\ ~chunk[k].staged /\ ~chunk[k].open

-----------------------------------------------------------------------------
(* The shape of the call stack.                                            *)

Call(op) == [op |-> op]
OfChunk(op, k) == [op |-> op, key |-> k]
RetireCall(s, wait) == [op |-> "retire", slot |-> s, wait |-> wait]
MapCall(k, spec, needs) ==
  [op |-> "map", key |-> k, spec |-> spec, needs |-> needs]
SlotsInOrder(d, n) == [i \in 1 .. n |-> <<d, i>>]
RetireAll(wait) ==
  [i \in 1 .. HSlots |-> RetireCall(SlotsInOrder("h2d", HSlots)[i], wait)]
    \o [i \in 1 .. DSlots |-> RetireCall(SlotsInOrder("d2h", DSlots)[i], wait)]
ForEach(op, keys) == [i \in 1 .. Len(keys) |-> OfChunk(op, keys[i])]

DrainCalls(release) == <<[op |-> "drain", release |-> release]>>
CloseCalls == DrainCalls(TRUE) \o <<Call("sync"), Call("salvage"), Call("settle")>>
PollCalls == RetireAll(FALSE) \o <<Call("sample"), Call("schedule")>>

At(op) == todo # <<>> /\ Head(todo).op = op
Now == Head(todo)
Return == todo' = Tail(todo)
Into(calls) == todo' = calls \o Tail(todo)

(* What is left of the stack when a call fails: close carries on with its  *)
(* next stage, a workload is over and close begins.                        *)
Stages == {"sync", "salvage", "settle", "salvageOne"}
Unwound ==
  IF run.phase = "run" THEN CloseCalls
  ELSE LET first == Least({i \in 1 .. Len(todo) : i > 1 /\ todo[i].op \in Stages})
       IN SubSeq(todo, first, Len(todo))

(* record_failure keeps the first failure. *)
Noted(r, why) == [r EXCEPT !.failure = IF @ = "none" THEN why ELSE @]
Failed(r, why) == [Noted(r, why) EXCEPT !.phase = "closing"]
Fail(why) == todo' = Unwound /\ run' = Failed(run, why)
FaultLeft == run.faults < MaxFaults
Faulted(r) == [r EXCEPT !.faults = @ + 1]
FaultFail == FaultLeft /\ todo' = Unwound /\ run' = Faulted(Failed(run, "fault"))
Quarantined(r) == [r EXCEPT !.quarantine = TRUE]

(* poison: no further submission, and the chunk is in an unknown state. *)
Poisoned(k) == [chunk EXCEPT ![k].st = "poisoned"]
PoisonRun(r, why) == [Quarantined(Failed(r, why)) EXCEPT !.poisoned = TRUE]
Poison(k, why) ==
  chunk' = Poisoned(k) /\ todo' = Unwound /\ run' = PoisonRun(run, why)
PoisonFault(k) ==
  /\ FaultLeft /\ chunk' = Poisoned(k) /\ todo' = Unwound
  /\ run' = Faulted(PoisonRun(run, "fault"))

-----------------------------------------------------------------------------
(* What the device does with the chunks.                                   *)

Result(mode, bit) == IF mode = "rw" THEN 1 - bit ELSE IF mode = "w" THEN 0 ELSE bit

Execute(i) ==
  \/ /\ i.act = "h2d" /\ dev' = [dev EXCEPT ![i.frame] = slot[i.slot].buf]
     /\ UNCHANGED <<slot, token>>
  \/ /\ i.act = "d2h" /\ slot' = [slot EXCEPT ![i.slot].buf = dev[i.frame]]
     /\ UNCHANGED <<dev, token>>
  \/ /\ i.act = "skip" /\ UNCHANGED <<slot, dev, token>>
  \/ /\ i.act \in Mode
     /\ dev' = [dev EXCEPT ![i.frame] = Result(i.act, dev[i.frame])]
     /\ token' = (token /\ (i.act = "w" \/ dev[i.frame] = i.expect))
     /\ UNCHANGED slot

(* Each stream runs its work in the order it was submitted. *)
DeviceStep(d) ==
  /\ stream[d] # <<>>
  /\ Execute(Head(stream[d]))
  /\ stream' = [stream EXCEPT ![d] = Tail(@)]
  /\ UNCHANGED <<chunk, frame, host, written, queue, prefetched, target, todo,
                 got, trace, run, freed>>

-----------------------------------------------------------------------------
(* Retiring a transfer: finish_h2d and finish_d2h over query_event.        *)

EmptySlot(s) == [slot[s] EXCEPT !.key = None, !.spec = FALSE, !.evict = FALSE]

RetireNothing ==
  /\ At("retire")
  /\ \/ ~Busy(Now.slot)
     \/ Busy(Now.slot) /\ ~Complete(Now.slot) /\ ~Now.wait
  /\ Return
  /\ UNCHANGED <<chunk, frame, slot, stream, data, queue, prefetched, target, got,
                 trace, run, freed>>

(* The query fails, or the wait outlasts the stall timeout. *)
RetireStalls ==
  /\ At("retire") /\ Busy(Now.slot)
  /\ PoisonFault(slot[Now.slot].key)
  /\ UNCHANGED <<frame, slot, stream, data, queue, prefetched, target, got, trace, freed>>

(* The generation cannot be completed, or cuEventElapsedTime fails. *)
RetireRefused ==
  /\ At("retire") /\ Busy(Now.slot) /\ Complete(Now.slot)
  /\ LET k == slot[Now.slot].key IN
       \/ /\ ~chunk[k].open /\ Poison(k, "unsafe")
       \/ /\ chunk[k].open /\ FaultFail
          /\ chunk' = [chunk EXCEPT ![k].open = FALSE]
  /\ UNCHANGED <<frame, slot, stream, data, queue, prefetched, target, got, trace, freed>>

RetireH2d ==
  /\ At("retire") /\ Now.slot \in H2d /\ Busy(Now.slot) /\ Complete(Now.slot)
  /\ LET s == Now.slot
         k == slot[s].key IN
       /\ chunk[k].open /\ chunk[k].st = "h2d_in_flight"
       /\ chunk' = [chunk EXCEPT ![k].open = FALSE, ![k].staged = FALSE,
                                 ![k].st = "resident_clean"]
       /\ slot' = [slot EXCEPT ![s] = EmptySlot(s)]
  /\ Return
  /\ UNCHANGED <<frame, stream, data, queue, prefetched, target, got, trace, run, freed>>

(* The copied bytes are compared with what the CPU reference computed. *)
RetireD2h ==
  /\ At("retire") /\ Now.slot \in D2h /\ Busy(Now.slot) /\ Complete(Now.slot)
  /\ LET s == Now.slot
         k == slot[s].key IN
       /\ chunk[k].open /\ chunk[k].st = "d2h_in_flight"
       /\ IF host[k] # slot[s].buf
          THEN /\ Fail("mismatch")
               /\ chunk' = [chunk EXCEPT ![k].open = FALSE]
               /\ UNCHANGED <<slot, data>>
          ELSE /\ chunk' = [chunk EXCEPT ![k].open = FALSE, ![k].staged = FALSE,
                                         ![k].st = "resident_clean"]
               /\ host' = [host EXCEPT ![k] = slot[s].buf]
               /\ written' = written \ {k}
               /\ slot' = [slot EXCEPT ![s] = EmptySlot(s)]
               /\ Into(IF slot[s].evict THEN <<OfChunk("unmap", k)>> ELSE <<>>)
               /\ UNCHANGED <<run, dev, token>>
  /\ UNCHANGED <<frame, stream, queue, prefetched, target, got, trace, freed>>

-----------------------------------------------------------------------------
(* Eviction: evict_chunk, schedule_writeback, unmap_clean.                 *)

Evict ==
  /\ At("evict")
  /\ LET k == Now.key IN
       \/ /\ ~Eligible(k) /\ Poison(k, "unsafe")
       \/ /\ Eligible(k)
          /\ Into(<<OfChunk(IF chunk[k].st = "resident_dirty" THEN "writeback"
                            ELSE "unmap", k)>>)
          /\ UNCHANGED <<chunk, run>>
  /\ UNCHANGED <<frame, slot, stream, data, queue, prefetched, target, got, trace, freed>>

(* No slot is free: the slots are finished in order until one is.          *)
Writeback ==
  /\ At("writeback")
  /\ LET k == Now.key
         item(s) == [slot |-> s, key |-> k, frame |-> chunk[k].frame,
                     act |-> "d2h", expect |-> 0]
     IN
       \/ /\ ~(Eligible(k) /\ chunk[k].st = "resident_dirty") /\ Poison(k, "unsafe")
          /\ UNCHANGED <<slot, stream>>
       \/ /\ Eligible(k) /\ chunk[k].st = "resident_dirty" /\ FreeSlots(D2h) = {}
          /\ todo' = <<RetireCall(<<"d2h", 1>>, TRUE)>> \o todo
          /\ UNCHANGED <<chunk, slot, stream, run>>
       \/ /\ Eligible(k) /\ chunk[k].st = "resident_dirty" /\ FreeSlots(D2h) # {}
          /\ chunk' = [chunk EXCEPT ![k].st = "d2h_in_flight", ![k].staged = TRUE,
                                    ![k].open = TRUE]
          /\ LET s == <<"d2h", Least({t[2] : t \in FreeSlots(D2h)})>> IN
               \/ /\ slot' = [slot EXCEPT ![s].key = k, ![s].evict = TRUE]
                  /\ stream' = [stream EXCEPT !["d2h"] = Append(@, item(s))]
                  /\ Into(<<RetireCall(s, TRUE)>>) /\ UNCHANGED run
               \/ /\ FaultFail /\ UNCHANGED slot
                  /\ \/ UNCHANGED stream
                     \/ stream' = [stream EXCEPT !["d2h"] = Append(@, item(s))]
  /\ UNCHANGED <<frame, data, queue, prefetched, target, got, trace, freed>>

(* Taking one reported prefetch off the in-flight count.                   *)
Settled(p) == [owed |-> p.owed - 1,
               inFlight |-> IF p.inFlight # 0 THEN p.inFlight - 1 ELSE 0]

(* A failed cuMemUnmap gives up the handle; inside a drain the other chunks *)
(* are still visited.                                                       *)
Unmap ==
  /\ At("unmap")
  /\ LET k == Now.key
         f == chunk[k].frame IN
       \/ /\ ~(Eligible(k) /\ chunk[k].st = "resident_clean") /\ Poison(k, "unsafe")
          /\ UNCHANGED <<frame, prefetched>>
       \/ /\ Eligible(k) /\ chunk[k].st = "resident_clean"
          /\ chunk' = [chunk EXCEPT ![k].st = "host_clean", ![k].frame = None,
                                    ![k].spec = FALSE]
          /\ frame' = [frame EXCEPT ![f].key = None]
          /\ prefetched' = IF chunk[k].spec THEN Settled(prefetched) ELSE prefetched
          /\ Return /\ UNCHANGED run
       \/ /\ Eligible(k) /\ chunk[k].st = "resident_clean" /\ FaultLeft
          /\ chunk' = [chunk EXCEPT ![k].st = "evicting"]
          /\ frame' = [frame EXCEPT ![f].handle = FALSE]
          /\ LET noted == Quarantined(Faulted(Noted(run, "fault"))) IN
               IF \E i \in 2 .. Len(todo) : todo[i].op = "drained"
               THEN todo' = Tail(todo) /\ run' = [noted EXCEPT !.incomplete = TRUE]
               ELSE todo' = Unwound /\ run' = [noted EXCEPT !.phase = "closing"]
          /\ UNCHANGED prefetched
  /\ UNCHANGED <<slot, stream, data, queue, target, got, trace, freed>>

-----------------------------------------------------------------------------
(* A frame for a chunk: acquire_frame, create_handle, select_victim.       *)

(* A frame with memory and no chunk. *)
TakeSpare ==
  /\ At("acquire") /\ Spare # {}
  /\ got' = Least(Spare) /\ Return
  /\ UNCHANGED <<chunk, frame, slot, stream, data, queue, prefetched, target, trace,
                 run, freed>>

CreateCall(f, retry) == [op |-> "create", frame |-> f, retry |-> retry]

GrowPool ==
  /\ At("acquire") /\ Spare = {} /\ Live < target.cur
  /\ Into(<<CreateCall(Least({f \in Frame : ~frame[f].handle}), TRUE)>>)
  /\ UNCHANGED <<chunk, frame, slot, stream, data, queue, prefetched, target, got, trace,
                 run, freed>>

(* The driver is out of memory: the budget is observed again, the excess   *)
(* frames are released and the allocation is tried once more.              *)
Create ==
  /\ At("create")
  /\ LET f == Now.frame IN
       \/ /\ frame' = [frame EXCEPT ![f].handle = TRUE]
          /\ got' = f /\ Return /\ UNCHANGED run
       \/ /\ run.ooms < MaxOom /\ Now.retry
          /\ run' = [run EXCEPT !.ooms = @ + 1]
          /\ Into(<<Call("observe"), Call("excess"), CreateCall(f, FALSE)>>)
          /\ UNCHANGED <<frame, got>>
       \/ /\ run.ooms < MaxOom /\ ~Now.retry
          /\ todo' = Unwound
          /\ run' = [Failed(run, "oom") EXCEPT !.ooms = @ + 1]
          /\ UNCHANGED <<frame, got>>
       \/ FaultFail /\ UNCHANGED <<frame, got>>
  /\ UNCHANGED <<chunk, slot, stream, data, queue, prefetched, target, trace, freed>>

(* The policy's choice among the eligible chunks is left open.             *)
TakeVictim ==
  /\ At("acquire") /\ Spare = {} /\ Live >= target.cur
  /\ \/ \E v \in {k \in Chunk : Eligible(k)} :
          /\ got' = chunk[v].frame
          /\ Into(<<OfChunk("evict", v)>>)
          /\ UNCHANGED run
     \/ /\ \A k \in Chunk : ~Eligible(k)
        /\ Fail("no victim") /\ UNCHANGED got
  /\ UNCHANGED <<chunk, frame, slot, stream, data, queue, prefetched, target, trace, freed>>

-----------------------------------------------------------------------------
(* map_chunk: map at the stable address, then upload through a slot.       *)

Mappable(k) ==
  /\ frame[got].handle /\ frame[got].key = None /\ chunk[k].frame = None
  /\ chunk[k].st \in {"host_clean", "prefetch_queued"}

Map ==
  /\ At("map")
  /\ queue' = IF Now.spec THEN Tail(queue) ELSE queue
  /\ LET k == Now.key IN
       \/ ~Mappable(k) /\ Poison(k, "unsafe") /\ UNCHANGED frame
       \/ /\ Mappable(k)
          /\ chunk' = [chunk EXCEPT ![k].st = "mapping", ![k].spec = Now.spec,
                                    ![k].frame = got]
          /\ frame' = [frame EXCEPT ![got].key = k]
          /\ \/ Into(<<[Now EXCEPT !.op = "submit"]>>) /\ UNCHANGED run
             \/ /\ FaultLeft /\ todo' = Unwound  \* the access rights are not set
                /\ run' = Quarantined(Faulted(Failed(run, "fault")))
       \/ /\ Mappable(k) /\ FaultFail            \* cuMemMap fails
          /\ chunk' = [chunk EXCEPT ![k].st = "mapping", ![k].spec = Now.spec]
          /\ UNCHANGED frame
  /\ UNCHANGED <<slot, stream, data, prefetched, target, got, trace, freed>>

(* A demand upload waits for its slot; a speculative one is left running.  *)
Submit ==
  /\ At("submit")
  /\ LET k == Now.key
         s == <<"h2d", Least({t[2] : t \in FreeSlots(H2d)})>>
         item == [slot |-> s, key |-> k, frame |-> chunk[k].frame,
                  act |-> IF Now.needs THEN "h2d" ELSE "skip", expect |-> 0]
     IN \/ /\ FreeSlots(H2d) = {}
           /\ todo' = <<RetireCall(<<"h2d", 1>>, TRUE)>> \o todo
           /\ UNCHANGED <<chunk, slot, stream, run>>
        \/ /\ FreeSlots(H2d) # {}
           /\ chunk' = [chunk EXCEPT ![k].st = "h2d_in_flight", ![k].staged = TRUE,
                                     ![k].open = TRUE]
           /\ slot' = [slot EXCEPT ![s].key = k, ![s].spec = Now.spec,
                                   ![s].buf = IF Now.needs THEN host[k] ELSE @]
           /\ stream' = [stream EXCEPT !["h2d"] = Append(@, item)]
           /\ Into(IF Now.spec THEN <<>> ELSE <<RetireCall(s, TRUE)>>)
           /\ UNCHANGED run
        \/ /\ FreeSlots(H2d) # {} /\ FaultFail
           /\ chunk' = [chunk EXCEPT ![k].st = "h2d_in_flight", ![k].staged = TRUE,
                                     ![k].open = TRUE]
           /\ slot' = [slot EXCEPT ![s].buf = IF Now.needs THEN host[k] ELSE @]
           /\ stream' \in {stream, [stream EXCEPT !["h2d"] = Append(@, item)]}
  /\ UNCHANGED <<frame, data, queue, prefetched, target, got, trace, freed>>

-----------------------------------------------------------------------------
(* One access: ensure_resident with promote_prefetch, launch_kernel,       *)
(* apply_cpu_reference, finish_compute.                                    *)

OfAccess(op, k, m) == [op |-> op, key |-> k, mode |-> m]
ComputeCalls(k, m) ==
  <<OfAccess("launch", k, m), OfAccess("reference", k, m), OfChunk("finish", k)>>
DemandCalls(k, m) == <<Call("acquire"), MapCall(k, FALSE, m # "w")>>
UsefulCall(k) == OfChunk("useful", k)

Access ==
  /\ At("access")
  /\ LET k == Now.key
         m == Now.mode IN
       \/ /\ chunk[k].st = "host_clean"
          /\ Into(DemandCalls(k, m) \o ComputeCalls(k, m))
          /\ UNCHANGED <<chunk, queue, run>>
       \/ /\ chunk[k].st = "prefetch_queued"
          /\ queue' = SelectSeq(queue, LAMBDA q : q # k)
          /\ Into(DemandCalls(k, m) \o <<UsefulCall(k)>> \o ComputeCalls(k, m))
          /\ UNCHANGED <<chunk, run>>
       \/ \E s \in H2d :
            /\ chunk[k].st = "h2d_in_flight" /\ slot[s].key = k
            /\ Into(<<RetireCall(s, TRUE), UsefulCall(k)>> \o ComputeCalls(k, m))
            /\ UNCHANGED <<chunk, queue, run>>
       \/ /\ chunk[k].st = "h2d_in_flight" /\ \A s \in H2d : slot[s].key # k
          /\ Poison(k, "unsafe") /\ UNCHANGED queue
       \/ /\ chunk[k].st \in {"resident_clean", "resident_dirty"}
          /\ Into((IF chunk[k].spec THEN <<UsefulCall(k)>> ELSE <<>>) \o ComputeCalls(k, m))
          /\ UNCHANGED <<chunk, queue, run>>
  /\ UNCHANGED <<frame, slot, stream, data, prefetched, target, got, trace, freed>>

Useful ==
  /\ At("useful")
  /\ chunk' = [chunk EXCEPT ![Now.key].spec = FALSE]
  /\ prefetched' = Settled(prefetched)
  /\ Return
  /\ UNCHANGED <<frame, slot, stream, data, queue, target, got, trace, run, freed>>

(* A launch may fail before or after the kernel is on the stream.          *)
Launch ==
  /\ At("launch")
  /\ LET k == Now.key
         safe == chunk[k].st \in {"resident_clean", "resident_dirty"} /\ ~chunk[k].pin
         item == [slot |-> None, key |-> k, frame |-> chunk[k].frame,
                  act |-> Now.mode, expect |-> host[k]]
         submitted == [stream EXCEPT !["compute"] = Append(@, item)]
         writes == IF Now.mode = "r" THEN written ELSE written \union {k}
     IN \/ ~safe /\ Poison(k, "unsafe") /\ UNCHANGED <<stream, written>>
        \/ /\ safe
           /\ chunk' = [chunk EXCEPT ![k].pin = TRUE, ![k].open = TRUE,
                ![k].st = IF Now.mode = "r" THEN @ ELSE "resident_dirty"]
           /\ stream' = submitted /\ written' = writes
           /\ Return /\ UNCHANGED run
        \/ /\ safe /\ FaultFail
           /\ chunk' = [chunk EXCEPT ![k].pin = TRUE, ![k].open = TRUE]
           /\ \/ stream' = submitted /\ written' = writes
              \/ UNCHANGED <<stream, written>>
  /\ UNCHANGED <<frame, slot, host, dev, token, queue, prefetched, target, got, trace, freed>>

Reference ==
  /\ At("reference")
  /\ host' = [host EXCEPT ![Now.key] = Result(Now.mode, host[Now.key])]
  /\ Return
  /\ UNCHANGED <<chunk, frame, slot, stream, dev, written, token, queue, prefetched,
                 target, got, trace, run, freed>>

(* The event fails or stalls; its time cannot be read; the kernel took too *)
(* long, which is a failure of a retired access.                           *)
Finish ==
  /\ At("finish")
  /\ LET k == Now.key
         retired == [chunk EXCEPT ![k].open = FALSE, ![k].pin = FALSE] IN
       \/ /\ stream["compute"] = <<>> /\ chunk' = retired
          /\ (Return /\ UNCHANGED run) \/ FaultFail
       \/ /\ stream["compute"] = <<>> /\ FaultFail
          /\ chunk' = [chunk EXCEPT ![k].open = FALSE]
       \/ PoisonFault(k)
  /\ UNCHANGED <<frame, slot, stream, data, queue, prefetched, target, got, trace, freed>>

-----------------------------------------------------------------------------
(* Speculation: prefetch and schedule_pending_prefetches.                  *)

(* The next distinct chunks of the trace, at most Distance of them.        *)
Distinct(s) ==
  SelectSeq([i \in 1 .. Len(s) |-> IF \E j \in 1 .. i - 1 : s[j] = s[i] THEN 0 ELSE s[i]],
            LAMBDA k : k # 0)
FirstOf(s, n) == SubSeq(s, 1, IF Len(s) < n THEN Len(s) ELSE n)
Lookahead == FirstOf(Distinct(trace), Distance)

Speculating == Cardinality({s \in H2d : Busy(s) /\ slot[s].spec})

Prefetch ==
  /\ At("prefetch")
  /\ LET keys == Now.keys
         wanted == {keys[i] : i \in DOMAIN keys}
         stale == {k \in Chunk : chunk[k].st = "prefetch_queued" /\ k \notin wanted
                                   /\ \E i \in DOMAIN queue : queue[i] = k}
         kept == SelectSeq(queue, LAMBDA k : k \in wanted)
         fresh == SelectSeq(keys, LAMBDA k : chunk[k].st = "host_clean")
         room == HSlots - (Len(kept) + Speculating)
         added == FirstOf(fresh, IF room < 0 THEN 0 ELSE room)
         new == {added[i] : i \in DOMAIN added}
         change == Len(added) - Cardinality(stale)
     IN /\ chunk' = [k \in Chunk |->
             CASE k \in new -> [chunk[k] EXCEPT !.st = "prefetch_queued", !.spec = TRUE]
               [] k \in stale -> [chunk[k] EXCEPT !.st = "host_clean", !.spec = FALSE]
               [] OTHER -> chunk[k]]
        /\ queue' = kept \o added
        /\ prefetched' = [owed |-> prefetched.owed + change,
                          inFlight |-> prefetched.inFlight + change]
  /\ Into(<<Call("schedule")>>)
  /\ UNCHANGED <<frame, slot, stream, data, target, got, trace, run, freed>>

(* A request is taken up while a slot is free and a frame can be had.      *)
Reachable == Spare # {} \/ Live < target.cur \/ \E k \in Chunk : Eligible(k)

Schedule ==
  /\ At("schedule")
  /\ LET open == queue # <<>> /\ FreeSlots(H2d) # {} IN
       \/ /\ open => chunk[Head(queue)].st = "prefetch_queued" /\ ~Reachable
          /\ Return /\ UNCHANGED queue
       \/ /\ open /\ chunk[Head(queue)].st # "prefetch_queued"
          /\ queue' = Tail(queue) /\ UNCHANGED todo
       \/ /\ open /\ chunk[Head(queue)].st = "prefetch_queued" /\ Reachable
          /\ todo' = <<Call("acquire"), MapCall(Head(queue), TRUE, TRUE)>> \o todo
          /\ UNCHANGED queue
  /\ UNCHANGED <<chunk, frame, slot, stream, data, prefetched, target, got, trace, run, freed>>

-----------------------------------------------------------------------------
(* The live budget: observe_budget over calculate_budget_target and        *)
(* observe_safe_target, shrink_to, release_excess_handles.                 *)

Less(a, b) == IF a < b THEN a ELSE b
SafeTarget(free) ==
  LET limit == Less(Cap, free + Live)
  IN IF limit > Headroom THEN limit - Headroom ELSE 0
Minimum == 2

(* poll: the interval since the last sample may not be over.               *)
Sample ==
  /\ At("sample")
  /\ Return \/ Into(<<Call("observe")>>)
  /\ UNCHANGED <<chunk, frame, slot, stream, data, queue, prefetched, target, got, trace,
                 run, freed>>

Observe ==
  /\ At("observe")
  /\ \/ \E free \in FreeSamples :
          LET safe == SafeTarget(free)
              surplus == safe - target.cur
              samples == target.samples + 1 IN
            \/ /\ safe < Minimum /\ Fail("budget")
               /\ target' = [cur |-> safe, samples |-> 0]
            \/ /\ safe >= Minimum /\ surplus < 0
               /\ target' = [cur |-> safe, samples |-> 0]
               /\ Into(RetireAll(TRUE) \o <<Call("shrink"), Call("excess")>>)
               /\ UNCHANGED run
            \/ /\ safe >= Minimum /\ surplus >= 0
               /\ target' = IF surplus < GrowthReserve THEN [target EXCEPT !.samples = 0]
                            ELSE IF samples < SafeSamples
                            THEN [target EXCEPT !.samples = samples]
                            ELSE [cur |-> target.cur + Less(surplus, GrowthStep),
                                  samples |-> 0]
               /\ Return /\ UNCHANGED run
     \/ FaultFail /\ UNCHANGED target
  /\ UNCHANGED <<chunk, frame, slot, stream, data, queue, prefetched, got, trace, freed>>

Shrink ==
  /\ At("shrink")
  /\ \/ Resident <= target.cur /\ Return /\ UNCHANGED run
     \/ /\ Resident > target.cur
        /\ \E v \in {k \in Chunk : Eligible(k)} :
             todo' = <<OfChunk("evict", v)>> \o todo
        /\ UNCHANGED run
     \/ /\ Resident > target.cur /\ \A k \in Chunk : ~Eligible(k)
        /\ Fail("no victim")
  /\ UNCHANGED <<chunk, frame, slot, stream, data, queue, prefetched, target, got, trace, freed>>

(* Spare frames are given back from the last one on.                       *)
Excess ==
  /\ At("excess")
  /\ LET surplus == Live - target.cur
         last(f) == Cardinality({g \in Spare : g >= f}) <= surplus IN
       \/ /\ surplus > Cardinality(Spare) /\ Fail("no victim") /\ UNCHANGED frame
       \/ /\ surplus <= Cardinality(Spare) /\ Return /\ UNCHANGED run
          /\ frame' = [f \in Frame |-> IF f \in Spare /\ last(f)
                                       THEN [frame[f] EXCEPT !.handle = FALSE] ELSE frame[f]]
       \/ surplus > 0 /\ FaultFail /\ UNCHANGED frame
  /\ UNCHANGED <<chunk, slot, stream, data, queue, prefetched, target, got, trace, freed>>

(* acquire_pressure and release_pressure around memory the cache does not own. *)
Pressure ==
  /\ At("pressure")
  /\ \/ /\ run.pressure = "never"
        /\ run' = [run EXCEPT !.pressure = "held"] /\ Into(<<Call("observe")>>)
     \/ /\ run.pressure = "held"
        /\ run' = [run EXCEPT !.pressure = "gone"]
        /\ Into([i \in 1 .. SafeSamples |-> Call("observe")])
     \/ FaultFail
  /\ UNCHANGED <<chunk, frame, slot, stream, data, queue, prefetched, target, got, trace, freed>>

-----------------------------------------------------------------------------
(* drain.                                                                  *)

(* A kernel whose time could not be read: its slot is still busy.          *)
Unretired == {k \in Chunk : chunk[k].pin /\ ~chunk[k].open}

(* finish_compute comes first: it finds the generation already completed,  *)
(* or its query fails.                                                     *)
Drain ==
  /\ At("drain")
  /\ \/ run.poisoned /\ Fail("poisoned") /\ UNCHANGED chunk
     \/ /\ ~run.poisoned
        /\ \E k \in Unretired : Poison(k, "unsafe") \/ PoisonFault(k)
     \/ /\ ~run.poisoned /\ Unretired = {}
        /\ Into(RetireAll(TRUE) \o <<Call("cancel")>>
             \o (IF Now.release THEN <<Call("unmapAll")>> ELSE <<>>))
        /\ run' = [run EXCEPT !.incomplete = FALSE]
        /\ UNCHANGED chunk
  /\ UNCHANGED <<frame, slot, stream, data, queue, prefetched, target, got, trace, freed>>

Cancel ==
  /\ At("cancel")
  /\ LET queued == {k \in Chunk : chunk[k].st = "prefetch_queued"
                                    /\ \E i \in DOMAIN queue : queue[i] = k} IN
       /\ chunk' = [k \in Chunk |-> IF k \in queued
            THEN [chunk[k] EXCEPT !.st = "host_clean", !.spec = FALSE] ELSE chunk[k]]
       /\ prefetched' = [owed |-> prefetched.owed - Cardinality(queued),
                         inFlight |-> prefetched.inFlight - Cardinality(queued)]
  /\ queue' = <<>>
  /\ Return
  /\ UNCHANGED <<frame, slot, stream, data, target, got, trace, run, freed>>

UnmapAll ==
  /\ At("unmapAll")
  /\ Into(ForEach("drainOne", Ascending(Mapped)) \o <<Call("drained")>>)
  /\ UNCHANGED <<chunk, frame, slot, stream, data, queue, prefetched, target, got, trace,
                 run, freed>>

DrainOne ==
  /\ At("drainOne")
  /\ LET k == Now.key IN
       \/ /\ chunk[k].st = "resident_dirty" /\ Into(<<OfChunk("evict", k)>>)
          /\ UNCHANGED <<chunk, run>>
       \/ /\ chunk[k].st = "resident_clean" /\ Into(<<OfChunk("unmap", k)>>)
          /\ UNCHANGED <<chunk, run>>
       \/ /\ chunk[k].st = "evicting" /\ run.quarantine
          /\ Return /\ run' = [run EXCEPT !.incomplete = TRUE] /\ UNCHANGED chunk
       \/ /\ chunk[k].st \notin {"resident_dirty", "resident_clean", "evicting"}
          /\ Poison(k, "unsafe")
  /\ UNCHANGED <<frame, slot, stream, data, queue, prefetched, target, got, trace, freed>>

(* The drain of close is the one the ledger remembers.                     *)
Drained ==
  /\ At("drained")
  /\ \/ run.incomplete /\ Fail("fault")
     \/ /\ ~run.incomplete /\ Return
        /\ run' = [run EXCEPT !.drained = (run.phase = "closing")]
  /\ UNCHANGED <<chunk, frame, slot, stream, data, queue, prefetched, target, got, trace, freed>>

-----------------------------------------------------------------------------
(* run_workload.                                                           *)

(* reset_backing and prepare_tokens; the token buffer is cleared through   *)
(* the first upload slot.                                                  *)
Begin ==
  /\ todo = <<>> /\ run.phase = "idle" /\ run.left > 0
  /\ trace' \in [1 .. Ops -> Chunk]
  /\ run' = [run EXCEPT !.phase = "run", !.left = @ - 1]
  /\ todo' = DrainCalls(TRUE) \o <<Call("reset")>> \o DrainCalls(FALSE) \o <<Call("tokens")>>
  /\ UNCHANGED <<chunk, frame, slot, stream, data, queue, prefetched, target, got, freed>>

Reset ==
  /\ At("reset")
  /\ host' = [k \in Chunk |-> 0]
  /\ Return
  /\ UNCHANGED <<chunk, frame, slot, stream, dev, written, token, queue, prefetched,
                 target, got, trace, run, freed>>

Tokens ==
  /\ At("tokens")
  /\ (Return /\ UNCHANGED run) \/ FaultFail
  /\ slot' = [slot EXCEPT ![<<"h2d", 1>>].buf = 0]
  /\ UNCHANGED <<chunk, frame, stream, data, queue, prefetched, target, got, trace, freed>>

Operation ==
  /\ todo = <<>> /\ run.phase = "run" /\ trace # <<>>
  /\ \/ /\ \E m \in Mode :
             todo' = PollCalls \o <<OfAccess("access", Head(trace), m), Call("lookahead")>>
        /\ trace' = Tail(trace)
     \/ /\ run.pressure # "gone"
        /\ todo' = PollCalls \o <<Call("pressure")>>
        /\ UNCHANGED trace
  /\ UNCHANGED <<chunk, frame, slot, stream, data, queue, prefetched, target, got, run, freed>>

LookAhead ==
  /\ At("lookahead")
  /\ Into(<<[op |-> "prefetch", keys |-> Lookahead]>>)
  /\ UNCHANGED <<chunk, frame, slot, stream, data, queue, prefetched, target, got, trace,
                 run, freed>>

(* collect_tokens, verify_and_flush and the audit that reuses a handle.    *)
EndWorkload ==
  /\ todo = <<>> /\ run.phase = "run" /\ trace = <<>>
  /\ \E audit \in {<<>>, <<[op |-> "prefetch", keys |-> <<1>>]>> \o DrainCalls(TRUE)} :
       todo' = DrainCalls(FALSE) \o <<Call("collect")>> \o DrainCalls(TRUE) \o audit
                 \o <<Call("verified")>>
  /\ UNCHANGED <<chunk, frame, slot, stream, data, queue, prefetched, target, got, trace,
                 run, freed>>

Collect ==
  /\ At("collect")
  /\ \/ token /\ Return /\ UNCHANGED run
     \/ ~token /\ Fail("mismatch")
     \/ FaultFail
  /\ UNCHANGED <<chunk, frame, slot, stream, data, queue, prefetched, target, got, trace, freed>>

(* The next workload, or the end: run_executor has its proof.              *)
Verified ==
  /\ At("verified")
  /\ IF run.left > 0
     THEN Return /\ run' = [run EXCEPT !.phase = "idle"]
     ELSE todo' = CloseCalls /\ run' = [run EXCEPT !.phase = "closing", !.verified = TRUE]
  /\ UNCHANGED <<chunk, frame, slot, stream, data, queue, prefetched, target, got, trace, freed>>

-----------------------------------------------------------------------------
(* close and the finish of run_executor.                                   *)

Sync ==
  /\ At("sync") /\ Return
  /\ \/ \A d \in DOMAIN stream : stream[d] = <<>>
        /\ UNCHANGED run
     \/ FaultLeft /\ run' = [Quarantined(Faulted(run)) EXCEPT !.synced = FALSE]
  /\ UNCHANGED <<chunk, frame, slot, stream, data, queue, prefetched, target, got, trace, freed>>

(* Every mapping is visited when the streams are known to be empty.        *)
Salvage ==
  /\ At("salvage")
  /\ Into(IF run.synced /\ Mapped # {}
          THEN ForEach("salvageOne", Ascending(Mapped)) \o <<Call("sync")>> ELSE <<>>)
  /\ UNCHANGED <<chunk, frame, slot, stream, data, queue, prefetched, target, got, trace,
                 run, freed>>

(* What cannot be removed is left to the destruction of the context.       *)
SalvageOne ==
  /\ At("salvageOne")
  /\ LET k == Now.key IN
       \/ /\ chunk[k].frame = None \/ chunk[k].st \in {"evicting", "poisoned"}
          /\ Return /\ UNCHANGED run
       \/ /\ chunk[k].st = "resident_clean" /\ Eligible(k)
          /\ Into(<<OfChunk("unmap", k)>>) /\ UNCHANGED run
       \/ /\ chunk[k].st = "resident_dirty" /\ Eligible(k) /\ ~run.poisoned
          /\ Into(<<OfChunk("evict", k)>>) /\ UNCHANGED run
       \/ /\ chunk[k].frame # None /\ chunk[k].st \notin {"evicting", "poisoned"}
          /\ ~Eligible(k) \/ (chunk[k].st = "resident_dirty" /\ run.poisoned)
          /\ Return /\ run' = Quarantined(run)
  /\ UNCHANGED <<chunk, frame, slot, stream, data, queue, prefetched, target, got, trace, freed>>

(* The resource ledger: nothing the device may touch is given back unless  *)
(* the streams are empty, and a quarantined run keeps its addresses.       *)
Settle ==
  /\ At("settle") /\ Return
  /\ \E bad \in {{}} \union (IF FaultLeft THEN {{x} : x \in Kinds} ELSE {}) :
       LET synced == IF run.synced THEN Kinds ELSE {"context"}
           unmapped == \A f \in Frame : frame[f].key = None
           held == \E f \in Frame : frame[f].key # None /\ frame[f].handle
           quarantine == run.quarantine \/ ~unmapped \/ "device" \in bad
           kept == bad \union (IF held THEN {"handles"} ELSE {})
                       \union (IF quarantine THEN {"reservation"} ELSE {})
           r == [run EXCEPT !.phase = "closed", !.quarantine = quarantine,
                            !.faults = @ + Cardinality(bad)]
       IN /\ freed' = synced \ kept
          /\ frame' = IF run.synced /\ "handles" \notin bad
                      THEN [f \in Frame |-> IF frame[f].key = None
                              THEN [frame[f] EXCEPT !.handle = FALSE] ELSE frame[f]]
                      ELSE frame
          /\ run' = [r EXCEPT !.outcome =
               IF /\ run.verified /\ run.failure = "none" /\ run.drained
                  /\ prefetched.owed = prefetched.inFlight /\ freed' = Kinds
               THEN "completed" ELSE "failed"]
  /\ UNCHANGED <<chunk, slot, stream, data, queue, prefetched, target, got, trace>>

-----------------------------------------------------------------------------
Init ==
  /\ chunk = [k \in Chunk |-> [st |-> "host_clean", frame |-> None, spec |-> FALSE,
                               pin |-> FALSE, open |-> FALSE, staged |-> FALSE]]
  /\ frame = [f \in Frame |-> [handle |-> FALSE, key |-> None]]
  /\ slot = [s \in Slot |-> [key |-> None, spec |-> FALSE, evict |-> FALSE, buf |-> 0]]
  /\ stream = [d \in {"h2d", "compute", "d2h"} |-> <<>>]
  /\ host = [k \in Chunk |-> 0]
  /\ dev = [f \in Frame |-> 1]
  /\ written = {} /\ token = TRUE
  /\ queue = <<>> /\ prefetched = [owed |-> 0, inFlight |-> 0]
  /\ \E free \in FreeSamples :
       /\ Less(Cap, free) - Headroom >= Minimum
       /\ target = [cur |-> Less(Cap, free) - Headroom, samples |-> 0]
  /\ todo = <<>> /\ got = 1 /\ trace = <<>>
  /\ run = [phase |-> "idle", failure |-> "none", outcome |-> "none",
            poisoned |-> FALSE, quarantine |-> FALSE, incomplete |-> FALSE,
            drained |-> FALSE, synced |-> TRUE, verified |-> FALSE,
            pressure |-> "never", left |-> Workloads, faults |-> 0, ooms |-> 0]
  /\ freed = {}

(* Nothing is left to do: the executor has returned.                       *)
Stopped == run.phase = "closed" /\ todo = <<>> /\ UNCHANGED vars

Thread ==
  \/ RetireNothing \/ RetireStalls \/ RetireRefused \/ RetireH2d \/ RetireD2h
  \/ Evict \/ Writeback \/ Unmap
  \/ TakeSpare \/ GrowPool \/ Create \/ TakeVictim \/ Map \/ Submit
  \/ Access \/ Useful \/ Launch \/ Reference \/ Finish
  \/ LookAhead \/ Prefetch \/ Schedule
  \/ Sample \/ Observe \/ Shrink \/ Excess \/ Pressure
  \/ Drain \/ Cancel \/ UnmapAll \/ DrainOne \/ Drained
  \/ Begin \/ Reset \/ Tokens \/ Operation \/ EndWorkload \/ Collect \/ Verified
  \/ Sync \/ Salvage \/ SalvageOne \/ Settle

Next == Thread \/ Stopped \/ \E d \in DOMAIN stream : DeviceStep(d)

Spec == Init /\ [][Next]_vars

-----------------------------------------------------------------------------
TypeOK ==
  /\ \A k \in Chunk : chunk[k].frame \in Frame \union {None}
  /\ \A f \in Frame : frame[f].key \in Chunk \union {None}
  /\ \A s \in Slot : slot[s].key \in Chunk \union {None} /\ slot[s].buf \in {0, 1}
  /\ host \in [Chunk -> {0, 1}] /\ dev \in [Frame -> {0, 1}]
  /\ written \subseteq Chunk /\ token \in BOOLEAN
  /\ prefetched \in [owed : Nat, inFlight : Nat]
  /\ target.cur \in 0 .. Cap /\ target.samples \in 0 .. SafeSamples
  /\ got \in Frame /\ freed \subseteq Kinds

Quiet == todo = <<>> /\ run.failure = "none"

(* Whatever is still running on the device finds the chunk mapped where it *)
(* was submitted, on memory that was not given back, and its staging and   *)
(* streams alive: after a failed event record, a stall, an unwound stack   *)
(* or a partial close (map_chunk, unmap_clean, close).                     *)
DeviceWorkIsSafe ==
  \A i \in Items :
    /\ frame[i.frame].handle /\ frame[i.frame].key = i.key
    /\ freed \intersect {"pinned", "streams", "events", "backing"} = {}

(* The bytes of an upload stay in their pinned slot until the device has   *)
(* read them.  (A download that failed half-way may share its slot with a  *)
(* later one of close: its stream orders the two.)                         *)
UploadStagingExclusive ==
  LET h2d == stream["h2d"] IN
    /\ \A i, j \in DOMAIN h2d : i # j => h2d[i].slot # h2d[j].slot
    /\ \A i \in DOMAIN h2d : h2d[i].act = "h2d" /\ run.phase = "run" =>
         slot[h2d[i].slot].key = h2d[i].key

(* Between two operations, what the device holds of a resident chunk is    *)
(* what the CPU reference computed, through evictions, skipped uploads     *)
(* and prefetches that are promoted half-way.                              *)
ResidentIsReference ==
  Quiet => \A k \in Chunk :
             chunk[k].st \in {"resident_clean", "resident_dirty"} =>
               dev[chunk[k].frame] = host[k]

(* No write-back and no token ever differs from the CPU reference, also    *)
(* in the write-backs of close after a failure (finish_d2h).               *)
NeverDiffers == run.failure # "mismatch" /\ token

(* What a kernel wrote stays on the device until it was copied back.       *)
WritesReachTheHost == \A k \in written : chunk[k].frame # None

(* issued = useful + wasted + cancelled + in_flight (reconcile_metrics),   *)
(* and the prefetches in flight are the chunks marked speculative.         *)
PrefetchesAccounted ==
  /\ prefetched.owed = prefetched.inFlight
  /\ Quiet => prefetched.owed = Cardinality({k \in Chunk : chunk[k].spec})

(* The queue holds exactly the chunks that wait for an upload, once each.  *)
QueueMatchesChunks ==
  Quiet =>
    /\ {queue[i] : i \in DOMAIN queue} = {k \in Chunk : chunk[k].st = "prefetch_queued"}
    /\ \A i, j \in DOMAIN queue : i # j => queue[i] # queue[j]

(* A chunk and its frame name each other.                                  *)
FramesLinked ==
  \A k \in Chunk, f \in Frame : chunk[k].frame = f <=> frame[f].key = k

(* Without failing driver calls the manager never trips over its own       *)
(* checks and never finds every frame taken (poison, acquire_frame).       *)
NoFailureOfItsOwn ==
  run.faults = 0 => run.failure \notin {"unsafe", "no victim", "mismatch", "poisoned"}

(* Where memory is not short either, the run completes.                    *)
CompletesWithoutFaults ==
  run.phase = "closed" /\ run.faults = 0 /\ run.ooms = 0 /\ run.failure # "budget"
    => run.outcome = "completed"

(* "cache target respected": between operations the pool is no larger than *)
(* the live target.                                                        *)
PoolWithinTarget == Quiet => Live <= target.cur

(* A completed run gave everything back and left nothing on the device.    *)
CompletedMeansClean ==
  run.outcome = "completed" =>
    /\ freed = Kinds /\ Items = {} /\ written = {}
    /\ \A f \in Frame : ~frame[f].handle /\ frame[f].key = None
    /\ \A k \in Chunk : chunk[k].st = "host_clean"

(* The address range outlives every mapping in it.                         *)
RangeOutlivesMappings ==
  "reservation" \in freed => \A f \in Frame : frame[f].key = None
=============================================================================
