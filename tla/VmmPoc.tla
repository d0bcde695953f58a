------------------------------- MODULE VmmPoc -------------------------------
(***************************************************************************)
(* The virtual memory proof of concept (src/vmm_poc/executor.cpp).         *)
(*                                                                         *)
(* A logical array of Tiles is swept Passes times through a window of      *)
(* Slots.  A slot owns one physical handle, one pinned staging buffer and  *)
(* six events.  Visiting a tile maps the slot's handle at the tile's fixed *)
(* address, copies the tile in, transforms it and copies it back, all      *)
(* asynchronously; the host retires the slot when its last event is done,  *)
(* checks the words against the CPU, stores them in the pageable backing   *)
(* and unmaps.  The reference mode uses one stream and one slot, the       *)
(* pipeline mode three streams and every slot.  When anything fails, the   *)
(* pipeline drains what it launched and the cleanup takes the resources    *)
(* down without touching memory the device may still use.                  *)
(*                                                                         *)
(* A tile's data is the number of passes applied to it, or Junk.           *)
(***************************************************************************)
EXTENDS Integers, Sequences, FiniteSets

CONSTANTS N,           \* window_slots: slots 1..N
          Tiles,       \* logical_chunk_count: tiles 0..Tiles-1
          Passes,      \* options.passes
          Requested,   \* options.mode: "reference", "pipeline" or "both"
          MaxFaults    \* bound: how many calls may fail in one execution

VmmPocAssumption ==
  /\ N \in Nat \ {0} /\ Tiles \in Nat \ {0} /\ Passes \in Nat \ {0}
  /\ Requested \in {"reference", "pipeline", "both"}
  /\ Requested = "reference" \/ N >= 2
  /\ MaxFaults \in Nat

Slots == 1..N
Tile == 0..(Tiles - 1)
Junk == -1
Data == Junk..Passes
Stream == {"reference", "h2d", "compute", "d2h"}

VARIABLES slot,      \* SlotResources: its mapping and its event bookkeeping
          frame,     \* what the slot's physical memory holds
          pinned,    \* what the slot's staging buffer holds
          backing,   \* the pageable array, tile by tile
          stream,    \* device work submitted and not finished, per stream
          run,       \* the host's loop: mode, pass, next tile, window
          res,       \* the CUDA and host resources that exist
          result,    \* first failure, exit code, safety statistics
          ledger,    \* the CleanupLedger
          faults     \* how many faults have been injected

vars == <<slot, frame, pinned, backing, stream, run, res, result, ledger, faults>>

FreshSlot == [used |-> FALSE, again |-> FALSE, mapped |-> FALSE, busy |-> FALSE,
              submitted |-> FALSE, recorded |-> FALSE, boundary |-> FALSE,
              tile |-> 0]
CleanLedger == [drained |-> TRUE, mappings |-> TRUE, handles |-> TRUE,
                reservation |-> TRUE, objects |-> TRUE, pinned |-> TRUE,
                context |-> TRUE, backing |-> TRUE]

(***************************************************************************)
(* What create_resources has built after c calls: the context, the         *)
(* backing, the module, the reservation, then a handle and a staging       *)
(* buffer for each slot, then the events and streams.                      *)
(***************************************************************************)
SetupCalls == 4 + 2 * N
Built(c) ==
  [context |-> c >= 1, backing |-> c >= 2, objects |-> c >= 3,
   reservation |-> c >= 4, handles |-> {s \in Slots : c >= 3 + 2 * s},
   pinned |-> {s \in Slots : c >= 4 + 2 * s}]

Faulty == faults < MaxFaults /\ faults' = faults + 1
FaultyIf(bad) == IF bad THEN Faulty ELSE faults' = faults

(* record_failure keeps the first failure. *)
Failed(r, code) == IF r.failure = "none" THEN [r EXCEPT !.failure = code, !.exit = code] ELSE r

Init ==
  /\ slot = [s \in Slots |-> FreshSlot]
  /\ frame = [s \in Slots |-> Junk] /\ pinned = [s \in Slots |-> Junk]
  /\ backing = [t \in Tile |-> Junk]
  /\ stream = [q \in Stream |-> <<>>]
  /\ run = [pc |-> "setup", mode |-> "none", pass |-> 0, next |-> 0, free |-> <<>>,
            fifo |-> <<>>, previous |-> 0, stop |-> FALSE]
  /\ res = Built(0) /\ ledger = CleanLedger /\ faults = 0
  /\ result = [failure |-> "none", exit |-> "failure", unsafe |-> FALSE,
               quarantined |-> FALSE, unmatched |-> 0, reused |-> FALSE,
               unproved |-> FALSE, dma |-> FALSE]

----------------------------------------------------------------------------
(* Setup and the beginning of a mode *)

FreeSlots(mode) == IF mode = "reference" THEN <<1>> ELSE [i \in 1..N |-> N + 1 - i]

(* reset_backing, the mode's statistics and its window. *)
Begin(mode) ==
  /\ run' = [pc |-> "run", mode |-> mode, pass |-> 0, next |-> 0,
             free |-> FreeSlots(mode), fifo |-> <<>>, previous |-> 0, stop |-> FALSE]
  /\ backing' = [t \in Tile |-> 0]
  /\ slot' = [s \in Slots |-> [slot[s] EXCEPT !.again = FALSE]]

Setup ==
  /\ run.pc = "setup"
  /\ \E c \in 0..SetupCalls, ok \in BOOLEAN :
       /\ c < SetupCalls => ~ok
       /\ FaultyIf(~ok)
       /\ res' = Built(c)
       /\ IF ok
            THEN Begin(IF Requested = "pipeline" THEN "pipeline" ELSE "reference")
                 /\ UNCHANGED result
            ELSE /\ run' = [run EXCEPT !.pc = "drain"]
                 /\ \E code \in {"failure", "oom"} : result' = Failed(result, code)
                 /\ UNCHANGED <<backing, slot>>
  /\ UNCHANGED <<frame, pinned, stream, ledger>>

----------------------------------------------------------------------------
(* The device *)

StreamOf(mode, op) ==
  IF mode = "reference" THEN "reference"
  ELSE CASE op = "h2d" -> "h2d" [] op = "kernel" -> "compute" [] OTHER -> "d2h"

Pending(s, op) ==
  \E q \in Stream : \E i \in 1..Len(stream[q]) : stream[q][i] = <<s, op>>
InFlight(s) == \E op \in {"h2d", "kernel", "d2h"} : Pending(s, op)

\* cuStreamWaitEvent: what the operation waits for in another stream.
Waits(s, op) ==
  CASE op = "kernel" -> Pending(s, "h2d")
    [] op = "d2h" -> Pending(s, "kernel")
    [] OTHER -> FALSE

(* The kernel of a pass applied to a tile that had that many passes.  *)
Transform(value, pass) == IF value = pass THEN pass + 1 ELSE Junk

Device(q) ==
  /\ stream[q] # <<>>
  /\ LET s == Head(stream[q])[1]
         op == Head(stream[q])[2]
     IN /\ ~Waits(s, op)
        /\ \/ op = "h2d" /\ frame' = [frame EXCEPT ![s] = pinned[s]]
              /\ UNCHANGED <<pinned, faults>>
           \/ op = "kernel" /\ UNCHANGED pinned
              /\ \E sound \in BOOLEAN :
                   /\ FaultyIf(~sound)
                   /\ frame' = [frame EXCEPT ![s] =
                                  IF sound THEN Transform(@, run.pass) ELSE Junk]
           \/ op = "d2h" /\ pinned' = [pinned EXCEPT ![s] = frame[s]]
              /\ UNCHANGED <<frame, faults>>
           \/ op = "done" /\ UNCHANGED <<frame, pinned, faults>>
  /\ stream' = [stream EXCEPT ![q] = Tail(@)]
  /\ UNCHANGED <<slot, backing, run, res, result, ledger>>

----------------------------------------------------------------------------
(* map_slot and launch_tile *)

(* The tile visited at a position of a pass: odd passes run backwards. *)
TileAt(pass, position) == IF pass % 2 = 0 THEN position ELSE Tiles - 1 - position

(* How far a launch got, and the device work it left in the streams. *)
Reaches == {"map", "access", "samples", "h2d", "h2dDone", "kernelDone", "slotDone", "complete"}
Submitted(reach) ==
  CASE reach = "h2dDone" -> <<"h2d">>
    [] reach = "kernelDone" -> <<"h2d", "kernel">>
    [] reach = "slotDone" -> <<"h2d", "kernel", "d2h">>
    [] reach = "complete" -> <<"h2d", "kernel", "d2h", "done">>
    [] OTHER -> <<>>
Enqueue(s, ops) ==
  [q \in Stream |->
     stream[q] \o [i \in 1..Len(SelectSeq(ops, LAMBDA op : StreamOf(run.mode, op) = q)) |->
                     <<s, SelectSeq(ops, LAMBDA op : StreamOf(run.mode, op) = q)[i]>>]]

(* The slot's bookkeeping after a launch that mapped it. *)
MappedSlot(r, t, reach) ==
  [r EXCEPT !.mapped = TRUE, !.tile = t, !.boundary = reach = "access",
            !.busy = reach \notin {"access", "samples"},
            !.used = @ \/ reach \notin {"access", "samples"},
            !.again = @ \/ reach \notin {"access", "samples"},
            !.submitted = reach \in {"h2dDone", "kernelDone", "slotDone", "complete"},
            !.recorded = reach = "complete"]

UnsafeToMap(s) == slot[s].mapped \/ slot[s].busy \/ (slot[s].used /\ ~slot[s].boundary)

(* wait_for_kernel_launch_safety: the previous kernel has finished. *)
KernelGate(s) == run.mode = "pipeline" /\ s # 0 => ~Pending(s, "kernel")

CanLaunch == run.pc = "run" /\ ~run.stop /\ run.next < Tiles /\ run.free # <<>>

Launch ==
  /\ CanLaunch /\ KernelGate(run.previous)
  /\ \E reach \in Reaches :
       LET s == run.free[Len(run.free)]
           t == TileAt(run.pass, run.next)
           window == SubSeq(run.free, 1, Len(run.free) - 1)
       IN /\ FaultyIf(reach # "complete")
          /\ reach = "samples" => slot[s].again
          /\ IF UnsafeToMap(s)
               THEN /\ result' = [Failed(result, "failure") EXCEPT !.unsafe = TRUE]
                    /\ run' = [run EXCEPT !.stop = TRUE]
                    /\ UNCHANGED <<slot, pinned, stream>>
               ELSE /\ slot' = IF reach = "map" THEN slot
                               ELSE [slot EXCEPT ![s] = MappedSlot(@, t, reach)]
                    /\ pinned' = IF reach \in {"map", "access", "samples"} THEN pinned
                                 ELSE [pinned EXCEPT ![s] = backing[t]]
                    /\ stream' = Enqueue(s, Submitted(reach))
                    /\ LET counted == [result EXCEPT
                              !.unmatched = @ + (IF reach = "map" THEN 0 ELSE 1),
                              !.reused = @ \/ (slot[s].again /\ reach \notin {"map", "access"})]
                       IN \E code \in {"failure", "oom"} :
                            result' = IF reach = "complete" THEN counted
                                      ELSE Failed(counted, code)
                    /\ run' = CASE reach = "complete" ->
                                     [run EXCEPT !.free = window, !.fifo = Append(@, s),
                                                 !.previous = s, !.next = @ + 1]
                                [] reach = "samples" -> [run EXCEPT !.pc = "drain"]
                                [] OTHER -> [run EXCEPT !.stop = TRUE]
  /\ UNCHANGED <<frame, backing, res, ledger>>

(* The gate times out, the query fails or the kernel ran over 250 ms. *)
KernelGateFails ==
  /\ CanLaunch /\ run.mode = "pipeline" /\ run.previous # 0 /\ Faulty
  /\ \E code \in {"timeout", "failure"} :
       /\ code = "timeout" => Pending(run.previous, "kernel")
       /\ result' = Failed(result, code)
  /\ run' = [run EXCEPT !.stop = TRUE]
  /\ UNCHANGED <<slot, frame, pinned, backing, stream, res, ledger>>

----------------------------------------------------------------------------
(* retire_slot *)

(* Nothing more can be launched now. *)
Retiring == run.pc = "run" /\ ~CanLaunch /\ run.fifo # <<>>

(* The front of the window after retire_slot. *)
Retired(bad) == [run EXCEPT !.fifo = Tail(@), !.stop = @ \/ bad,
                            !.free = Append(@, Head(run.fifo))]

(* wait_for_slot gives up: the slot stays mapped and busy. *)
WaitFails ==
  /\ Retiring /\ Faulty
  /\ \E code \in {"timeout", "failure"} :
       /\ code = "timeout" => Pending(Head(run.fifo), "done")
       /\ result' = Failed(result, code)
  /\ run' = Retired(TRUE)
  /\ UNCHANGED <<slot, frame, pinned, backing, stream, res, ledger>>

(* wait_for_slot succeeds. *)
SlotIsDone(s) == slot[s].recorded /\ ~Pending(s, "done")

(* verify_tile *)
TileMatches(s) == pinned[s] = Transform(backing[slot[s].tile], run.pass)

(***************************************************************************)
(* The wait succeeds; timing, verification and unmapping are all done and  *)
(* their outcomes combined, and the device budget is sampled.              *)
(***************************************************************************)
Retire ==
  /\ Retiring /\ SlotIsDone(Head(run.fifo))
  /\ \E trouble \in {"none", "timing", "unmap", "budget"} :
       LET s == Head(run.fifo)
           verified == TileMatches(s)
           unmapped == trouble # "unmap"
           seen == IF trouble = "timing" THEN Failed(result, "failure") ELSE result
           checked == IF verified THEN seen ELSE Failed(seen, "corruption")
       IN /\ FaultyIf(trouble # "none")
          /\ trouble = "budget" => verified
          /\ backing' = [backing EXCEPT ![slot[s].tile] = pinned[s]]
          /\ slot' = [slot EXCEPT ![s].boundary = TRUE, ![s].mapped = ~unmapped,
                                  ![s].busy = ~unmapped]
          /\ result' = CASE trouble = "unmap" ->
                              [Failed(checked, "failure") EXCEPT !.quarantined = TRUE]
                         [] trouble = "budget" ->
                              [Failed(checked, "oom") EXCEPT !.unmatched = @ - 1]
                         [] OTHER -> [checked EXCEPT !.unmatched = @ - 1]
          /\ run' = Retired(trouble # "none" \/ ~verified)
  /\ UNCHANGED <<frame, pinned, stream, res, ledger>>

----------------------------------------------------------------------------
(* The end of a pass, of a mode and of the execution *)

(* Every tile of the pass was launched and every slot retired. *)
PassDone == run.next = Tiles /\ run.fifo = <<>>

(* The next pass, or the final verification. *)
AfterPass ==
  IF run.pass + 1 < Passes THEN [run EXCEPT !.pass = @ + 1, !.next = 0]
  ELSE [run EXCEPT !.pc = "verify"]

NextPass ==
  /\ run.pc = "run" /\ ~run.stop /\ PassDone
  /\ run' = AfterPass
  /\ UNCHANGED <<slot, frame, pinned, backing, stream, res, result, ledger, faults>>

(* The mode returns false after its window drained. *)
GiveUp ==
  /\ run.pc = "run" /\ run.stop /\ run.fifo = <<>>
  /\ run' = [run EXCEPT !.pc = "drain"]
  /\ UNCHANGED <<slot, frame, pinned, backing, stream, res, result, ledger, faults>>

(* A host allocation or the progress callback throws. *)
HostException ==
  /\ run.pc \in {"run", "verify"} /\ Faulty
  /\ \E code \in {"oom", "failure"} : result' = Failed(result, code)
  /\ run' = [run EXCEPT !.pc = "drain"]
  /\ UNCHANGED <<slot, frame, pinned, backing, stream, res, ledger>>

(* final_verify, the next mode or the proof invariants. *)
FinalVerify ==
  /\ run.pc = "verify"
  /\ LET exact == \A t \in Tile : backing[t] = Passes
         more == run.mode = "reference" /\ Requested = "both"
         unproved == result.unproved \/ result.unmatched # 0 \/ ~result.reused \/ result.unsafe
     IN IF exact /\ more
          THEN /\ Begin("pipeline")
               /\ result' = [result EXCEPT !.unproved = unproved, !.unmatched = 0,
                                           !.reused = FALSE]
          ELSE /\ run' = [run EXCEPT !.pc = "drain"] /\ UNCHANGED <<slot, backing>>
               /\ result' = IF ~exact THEN Failed(result, "corruption")
                            ELSE IF unproved THEN Failed(result, "failure")
                            ELSE [result EXCEPT !.exit = "completed"]
  /\ UNCHANGED <<frame, pinned, stream, res, ledger, faults>>

----------------------------------------------------------------------------
(* cleanup_resources *)

Unrecorded(s) == slot[s].busy /\ ~slot[s].recorded /\ slot[s].submitted

(***************************************************************************)
(* backing.release and the slots' completion events.  A busy slot whose    *)
(* last event was recorded is waited for (the wait can fail); one with     *)
(* work but no event is quarantined; one without work is simply free.      *)
(***************************************************************************)
CleanupDrain ==
  /\ run.pc = "drain"
  /\ \E broken \in SUBSET {s \in Slots : slot[s].busy /\ slot[s].recorded}, released \in BOOLEAN :
       LET waited == {s \in Slots : slot[s].busy /\ slot[s].recorded} \ broken
           partial == broken \union {s \in Slots : Unrecorded(s)}
       IN /\ FaultyIf(broken # {} \/ ~released)
          /\ res.backing \/ released
          /\ \A s \in waited : ~Pending(s, "done")
          /\ slot' = [s \in Slots |->
               IF slot[s].busy /\ s \notin partial
                 THEN [slot[s] EXCEPT !.boundary = TRUE, !.busy = FALSE] ELSE slot[s]]
          /\ ledger' = [ledger EXCEPT !.drained = partial = {}, !.backing = released]
          /\ res' = [res EXCEPT !.backing = ~released]
          /\ result' = [result EXCEPT !.quarantined = @ \/ partial # {}]
          /\ run' = [run EXCEPT !.pc = IF partial = {} THEN "unmap" ELSE "sync"]
  /\ UNCHANGED <<frame, pinned, backing, stream>>

(* cuStreamSynchronize on every stream, and what it does to the slots. *)
CleanupSync ==
  /\ run.pc = "sync"
  /\ \E broken \in SUBSET Stream :
       /\ FaultyIf(broken # {})
       /\ \A q \in Stream \ broken : stream[q] = <<>>
       /\ slot' = [s \in Slots |->
            IF broken = {} /\ slot[s].submitted /\ ~slot[s].recorded
              THEN [slot[s] EXCEPT !.busy = FALSE] ELSE slot[s]]
       /\ result' = [result EXCEPT !.dma = broken # {}]
  /\ run' = [run EXCEPT !.pc = "unmap"]
  /\ UNCHANGED <<frame, pinned, backing, stream, res, ledger>>

(* Only a mapping behind a completed event boundary is removed. *)
Unmappable == {s \in Slots : slot[s].mapped /\ slot[s].boundary}

(* The mappings that remain. *)
LeftMapped(stuck) == {s \in Slots : slot[s].mapped} \ (Unmappable \ stuck)

CleanupUnmap ==
  /\ run.pc = "unmap"
  /\ \E stuck \in SUBSET Unmappable :
       /\ FaultyIf(stuck # {})
       /\ slot' = [s \in Slots |-> [slot[s] EXCEPT !.mapped = @ /\ s \notin Unmappable \ stuck]]
       /\ ledger' = [ledger EXCEPT !.mappings = LeftMapped(stuck) = {}]
       /\ result' = [result EXCEPT !.quarantined = @ \/ LeftMapped(stuck) # {}]
  /\ run' = [run EXCEPT !.pc = "release"]
  /\ UNCHANGED <<frame, pinned, backing, stream, res>>

(* A quarantined mapping keeps its reservation. *)
ReservationFree == ~result.quarantined /\ ledger.mappings

(* The handles, then the address reservation. *)
CleanupRelease ==
  /\ run.pc = "release"
  /\ \E lost \in SUBSET res.handles, freed \in BOOLEAN :
       /\ FaultyIf(lost # {} \/ (ReservationFree /\ res.reservation /\ ~freed))
       /\ freed => ReservationFree
       /\ ~res.reservation => freed = ReservationFree
       /\ res' = [res EXCEPT !.handles = lost, !.reservation = @ /\ ~freed]
       /\ ledger' = [ledger EXCEPT !.handles = lost = {},
                                   !.reservation = ~res.reservation \/ freed]
  /\ run' = [run EXCEPT !.pc = "teardown"]
  /\ UNCHANGED <<slot, frame, pinned, backing, stream, result>>

(* cuCtxDestroy before anything else, while a copy may still be running. *)
DestroyContextEarly(ok, restored) ==
  /\ res' = IF ok THEN [res EXCEPT !.context = FALSE, !.objects = FALSE] ELSE res
  /\ ledger' = [ledger EXCEPT !.context = ok /\ restored, !.objects = ok, !.pinned = FALSE]
  /\ stream' = IF ok THEN [q \in Stream |-> <<>>] ELSE stream

(* Events, streams, module, staging buffers, context. *)
DestroyInOrder(objects, lost, ok, restored) ==
  /\ res' = [res EXCEPT !.objects = @ /\ ~objects, !.pinned = lost, !.context = @ /\ ~ok]
  /\ ledger' = [ledger EXCEPT !.objects = objects, !.pinned = lost = {},
                              !.context = ok /\ restored]
  /\ UNCHANGED stream

(* dma_quarantine *)
CopyUnconfirmed == result.dma

CleanupTeardown ==
  /\ run.pc = "teardown"
  /\ \E objects, ok, restored \in BOOLEAN, lost \in SUBSET res.pinned :
       /\ FaultyIf(~objects \/ ~ok \/ ~restored \/ lost # {})
       /\ res.context \/ (ok /\ restored)
       /\ res.objects \/ objects
       /\ IF CopyUnconfirmed THEN objects /\ lost = {} /\ DestroyContextEarly(ok, restored)
          ELSE DestroyInOrder(objects, lost, ok, restored)
  /\ run' = [run EXCEPT !.pc = "settle"]
  /\ UNCHANGED <<slot, frame, pinned, backing, result>>

LedgerComplete == \A part \in DOMAIN ledger : ledger[part]

(* An incomplete ledger makes the execution a failure. *)
Settled(r) == IF LedgerComplete THEN r ELSE [Failed(r, "failure") EXCEPT !.exit = "failure"]

Settle ==
  /\ run.pc = "settle"
  /\ result' = Settled(result)
  /\ run' = [run EXCEPT !.pc = "done"]
  /\ UNCHANGED <<slot, frame, pinned, backing, stream, res, ledger, faults>>

----------------------------------------------------------------------------

Ended == run.pc = "done" /\ UNCHANGED vars

Host == Setup \/ Launch \/ Retire \/ NextPass \/ GiveUp \/ FinalVerify \/ CleanupDrain
        \/ CleanupSync \/ CleanupUnmap \/ CleanupRelease \/ CleanupTeardown \/ Settle
Next == Host \/ KernelGateFails \/ WaitFails \/ HostException
        \/ (\E q \in Stream : Device(q)) \/ Ended

Spec == Init /\ [][Next]_vars

----------------------------------------------------------------------------

TypeOK ==
  /\ slot \in [Slots -> [used : BOOLEAN, again : BOOLEAN, mapped : BOOLEAN, busy : BOOLEAN,
                         submitted : BOOLEAN, recorded : BOOLEAN, boundary : BOOLEAN,
                         tile : Tile]]
  /\ frame \in [Slots -> Data] /\ pinned \in [Slots -> Data] /\ backing \in [Tile -> Data]
  /\ \A q \in Stream : \A i \in 1..Len(stream[q]) :
       stream[q][i] \in Slots \X {"h2d", "kernel", "d2h", "done"}
  /\ run.pc \in {"setup", "run", "verify", "drain", "sync", "unmap", "release", "teardown",
                 "settle", "done"}
  /\ run.pass \in 0..(Passes - 1) /\ run.next \in 0..Tiles
  /\ run.pc = "run" => Len(run.free) + Len(run.fifo) = Len(FreeSlots(run.mode))
  /\ faults \in 0..MaxFaults

(***************************************************************************)
(* While the device has work on a slot, the slot's tile is mapped, its     *)
(* staging buffer exists and the reservation stands: every path, and every *)
(* way a cleanup can be cut short, keeps them (cleanup_resources).         *)
(***************************************************************************)
DeviceWorkHasMemory ==
  \A s \in Slots : InFlight(s) =>
    slot[s].mapped /\ s \in res.pinned /\ res.reservation

(***************************************************************************)
(* A tile is mapped at one slot at most: the window is drained between     *)
(* passes, so a tile is not visited again while its last visit is pending  *)
(* (run_pipeline_mode's outer loop).                                       *)
(***************************************************************************)
OneMappingPerTile ==
  \A s, u \in Slots : slot[s].mapped /\ slot[u].mapped /\ slot[s].tile = slot[u].tile => s = u

(***************************************************************************)
(* At most one kernel is on the device: the 250 ms limit is checked before *)
(* the next launch (wait_for_kernel_launch_safety).                        *)
(***************************************************************************)
OneKernelAtATime ==
  \A s, u \in Slots : Pending(s, "kernel") /\ Pending(u, "kernel") => s = u

(***************************************************************************)
(* If no call failed, the executor reports no failure: it never compares a *)
(* tile too early, never reads a tile before its previous pass is stored,  *)
(* never refuses one of its own mappings and its statistics balance.       *)
(***************************************************************************)
FaultFreeRunSucceeds == faults = 0 => result.failure = "none"

(***************************************************************************)
(* An execution that reports "completed" has transformed every tile        *)
(* exactly Passes times in its last mode and left nothing behind.          *)
(***************************************************************************)
CompletedMeansExact ==
  run.pc = "done" /\ result.exit = "completed" =>
    /\ result.failure = "none" /\ ~result.unsafe /\ ~result.quarantined
    /\ \A t \in Tile : backing[t] = Passes
    /\ res = Built(0) /\ \A s \in Slots : ~slot[s].mapped

(***************************************************************************)
(* While nothing has failed, the pageable backing keeps pace with the     *)
(* pass: a tile holds either this pass or the one before.                  *)
(***************************************************************************)
BackingKeepsPace ==
  run.pc \in {"run", "verify"} /\ result.failure = "none" =>
    \A t \in Tile : backing[t] \in {run.pass, run.pass + 1}

(***************************************************************************)
(* The address reservation is never freed under a mapping, also when the   *)
(* mapping was quarantined long before (reservation_quarantined).          *)
(***************************************************************************)
ReservationOutlivesMappings ==
  run.pc # "setup" /\ (\E s \in Slots : slot[s].mapped) => res.reservation

(***************************************************************************)
(* The cleanup report tells the truth: with a complete ledger nothing is   *)
(* left, and a part it calls done is really gone.                          *)
(***************************************************************************)
LedgerIsTruthful ==
  run.pc \in {"settle", "done"} =>
    /\ ledger.mappings => \A s \in Slots : ~slot[s].mapped
    /\ ledger.reservation => ~res.reservation
    /\ ledger.pinned => res.pinned = {}
    /\ LedgerComplete => res = Built(0)
=============================================================================
