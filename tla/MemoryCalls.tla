---------------------------- MODULE MemoryCalls ----------------------------
(***************************************************************************)
(* The driver's memory calls as operations on a ledger.  The observer      *)
(* makes them of what it saw (apply, memory_witness.cpp); with limits that *)
(* are never reached they also say what the driver itself did.             *)
(*                                                                         *)
(* A call is a record with the operation and its inputs.  An access call   *)
(* carries a sequence of descriptors, one per device.                      *)
(***************************************************************************)
EXTENDS MemoryRegistry, Sequences

NullFree(c) == c.op = "free" /\ c.a = 0

Copies == {"copy", "d2d"}

\* Calls the observer has no rule for: an unknown symbol, reserved flags.  To
\* the driver they are reservations like any other.
Foreign == {"unsupported", "flagged"}

\* The range is there: known and mapped for the first device and this context.
Seen(r, a, n, context) ==
    LET range == Resolve(r, a, n, 0, context)
    IN  range.known /\ range.mapped

Accepts(r, c) ==
    CASE c.op = "allocate" -> CanAllocate(r, c.a, c.n, FALSE)
      [] c.op \in Foreign \cup {"reserve"} -> CanAllocate(r, c.a, c.n, TRUE)
      [] c.op = "free"     -> NullFree(c) \/ CanRelease(r, c.a, 0, FALSE)
      [] c.op = "free_reservation" -> CanRelease(r, c.a, c.n, TRUE)
      [] c.op = "create"   -> CanCreate(r, c.h, c.n)
      [] c.op = "release"  -> LiveHandle(r, c.h)
      [] c.op = "map"      -> CanMap(r, c.a, c.n, c.h, 0)
      [] c.op = "unmap"    -> Answerable(r, c.a, c.n, 0) /\ CanUnmapRange(r, c.a, c.n)
      [] c.op = "access"   -> CanSetAccess(r, c.a, c.n, c.device, c.flag)
      [] c.op \in Copies   -> Seen(r, c.a, c.n, c.context)
                              /\ (c.op = "d2d" => Seen(r, c.source, c.n, c.context))

Does(r, c) ==
    CASE c.op = "allocate" -> Allocate(r, c.a, c.n, FALSE, c.context)
      [] c.op \in Foreign \cup {"reserve"} -> Allocate(r, c.a, c.n, TRUE, c.context)
      [] c.op = "free"     -> IF NullFree(c) THEN r ELSE Release(r, c.a, FALSE)
      [] c.op = "free_reservation" -> Release(r, c.a, TRUE)
      [] c.op = "create"   -> Create(r, c.h, c.n)
      [] c.op = "release"  -> ReleaseHandle(r, c.h)
      [] c.op = "map"      -> Map(r, c.a, c.n, c.h)
      [] c.op = "unmap"    -> UnmapRange(r, c.a, c.n)
      [] c.op = "access"   -> SetAccess(r, c.a, c.n, c.device, c.flag)
      [] c.op \in Copies   -> r

\* One registry operation per descriptor, one for any other call.
Parts(c) ==
    IF c.op # "access" THEN <<c>>
    ELSE [i \in DOMAIN c.descriptors |->
             [op |-> "access", a |-> c.a, n |-> c.n,
              device |-> c.descriptors[i].device, flag |-> c.descriptors[i].flag]]

\* The ledger after as many parts as it accepts, and whether these were all.
Outcome(r, c) ==
    LET parts == Parts(c)
        run[i \in 0..Len(parts)] ==
            IF i = 0 THEN [reg |-> r, all |-> TRUE]
            ELSE IF run[i - 1].all /\ Accepts(run[i - 1].reg, parts[i])
            THEN [reg |-> Does(run[i - 1].reg, parts[i]), all |-> TRUE]
            ELSE [reg |-> run[i - 1].reg, all |-> FALSE]
    IN  run[Len(parts)]
=============================================================================
