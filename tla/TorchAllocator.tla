-------------------------- MODULE TorchAllocator --------------------------
(***************************************************************************)
(* The segment allocator behind PyTorch's pluggable allocator              *)
(* (torch/allocator.cpp): one virtual memory segment per allocation, a     *)
(* registry of segments, rollback of a failed set-up, the fence before a   *)
(* segment is unmapped, quarantine of what could not be given back, and    *)
(* the statistics.  Every call holds the allocator's mutex from beginning  *)
(* to end; here a call is a sequence of steps, one per driver call that    *)
(* may fail, so that the device and the client proceed in between.         *)
(*                                                                         *)
(* The driver's own truth (drv) is kept apart from the allocator's records *)
(* (seg, emergency): the properties compare the two.                       *)
(***************************************************************************)
EXTENDS Integers, FiniteSets, FiniteSetsExt

CONSTANTS Addr,                      \* the virtual addresses the driver may return
          Requested, Mapped,         \* bytes asked for, bytes after rounding up
          None

ASSUME AllocatorAssumption ==
  /\ Requested \in Nat \ {0} /\ Mapped \in Nat /\ Requested <= Mapped
  /\ IsFiniteSet(Addr) /\ None \notin Addr

VARIABLES seg,        \* segments_: a record for every address, "st" absent when not in the map
          emergency,  \* emergency_quarantine_
          poisoned,   \* poisoned_
          stats,      \* what the statistics say is outstanding: made minus given back
          drv,        \* the driver: reservations, handles, mappings
          work,       \* addresses the device still uses
          depth,      \* contexts the call has pushed and not popped
          op          \* the call that holds the mutex

allocatorVars == <<seg, emergency, poisoned, stats, drv, work, depth, op>>

Absent == [st |-> "absent", reserved |-> FALSE, handle |-> FALSE, mapped |-> FALSE,
           active |-> FALSE, quarantined |-> FALSE]
Idle == [pc |-> "idle", a |-> None, failed |-> FALSE]
Zero == [reserved |-> 0, handles |-> 0, maps |-> 0, mappedBytes |-> 0, requestedBytes |-> 0,
         active |-> 0, quarantined |-> 0, quarantinedBytes |-> 0]

AllocatorInit ==
  /\ seg = [a \in Addr |-> Absent] /\ emergency = Absent /\ poisoned = FALSE
  /\ stats = Zero /\ drv = [reserved |-> {}, handle |-> {}, mapped |-> {}]
  /\ work = {} /\ depth = 0 /\ op = Idle

At(pc) == op.pc = pc
Goto(pc) == op' = [op EXCEPT !.pc = pc]
Done == op' = Idle
Keep(a, r) == seg' = [seg EXCEPT ![a] = r]

\* stats after segment r was quarantined; quarantine() counts a segment once
Counted(s, r) == [s EXCEPT !.quarantined = @ + 1, !.quarantinedBytes = @ + (IF r.mapped THEN Mapped ELSE 0)]

\* quarantine(): the record stays in the registry and the allocator is poisoned
Quarantine(a, r, s) ==
  /\ Keep(a, [r EXCEPT !.quarantined = TRUE])
  /\ stats' = Counted(s, r)
  /\ poisoned' = TRUE

-----------------------------------------------------------------------------
(* allocate                                                                 *)
MayReserve == ~poisoned

Reserve(a) ==
  /\ At("idle") /\ MayReserve /\ a \notin drv.reserved
  /\ drv' = [drv EXCEPT !.reserved = @ \union {a}]
  /\ stats' = [stats EXCEPT !.reserved = @ + 1]
  /\ op' = [Idle EXCEPT !.pc = "register", !.a = a]
  /\ UNCHANGED <<seg, emergency, poisoned, work, depth>>

\* no memory for the record, the limit is reached, or the address is already there
Register ==
  /\ At("register")
  /\ \/ seg[op.a].st = "absent" /\ Keep(op.a, [Absent EXCEPT !.st = "held", !.reserved = TRUE])
        /\ Goto("create")
     \/ Goto("unreserve") /\ seg' = seg
  /\ UNCHANGED <<emergency, poisoned, stats, drv, work, depth>>

Untracked == [Absent EXCEPT !.st = "held", !.reserved = TRUE, !.quarantined = TRUE]

\* what quarantine_untracked() keeps
Emergency == Untracked

Unreserve ==
  /\ At("unreserve") /\ Done
  /\ \/ /\ drv' = [drv EXCEPT !.reserved = @ \ {op.a}]
        /\ stats' = [stats EXCEPT !.reserved = @ - 1]
        /\ UNCHANGED <<emergency, poisoned>>
     \/ /\ emergency' = Emergency /\ poisoned' = TRUE
        /\ stats' = Counted(stats, Untracked)
        /\ drv' = drv
  /\ UNCHANGED <<seg, work, depth>>

Create ==
  /\ At("create")
  /\ \/ /\ Keep(op.a, [seg[op.a] EXCEPT !.handle = TRUE]) /\ Goto("map")
        /\ drv' = [drv EXCEPT !.handle = @ \union {op.a}]
        /\ stats' = [stats EXCEPT !.handles = @ + 1]
     \/ Goto("rollback") /\ UNCHANGED <<seg, drv, stats>>
  /\ UNCHANGED <<emergency, poisoned, work, depth>>

Map ==
  /\ At("map")
  /\ \/ /\ Keep(op.a, [seg[op.a] EXCEPT !.mapped = TRUE]) /\ Goto("access")
        /\ drv' = [drv EXCEPT !.mapped = @ \union {op.a}]
        /\ stats' = [stats EXCEPT !.maps = @ + 1, !.mappedBytes = @ + Mapped]
     \/ Goto("rollback") /\ UNCHANGED <<seg, drv, stats>>
  /\ UNCHANGED <<emergency, poisoned, work, depth>>

SetAccess ==
  /\ At("access")
  /\ \/ /\ Keep(op.a, [seg[op.a] EXCEPT !.active = TRUE]) /\ Done
        /\ stats' = [stats EXCEPT !.requestedBytes = @ + Requested, !.active = @ + 1]
     \/ Goto("rollback") /\ UNCHANGED <<seg, stats>>
  /\ UNCHANGED <<emergency, poisoned, drv, work, depth>>

-----------------------------------------------------------------------------
(* What the three clean-up calls of the driver do to a record, to the       *)
(* driver and to the statistics; each is tried only when the code tries it. *)
World(r, d, s) == [r |-> r, d |-> d, s |-> s]

Unmapped(w, a) == World([w.r EXCEPT !.mapped = FALSE], [w.d EXCEPT !.mapped = @ \ {a}],
                        [w.s EXCEPT !.maps = @ - 1, !.mappedBytes = @ - Mapped])
Released(w, a) == World([w.r EXCEPT !.handle = FALSE], [w.d EXCEPT !.handle = @ \ {a}],
                        [w.s EXCEPT !.handles = @ - 1])
Freed(w, a) == World([w.r EXCEPT !.reserved = FALSE], [w.d EXCEPT !.reserved = @ \ {a}],
                     [w.s EXCEPT !.reserved = @ - 1])

AfterUnmap(w, a, ok) == IF ok /\ w.r.mapped THEN Unmapped(w, a) ELSE w
AfterRelease(w, a, ok) == IF ok /\ w.r.handle THEN Released(w, a) ELSE w
FreeOnlyBare(w, a, ok) == IF ok /\ w.r.reserved /\ ~w.r.handle /\ ~w.r.mapped THEN Freed(w, a) ELSE w
FreeAnyway(w, a, ok) == IF ok /\ w.r.reserved THEN Freed(w, a) ELSE w \* mutant
AfterFree(w, a, ok) == FreeOnlyBare(w, a, ok)

Gone(r) == ~r.mapped /\ ~r.handle /\ ~r.reserved

\* rollback_segment() and fail_setup
Rollback ==
  /\ At("rollback") /\ Done
  /\ \E u, h, f \in BOOLEAN :
       LET w == AfterFree(AfterRelease(AfterUnmap(World(seg[op.a], drv, stats), op.a, u), op.a, h), op.a, f) IN
       /\ drv' = w.d
       /\ IF Gone(w.r) THEN Keep(op.a, Absent) /\ stats' = w.s /\ poisoned' = poisoned
                       ELSE Quarantine(op.a, w.r, w.s)
  /\ UNCHANGED <<emergency, work, depth>>

-----------------------------------------------------------------------------
(* deallocate                                                               *)
FreeBegins(a) ==
  /\ At("idle") /\ seg[a].active /\ ~seg[a].quarantined
  /\ \/ \E pushed \in 0..1 :
          /\ depth' = pushed /\ op' = [Idle EXCEPT !.pc = "fence", !.a = a]
          /\ UNCHANGED <<seg, stats, poisoned>>
     \/ Quarantine(a, seg[a], stats) /\ UNCHANGED <<depth, op>>  \* the context cannot be read or pushed
  /\ UNCHANGED <<emergency, drv, work>>

\* restore_context: the pop may fail, which poisons the allocator
Restored == depth' = 0
Restores == Restored
PopFails == depth = 1 /\ depth' = depth /\ poisoned' = TRUE

\* another device, a capture, or an event that cannot be created, recorded or waited for
FenceFails ==
  /\ At("fence") /\ Done
  /\ Quarantine(op.a, seg[op.a], stats)
  /\ Restores \/ PopFails
  /\ UNCHANGED <<emergency, drv, work>>

\* cuEventSynchronize returns when the segment's stream has passed the event
FenceSkipped == TRUE \* mutant
FencePassed == op.a \notin work

Fence ==
  /\ At("fence") /\ FencePassed
  /\ \E destroyed \in BOOLEAN : op' = [op EXCEPT !.pc = "unmap", !.failed = ~destroyed]
  /\ UNCHANGED <<seg, emergency, poisoned, stats, drv, work, depth>>

Unmap ==
  /\ At("unmap")
  /\ LET w == Unmapped(World(seg[op.a], drv, stats), op.a) IN
     Keep(op.a, w.r) /\ drv' = w.d /\ stats' = w.s
  /\ Goto("release")
  /\ UNCHANGED <<emergency, poisoned, work, depth>>

\* the mapping keeps the memory alive, the handle is given back all the same
UnmapFails ==
  /\ At("unmap") /\ Done
  /\ \E h \in BOOLEAN :
       LET w == AfterRelease(World(seg[op.a], drv, stats), op.a, h) IN
       drv' = w.d /\ Quarantine(op.a, w.r, w.s)
  /\ Restores \/ PopFails
  /\ UNCHANGED <<emergency, work>>

\* retire_active_telemetry
Retired(s) == [s EXCEPT !.requestedBytes = @ - Requested, !.active = @ - 1]

Release ==
  /\ At("release") /\ Done
  /\ \E h, f, popped \in BOOLEAN :
       LET w == AfterFree(AfterRelease(World(seg[op.a], drv, stats), op.a, h), op.a, f) IN
       /\ popped => Restores
       /\ ~popped => depth = 1 /\ depth' = depth
       /\ drv' = w.d
       /\ IF Gone(w.r) THEN Keep(op.a, Absent) /\ stats' = Retired(w.s) /\ poisoned' = (poisoned \/ ~popped)
                       ELSE Quarantine(op.a, w.r, w.s)
  /\ UNCHANGED <<emergency, work>>

-----------------------------------------------------------------------------
(* reset_stats rebuilds what is outstanding from the records                *)
HowMany(fields) == Cardinality({a \in Addr : \A f \in fields : seg[a][f]})
                   + (IF \A f \in fields : emergency[f] THEN 1 ELSE 0)
Surviving(fields) == HowMany(fields)

Outstanding ==
  [reserved |-> Surviving({"reserved"}), handles |-> Surviving({"handle"}), maps |-> Surviving({"mapped"}),
   mappedBytes |-> Mapped * Surviving({"mapped"}), requestedBytes |-> Requested * Surviving({"active"}),
   active |-> Surviving({"active"}), quarantined |-> Surviving({"quarantined"}),
   quarantinedBytes |-> Mapped * Surviving({"quarantined", "mapped"})]

ResetStats ==
  /\ At("idle") /\ stats' = Outstanding
  /\ UNCHANGED <<seg, emergency, poisoned, drv, work, depth, op>>

-----------------------------------------------------------------------------
(* The client's kernels on the allocation's stream, and the device          *)
Launch(a) ==
  /\ seg[a].active /\ ~seg[a].quarantined /\ op.a # a
  /\ work' = work \union {a}
  /\ UNCHANGED <<seg, emergency, poisoned, stats, drv, depth, op>>

Finish(a) ==
  /\ a \in work /\ work' = work \ {a}
  /\ UNCHANGED <<seg, emergency, poisoned, stats, drv, depth, op>>

CallStep == Register \/ Unreserve \/ Create \/ Map \/ SetAccess \/ Rollback \/ Fence \/ Unmap \/ Release

AllocatorNext ==
  \/ CallStep \/ FenceFails \/ UnmapFails \/ ResetStats
  \/ \E a \in Addr : Reserve(a) \/ FreeBegins(a) \/ Launch(a) \/ Finish(a)

AllocatorSpec == AllocatorInit /\ [][AllocatorNext]_allocatorVars

-----------------------------------------------------------------------------
Known(field) == {a \in Addr : seg[a][field]}

\* The type invariant.
AllocatorTypeOK ==
  /\ seg \in [Addr -> [st : {"absent", "held"}, reserved : BOOLEAN, handle : BOOLEAN,
                      mapped : BOOLEAN, active : BOOLEAN, quarantined : BOOLEAN]]
  /\ \A f \in DOMAIN stats : stats[f] \in 0..(Mapped * (Cardinality(Addr) + 1))
  /\ drv \in [reserved : SUBSET Addr, handle : SUBSET Addr, mapped : SUBSET Addr]
  /\ poisoned \in BOOLEAN /\ depth \in 0..1 /\ work \subseteq Addr

\* Between calls every reservation, handle and mapping the driver holds for the allocator is in a
\* record, and no record claims what the driver no longer has: nothing leaks, however many of the
\* set-up, rollback and free steps failed.  One address may live in the emergency slot only.
NothingUntracked ==
  At("idle") =>
    /\ drv.handle = Known("handle") /\ drv.mapped = Known("mapped")
    /\ Known("reserved") \subseteq drv.reserved
    /\ Cardinality(drv.reserved \ Known("reserved")) = (IF emergency.reserved THEN 1 ELSE 0)
    /\ \A a \in Addr : seg[a].st = "held" <=> seg[a].reserved \/ seg[a].handle \/ seg[a].mapped

\* The driver's own rules: a mapping needs its reservation, and the physical memory of a usable
\* segment is there.
UsableIsMapped ==
  /\ drv.mapped \subseteq drv.reserved
  /\ \A a \in Addr : (seg[a].active /\ ~seg[a].quarantined /\ op.a # a)
       => a \in drv.mapped /\ a \in drv.handle

\* The statistics are what the driver holds, through quarantine and a reset at any moment.
StatsAreOutstanding ==
  At("idle") =>
    /\ stats.reserved = Cardinality(drv.reserved) /\ stats.handles = Cardinality(drv.handle)
    /\ stats.maps = Cardinality(drv.mapped) /\ stats.mappedBytes = Mapped * Cardinality(drv.mapped)
    /\ stats.active = Cardinality(Known("active"))
    /\ stats.requestedBytes = Requested * Cardinality(Known("active"))
    /\ stats.quarantined > 0 => poisoned

\* A call gives the thread its context back, or the allocator is poisoned.
ContextGivenBack == At("idle") => depth = 0 \/ poisoned

\* What PyTorch relies on, whatever driver calls fail: nothing the driver holds is forgotten, what
\* is usable has its memory, the statistics tell the truth, and contexts are given back.
AllocatorSafe ==
  AllocatorTypeOK /\ NothingUntracked /\ UsableIsMapped /\ StatsAreOutstanding /\ ContextGivenBack

\* No mapping is taken from under a kernel that still uses it.
NoUnmapUnderWork == (drv.mapped \ drv'.mapped) \intersect work = {}

\* The one emergency slot is never overwritten, and once poisoned nothing new is reserved.
EmergencyIsKept ==
  /\ emergency.st = "held" => emergency' = emergency
  /\ poisoned => poisoned' /\ drv'.reserved \subseteq drv.reserved
=============================================================================
