------------------------ MODULE TorchAllocatorProofs ------------------------
(***************************************************************************)
(* Proofs about the PyTorch allocator, for any number of addresses and any *)
(* size of a segment, with every driver call failing at any time.          *)
(*                                                                         *)
(* AllocatorSafe speaks of the moments between two calls. What carries it  *)
(* through a call is what each step of the call may rely on (Step), that   *)
(* the device works only for segments a client was given (WorkKnown), and  *)
(* that an address without a record is the one of the call, or the one of  *)
(* the emergency slot (Strayed).                                           *)
(***************************************************************************)
EXTENDS TorchAllocator, FiniteSetTheorems, TLAPS

SegmentType == [st : {"absent", "held"}, reserved : BOOLEAN, handle : BOOLEAN,
                mapped : BOOLEAN, active : BOOLEAN, quarantined : BOOLEAN]
DriverType == [reserved : SUBSET Addr, handle : SUBSET Addr, mapped : SUBSET Addr]
StatsType == [reserved : Int, handles : Int, maps : Int, mappedBytes : Int,
              requestedBytes : Int, active : Int, quarantined : Int, quarantinedBytes : Int]
Pc == {"idle", "register", "unreserve", "create", "map", "access", "rollback", "fence",
       "unmap", "release"}
Types ==
  /\ seg \in [Addr -> SegmentType] /\ emergency \in {Absent, Untracked}
  /\ drv \in DriverType /\ stats \in StatsType
  /\ poisoned \in BOOLEAN /\ depth \in 0..1 /\ work \in SUBSET Addr
  /\ op \in [pc : Pc, a : Addr \union {None}, failed : BOOLEAN]
  /\ IF op.pc = "idle" THEN op.a = None ELSE op.a \in Addr

(* A record claims what its address has, and what was given out is mapped   *)
(* memory until it is freed or quarantined.                                *)
SoundRecord(a) ==
  /\ (seg[a].st = "held") <=> seg[a].reserved
  /\ seg[a].handle \/ seg[a].mapped \/ seg[a].active \/ seg[a].quarantined => seg[a].reserved
  /\ seg[a].active /\ ~seg[a].quarantined /\ op.a # a => seg[a].handle /\ seg[a].mapped
Recorded ==
  /\ \A a \in Addr : SoundRecord(a)
  /\ drv.handle = Known("handle") /\ drv.mapped = Known("mapped")
  /\ Known("reserved") \subseteq drv.reserved

(* Addresses the driver holds and no record has.                           *)
Strays == drv.reserved \ Known("reserved")
Strayed ==
  IF op.pc \in {"register", "unreserve"} THEN ~poisoned /\ Strays = {op.a}
  ELSE IF emergency.reserved THEN \E a \in Addr : Strays = {a} ELSE Strays = {}

Poisoning ==
  /\ emergency.reserved => poisoned
  /\ \A a \in Addr : seg[a].quarantined => poisoned
  /\ op.pc \notin {"fence", "unmap", "release"} => depth = 0 \/ poisoned

(* What each step of a call finds.                                         *)
Step ==
  LET r == seg[op.a] IN
  /\ op.pc \in {"create", "map", "access", "rollback"} =>
       r.reserved /\ ~r.active /\ ~r.quarantined
  /\ op.pc = "create" => ~r.handle /\ ~r.mapped
  /\ op.pc = "map" => r.handle /\ ~r.mapped
  /\ op.pc \in {"fence", "unmap", "release"} => r.active /\ ~r.quarantined /\ r.handle
  /\ op.pc \in {"access", "fence", "unmap"} => r.handle /\ r.mapped
  /\ op.pc = "release" => ~r.mapped
  /\ op.pc \in {"unmap", "release"} => op.a \notin work

(* The device works in segments the client was given.                      *)
WorkKnown == work \subseteq Known("active")

(* The statistics at any moment, in a call too.                            *)
One(b) == IF b THEN 1 ELSE 0
Doomed == {a \in Addr : seg[a].quarantined /\ seg[a].mapped}
Statistics ==
  /\ stats.reserved = Cardinality(drv.reserved)
  /\ stats.handles = Cardinality(Known("handle")) /\ stats.maps = Cardinality(Known("mapped"))
  /\ stats.mappedBytes = Mapped * Cardinality(Known("mapped"))
  /\ stats.active = Cardinality(Known("active"))
  /\ stats.requestedBytes = Requested * Cardinality(Known("active"))
  /\ stats.quarantined = Cardinality(Known("quarantined")) + One(emergency.reserved)
  /\ stats.quarantinedBytes = Mapped * Cardinality(Doomed)

AllocatorInv ==
  Types /\ Recorded /\ Strayed /\ Poisoning /\ Step /\ WorkKnown /\ Statistics

(* A number of segments, or their bytes, when one segment joins or leaves. *)
Change(x, old, new, unit) == x + (IF new THEN unit ELSE 0) - (IF old THEN unit ELSE 0)

(* How a step that gives address a the record r moves the driver and the   *)
(* statistics.                                                             *)
DriverMoves(a, r, d) ==
  /\ d \in DriverType
  /\ d.handle = IF r.handle THEN drv.handle \union {a} ELSE drv.handle \ {a}
  /\ d.mapped = IF r.mapped THEN drv.mapped \union {a} ELSE drv.mapped \ {a}
  /\ d.reserved = IF r.reserved THEN drv.reserved \union {a} ELSE drv.reserved \ {a}
StatsMove(a, r, s) ==
  LET old == seg[a] IN
  /\ s \in StatsType
  /\ s.reserved = Change(stats.reserved, a \in drv.reserved, r.reserved, 1)
  /\ s.handles = Change(stats.handles, old.handle, r.handle, 1)
  /\ s.maps = Change(stats.maps, old.mapped, r.mapped, 1)
  /\ s.mappedBytes = Change(stats.mappedBytes, old.mapped, r.mapped, Mapped)
  /\ s.active = Change(stats.active, old.active, r.active, 1)
  /\ s.requestedBytes = Change(stats.requestedBytes, old.active, r.active, Requested)
  /\ s.quarantined = Change(stats.quarantined, old.quarantined, r.quarantined, 1)
  /\ s.quarantinedBytes = Change(stats.quarantinedBytes, old.quarantined /\ old.mapped,
                                 r.quarantined /\ r.mapped, Mapped)

-----------------------------------------------------------------------------
(* Facts about sets of addresses and about products.                       *)

(* A set that changes in one address only grows or shrinks by one.         *)
LEMMA CardinalityMoves ==
  ASSUME NEW S \in SUBSET Addr, NEW T \in SUBSET Addr, NEW a \in Addr,
         \A b \in Addr : b # a => (b \in S <=> b \in T)
  PROVE  /\ Cardinality(S) \in Nat /\ Cardinality(T) \in Nat
         /\ Cardinality(T) = Change(Cardinality(S), a \in S, a \in T, 1)
<1>1. IsFiniteSet(S) /\ IsFiniteSet(T) /\ Cardinality(S) \in Nat /\ Cardinality(T) \in Nat
  BY AllocatorAssumption, FS_Subset, FS_CardinalityType
<1>2. CASE a \in S <=> a \in T
  <2>1. S = T
    BY <1>2
  <2> QED BY <2>1, <1>1 DEF Change
<1>3. CASE a \in T /\ a \notin S
  <2>1. T = S \union {a}
    BY <1>3
  <2>2. Cardinality(T) = Cardinality(S) + 1
    BY <1>1, <1>3, <2>1, FS_AddElement
  <2> QED BY <2>2, <1>1, <1>3 DEF Change
<1>4. CASE a \in S /\ a \notin T
  <2>1. T = S \ {a}
    BY <1>4
  <2>2. Cardinality(T) = Cardinality(S) - 1
    BY <1>1, <1>4, <2>1, FS_RemoveElement
  <2> QED BY <2>2, <1>1, <1>4 DEF Change
<1> QED BY <1>2, <1>3, <1>4

-----------------------------------------------------------------------------
(* What a new record for one address does to the sets and the counts.      *)
LEMMA KeepFacts ==
  ASSUME seg \in [Addr -> SegmentType], NEW a \in Addr, NEW r \in SegmentType, Keep(a, r)
  PROVE  /\ seg' \in [Addr -> SegmentType] /\ seg'[a] = r
         /\ \A b \in Addr : b # a => seg'[b] = seg[b]
  BY DEF Keep, SegmentType

(* The sets follow the record of the address.                              *)
Joins(S, a, b) == IF b THEN S \union {a} ELSE S \ {a}
LEMMA KnownMoves ==
  ASSUME seg \in [Addr -> SegmentType], NEW a \in Addr, NEW r \in SegmentType, Keep(a, r)
  PROVE  /\ Known("reserved")' = Joins(Known("reserved"), a, r.reserved)
         /\ Known("handle")' = Joins(Known("handle"), a, r.handle)
         /\ Known("mapped")' = Joins(Known("mapped"), a, r.mapped)
         /\ Known("active")' = Joins(Known("active"), a, r.active)
         /\ Known("quarantined")' = Joins(Known("quarantined"), a, r.quarantined)
         /\ Doomed' = Joins(Doomed, a, r.quarantined /\ r.mapped)
<1>1. seg'[a] = r /\ \A b \in Addr : b # a => seg'[b] = seg[b]
  BY KeepFacts
<1>2. Known("reserved")' = Joins(Known("reserved"), a, r.reserved)
  BY <1>1 DEF Known, Joins
<1>3. Known("handle")' = Joins(Known("handle"), a, r.handle)
  BY <1>1 DEF Known, Joins
<1>4. Known("mapped")' = Joins(Known("mapped"), a, r.mapped)
  BY <1>1 DEF Known, Joins
<1>5. Known("active")' = Joins(Known("active"), a, r.active)
  BY <1>1 DEF Known, Joins
<1>6. Known("quarantined")' = Joins(Known("quarantined"), a, r.quarantined)
  BY <1>1 DEF Known, Joins
<1>7. Doomed' = Joins(Doomed, a, r.quarantined /\ r.mapped)
  BY <1>1 DEF Doomed, Joins
<1> QED BY <1>2, <1>3, <1>4, <1>5, <1>6, <1>7

LEMMA CountMoves ==
  ASSUME NEW S \in SUBSET Addr, NEW a \in Addr, NEW b \in BOOLEAN
  PROVE  /\ Joins(S, a, b) \in SUBSET Addr
         /\ Cardinality(S) \in Nat /\ Cardinality(Joins(S, a, b)) \in Nat
         /\ Cardinality(Joins(S, a, b)) = Change(Cardinality(S), a \in S, b, 1)
<1> DEFINE T == Joins(S, a, b)
<1>1. T \in SUBSET Addr /\ (a \in T <=> b) /\ \A c \in Addr : c # a => (c \in S <=> c \in T)
  BY DEF Joins
<1> HIDE DEF T
<1>2. /\ Cardinality(S) \in Nat /\ Cardinality(T) \in Nat
      /\ Cardinality(T) = Change(Cardinality(S), a \in S, a \in T, 1)
  BY <1>1, CardinalityMoves
<1>3. Change(Cardinality(S), a \in S, a \in T, 1) = Change(Cardinality(S), a \in S, b, 1)
  BY <1>1 DEF Change
<1>4. T = Joins(S, a, b)
  BY DEF T
<1> QED BY <1>1, <1>2, <1>3, <1>4

(* The number of a set and the bytes it stands for.                        *)
LEMMA BytesOfSetMove ==
  ASSUME NEW S \in SUBSET Addr, NEW a \in Addr, NEW b \in BOOLEAN, NEW unit \in Nat
  PROVE  unit * Cardinality(Joins(S, a, b))
           = Change(unit * Cardinality(S), a \in S, b, unit)
<1> DEFINE m == Cardinality(S)
           n == Cardinality(Joins(S, a, b))
<1>1. m \in Nat /\ n \in Nat /\ n = Change(m, a \in S, b, 1)
  BY CountMoves
<1> HIDE DEF m, n
<1>2. unit * (m + 1) = unit * m + unit /\ unit * (n + 1) = unit * n + unit
      /\ unit * m \in Int /\ unit * n \in Int
  BY <1>1
<1>3. unit * n = Change(unit * m, a \in S, b, unit)
  <2>1. CASE a \in S <=> b
    <3>1. n = m
      BY <2>1, <1>1 DEF Change
    <3> QED BY <3>1, <2>1, <1>2 DEF Change
  <2>2. CASE b /\ a \notin S
    <3>1. n = m + 1
      BY <2>2, <1>1 DEF Change
    <3> QED BY <3>1, <2>2, <1>2 DEF Change
  <2>3. CASE a \in S /\ ~b
    <3>1. m = n + 1
      BY <2>3, <1>1 DEF Change
    <3> QED BY <3>1, <2>3, <1>2 DEF Change
  <2> QED BY <2>1, <2>2, <2>3
<1> QED BY <1>3 DEF m, n

(* The statistics stay right when they move with the record.               *)
LEMMA StatisticsMove ==
  ASSUME Types, Statistics, Known("handle") = drv.handle, Known("mapped") = drv.mapped,
         NEW a \in Addr, NEW r \in SegmentType, Keep(a, r),
         DriverMoves(a, r, drv'), StatsMove(a, r, stats'), emergency' = emergency
  PROVE  Statistics'
<1>1. /\ Known("handle") \in SUBSET Addr /\ Known("mapped") \in SUBSET Addr
      /\ Known("active") \in SUBSET Addr /\ Known("quarantined") \in SUBSET Addr
      /\ Doomed \in SUBSET Addr /\ drv.reserved \in SUBSET Addr /\ seg[a] \in SegmentType
      /\ seg \in [Addr -> SegmentType]
  BY DEF Known, Doomed, Types, DriverType
<1>2. /\ (a \in Known("handle")) = seg[a].handle /\ (a \in Known("mapped")) = seg[a].mapped
      /\ (a \in Known("active")) = seg[a].active
      /\ (a \in Known("quarantined")) = seg[a].quarantined
      /\ (a \in Doomed) = (seg[a].quarantined /\ seg[a].mapped)
  BY <1>1 DEF Known, Doomed, SegmentType
<1>3. /\ r.handle \in BOOLEAN /\ r.mapped \in BOOLEAN /\ r.active \in BOOLEAN
      /\ r.quarantined \in BOOLEAN /\ r.reserved \in BOOLEAN
      /\ (r.quarantined /\ r.mapped) \in BOOLEAN
  BY DEF SegmentType
<1>4. stats'.reserved = Cardinality(drv'.reserved)
  <2>1. drv'.reserved = Joins(drv.reserved, a, r.reserved)
    BY DEF DriverMoves, Joins
  <2>2. Cardinality(drv'.reserved) = Change(Cardinality(drv.reserved), a \in drv.reserved, r.reserved, 1)
    BY <2>1, <1>1, <1>3, CountMoves
  <2>3. stats'.reserved = Change(stats.reserved, a \in drv.reserved, r.reserved, 1)
    BY DEF StatsMove
  <2> QED BY <2>2, <2>3 DEF Statistics
<1>5. stats'.handles = Cardinality(Known("handle")')
  <2>1. Known("handle")' = Joins(Known("handle"), a, r.handle)
    BY <1>1, KnownMoves
  <2>2. Cardinality(Known("handle")') = Change(Cardinality(Known("handle")), a \in Known("handle"), r.handle, 1)
    BY <2>1, <1>1, <1>3, CountMoves
  <2>3. stats'.handles = Change(stats.handles, seg[a].handle, r.handle, 1)
    BY DEF StatsMove
  <2> QED BY <2>2, <2>3, <1>2 DEF Statistics
<1>6. stats'.maps = Cardinality(Known("mapped")') /\ stats'.mappedBytes = Mapped * Cardinality(Known("mapped")')
  <2>1. Known("mapped")' = Joins(Known("mapped"), a, r.mapped)
    BY <1>1, KnownMoves
  <2>2. Cardinality(Known("mapped")') = Change(Cardinality(Known("mapped")), a \in Known("mapped"), r.mapped, 1)
    BY <2>1, <1>1, <1>3, CountMoves
  <2>3. Mapped * Cardinality(Known("mapped")')
          = Change(Mapped * Cardinality(Known("mapped")), a \in Known("mapped"), r.mapped, Mapped)
    BY <2>1, <1>1, <1>3, BytesOfSetMove, AllocatorAssumption
  <2>4. /\ stats'.maps = Change(stats.maps, seg[a].mapped, r.mapped, 1)
        /\ stats'.mappedBytes = Change(stats.mappedBytes, seg[a].mapped, r.mapped, Mapped)
    BY DEF StatsMove
  <2> QED BY <2>2, <2>3, <2>4, <1>2 DEF Statistics
<1>7. stats'.active = Cardinality(Known("active")') /\ stats'.requestedBytes = Requested * Cardinality(Known("active")')
  <2>1. Known("active")' = Joins(Known("active"), a, r.active)
    BY <1>1, KnownMoves
  <2>2. Cardinality(Known("active")') = Change(Cardinality(Known("active")), a \in Known("active"), r.active, 1)
    BY <2>1, <1>1, <1>3, CountMoves
  <2>3. Requested * Cardinality(Known("active")')
          = Change(Requested * Cardinality(Known("active")), a \in Known("active"), r.active, Requested)
    BY <2>1, <1>1, <1>3, BytesOfSetMove, AllocatorAssumption
  <2>4. /\ stats'.active = Change(stats.active, seg[a].active, r.active, 1)
        /\ stats'.requestedBytes = Change(stats.requestedBytes, seg[a].active, r.active, Requested)
    BY DEF StatsMove
  <2> QED BY <2>2, <2>3, <2>4, <1>2 DEF Statistics
<1>8. stats'.quarantined = Cardinality(Known("quarantined")') + One(emergency'.reserved)
  <2>1. Known("quarantined")' = Joins(Known("quarantined"), a, r.quarantined)
    BY <1>1, KnownMoves
  <2>2. /\ Cardinality(Known("quarantined")) \in Nat
        /\ Cardinality(Known("quarantined")')
             = Change(Cardinality(Known("quarantined")), a \in Known("quarantined"), r.quarantined, 1)
    BY <2>1, <1>1, <1>3, CountMoves
  <2>3. stats'.quarantined = Change(stats.quarantined, seg[a].quarantined, r.quarantined, 1)
    BY DEF StatsMove
  <2>4. stats.quarantined = Cardinality(Known("quarantined")) + One(emergency.reserved)
    BY DEF Statistics
  <2>5. One(emergency.reserved) \in Int /\ One(emergency'.reserved) = One(emergency.reserved)
    BY DEF One
  <2> HIDE DEF One
  <2> DEFINE c == Cardinality(Known("quarantined"))
             d == Cardinality(Known("quarantined")')
             o == One(emergency.reserved)
  <2>6. d = Change(c, seg[a].quarantined, r.quarantined, 1)
    BY <2>2, <1>2
  <2>7. c \in Nat /\ o \in Int
    BY <2>2, <2>5
  <2>8. stats'.quarantined = Change(c + o, seg[a].quarantined, r.quarantined, 1)
    BY <2>3, <2>4
  <2> HIDE DEF c, d, o
  <2>9. stats'.quarantined = d + o
    BY <2>6, <2>7, <2>8 DEF Change
  <2> QED BY <2>9, <2>5 DEF d, o
<1>9. stats'.quarantinedBytes = Mapped * Cardinality(Doomed')
  <2>1. Doomed' = Joins(Doomed, a, r.quarantined /\ r.mapped)
    BY <1>1, KnownMoves
  <2>2. Mapped * Cardinality(Doomed')
          = Change(Mapped * Cardinality(Doomed), a \in Doomed, r.quarantined /\ r.mapped, Mapped)
    BY <2>1, <1>1, <1>3, BytesOfSetMove, AllocatorAssumption
  <2>3. stats'.quarantinedBytes = Change(stats.quarantinedBytes, seg[a].quarantined /\ seg[a].mapped,
                                         r.quarantined /\ r.mapped, Mapped)
    BY DEF StatsMove
  <2> QED BY <2>2, <2>3, <1>2 DEF Statistics
<1> QED BY <1>4, <1>5, <1>6, <1>7, <1>8, <1>9 DEF Statistics

(* The records stay sound when the driver moves with the record, and the   *)
(* address is no stray any more.                                           *)
LEMMA RecordsMove ==
  ASSUME Types, Recorded, NEW a \in Addr, NEW r \in SegmentType, Keep(a, r),
         DriverMoves(a, r, drv'),
         (r.st = "held") <=> r.reserved,
         r.handle \/ r.mapped \/ r.active \/ r.quarantined => r.reserved,
         r.active /\ ~r.quarantined /\ op'.a # a => r.handle /\ r.mapped,
         \A b \in Addr : b # a => op.a # b
  PROVE  Recorded' /\ Strays' = Strays \ {a}
<1>1. seg \in [Addr -> SegmentType]
  BY DEF Types
<1>2. seg'[a] = r /\ \A b \in Addr : b # a => seg'[b] = seg[b]
  BY <1>1, KeepFacts
<1>3. ASSUME NEW b \in Addr
      PROVE  SoundRecord(b)'
  <2>1. CASE b = a
    BY <2>1, <1>2 DEF SoundRecord
  <2>2. CASE b # a
    BY <2>2, <1>2 DEF SoundRecord, Recorded
  <2> QED BY <2>1, <2>2
<1>4. drv'.handle = Known("handle")' /\ drv'.mapped = Known("mapped")'
  BY <1>1, KnownMoves DEF DriverMoves, Joins, Recorded
<1>5. Known("reserved")' = Joins(Known("reserved"), a, r.reserved)
  BY <1>1, KnownMoves
<1>6. drv'.reserved = Joins(drv.reserved, a, r.reserved)
  BY DEF DriverMoves, Joins
<1>7. Known("reserved")' \subseteq drv'.reserved
  BY <1>5, <1>6 DEF Joins, Recorded
<1>8. Strays' = Strays \ {a}
  BY <1>5, <1>6 DEF Joins, Strays
<1> QED BY <1>3, <1>4, <1>7, <1>8 DEF Recorded

(* When nothing moves, neither do they.                                    *)
LEMMA NothingMoves ==
  ASSUME Types, UNCHANGED <<seg, drv>>
  PROVE  /\ UNCHANGED <<Strays, Doomed, Known("active"), Known("quarantined"),
                        Known("handle"), Known("mapped"), Known("reserved")>>
         /\ Recorded /\ (\A b \in Addr : SoundRecord(b)') => Recorded'
         /\ Statistics /\ UNCHANGED <<stats, emergency>> => Statistics'
<1>1. UNCHANGED <<Doomed, Known("active"), Known("quarantined"),
                  Known("handle"), Known("mapped"), Known("reserved")>>
  BY DEF Known, Doomed
<1>2. UNCHANGED Strays
  BY <1>1 DEF Strays
<1>3. Recorded /\ (\A b \in Addr : SoundRecord(b)') => Recorded'
  BY <1>1 DEF Recorded
<1>4. Statistics /\ UNCHANGED <<stats, emergency>> => Statistics'
  BY <1>1 DEF Statistics
<1> QED BY <1>1, <1>2, <1>3, <1>4

-----------------------------------------------------------------------------
(* The three clean-up calls, each of which may be left out or fail.        *)
Follows(a, r, d, s) ==
  LET old == seg[a] IN
  /\ r \in SegmentType
  /\ r.st = old.st /\ r.active = old.active /\ ~r.quarantined /\ ~old.quarantined
  /\ r.handle => old.handle
  /\ r.mapped => old.mapped
  /\ r.reserved => old.reserved
  /\ r.handle \/ r.mapped => r.reserved
  /\ DriverMoves(a, r, d) /\ StatsMove(a, r, s)

(* Beginning with what the allocator has.                                  *)
LEMMA FollowsNow ==
  ASSUME Types, Recorded, NEW a \in Addr, seg[a].reserved, ~seg[a].quarantined
  PROVE  Follows(a, seg[a], drv, stats)
<1>1. seg[a] \in SegmentType /\ drv \in DriverType /\ stats \in StatsType
  BY DEF Types
<1>2. /\ (a \in drv.handle) <=> seg[a].handle
      /\ (a \in drv.mapped) <=> seg[a].mapped
      /\ a \in drv.reserved
  BY DEF Recorded, Known
<1>3. DriverMoves(a, seg[a], drv)
  BY <1>1, <1>2 DEF DriverMoves
<1>4. StatsMove(a, seg[a], stats)
  BY <1>1, <1>2, AllocatorAssumption DEF StatsMove, Change, StatsType
<1> QED BY <1>1, <1>3, <1>4 DEF Follows

LEMMA UnmapFollows ==
  ASSUME Types, NEW a \in Addr, NEW r, NEW d, NEW s, Follows(a, r, d, s), r.mapped
  PROVE  Follows(a, [r EXCEPT !.mapped = FALSE], [d EXCEPT !.mapped = @ \ {a}],
                 [s EXCEPT !.maps = @ - 1, !.mappedBytes = @ - Mapped])
<1> DEFINE q == [r EXCEPT !.mapped = FALSE]
           e == [d EXCEPT !.mapped = @ \ {a}]
           t == [s EXCEPT !.maps = @ - 1, !.mappedBytes = @ - Mapped]
<1>1. r \in SegmentType /\ seg[a] \in SegmentType /\ d \in DriverType /\ s \in StatsType /\ Mapped \in Int
  BY AllocatorAssumption DEF Follows, DriverMoves, StatsMove, Types
<1>2. /\ q \in SegmentType /\ q.st = r.st /\ q.active = r.active /\ q.handle = r.handle
      /\ q.quarantined = r.quarantined /\ q.reserved = r.reserved /\ ~q.mapped
  BY <1>1 DEF SegmentType
<1>3. /\ e \in DriverType /\ e.handle = d.handle /\ e.reserved = d.reserved
      /\ e.mapped = d.mapped \ {a}
  BY <1>1 DEF DriverType
<1>4. /\ t \in StatsType /\ t.reserved = s.reserved /\ t.handles = s.handles
      /\ t.maps = s.maps - 1 /\ t.mappedBytes = s.mappedBytes - Mapped
      /\ t.active = s.active /\ t.requestedBytes = s.requestedBytes
      /\ t.quarantined = s.quarantined /\ t.quarantinedBytes = s.quarantinedBytes
  <2>1. s.maps - 1 \in Int /\ s.mappedBytes - Mapped \in Int
    BY <1>1 DEF StatsType
  <2> QED BY <2>1, <1>1 DEF StatsType
<1> HIDE DEF q, e, t
<1>5. DriverMoves(a, q, e)
  BY <1>2, <1>3 DEF Follows, DriverMoves
<1>6. StatsMove(a, q, t)
  <2>1. StatsMove(a, r, s)
    BY DEF Follows
  <2>2. t.maps = Change(stats.maps, seg[a].mapped, q.mapped, 1)
    <3>1. s.maps = Change(stats.maps, seg[a].mapped, r.mapped, 1)
      BY <2>1 DEF StatsMove
    <3> QED BY <3>1, <1>1, <1>2, <1>4 DEF Change, StatsType, Types
  <2>3. t.mappedBytes = Change(stats.mappedBytes, seg[a].mapped, q.mapped, Mapped)
    <3>1. s.mappedBytes = Change(stats.mappedBytes, seg[a].mapped, r.mapped, Mapped)
      BY <2>1 DEF StatsMove
    <3> QED BY <3>1, <1>1, <1>2, <1>4 DEF Change, StatsType, Types
  <2>4. t.quarantinedBytes = Change(stats.quarantinedBytes, seg[a].quarantined /\ seg[a].mapped,
                                   q.quarantined /\ q.mapped, Mapped)
    <3>1. s.quarantinedBytes = Change(stats.quarantinedBytes, seg[a].quarantined /\ seg[a].mapped,
                                      r.quarantined /\ r.mapped, Mapped)
      BY <2>1 DEF StatsMove
    <3>2. ~r.quarantined /\ ~q.quarantined
      BY <1>2 DEF Follows
    <3> QED BY <3>1, <3>2, <1>4 DEF Change
  <2> QED BY <2>1, <2>2, <2>3, <2>4, <1>2, <1>4 DEF StatsMove
<1>7. Follows(a, q, e, t)
  BY <1>2, <1>5, <1>6 DEF Follows
<1> QED BY <1>7 DEF q, e, t

LEMMA ReleaseFollows ==
  ASSUME Types, NEW a \in Addr, NEW r, NEW d, NEW s, Follows(a, r, d, s), r.handle
  PROVE  Follows(a, [r EXCEPT !.handle = FALSE], [d EXCEPT !.handle = @ \ {a}],
                 [s EXCEPT !.handles = @ - 1])
<1> DEFINE q == [r EXCEPT !.handle = FALSE]
           e == [d EXCEPT !.handle = @ \ {a}]
           t == [s EXCEPT !.handles = @ - 1]
<1>1. r \in SegmentType /\ seg[a] \in SegmentType /\ d \in DriverType /\ s \in StatsType
  BY DEF Follows, DriverMoves, StatsMove, Types
<1>2. /\ q \in SegmentType /\ q.st = r.st /\ q.active = r.active /\ ~q.handle
      /\ q.quarantined = r.quarantined /\ q.reserved = r.reserved /\ q.mapped = r.mapped
  BY <1>1 DEF SegmentType
<1>3. /\ e \in DriverType /\ e.mapped = d.mapped /\ e.reserved = d.reserved
      /\ e.handle = d.handle \ {a}
  BY <1>1 DEF DriverType
<1>4. /\ t \in StatsType /\ t.reserved = s.reserved /\ t.handles = s.handles - 1
      /\ t.maps = s.maps /\ t.mappedBytes = s.mappedBytes
      /\ t.active = s.active /\ t.requestedBytes = s.requestedBytes
      /\ t.quarantined = s.quarantined /\ t.quarantinedBytes = s.quarantinedBytes
  BY <1>1 DEF StatsType
<1> HIDE DEF q, e, t
<1>5. DriverMoves(a, q, e)
  BY <1>2, <1>3 DEF Follows, DriverMoves
<1>6. StatsMove(a, q, t)
  <2>1. StatsMove(a, r, s)
    BY DEF Follows
  <2>2. t.handles = Change(stats.handles, seg[a].handle, q.handle, 1)
    <3>1. s.handles = Change(stats.handles, seg[a].handle, r.handle, 1)
      BY <2>1 DEF StatsMove
    <3> QED BY <3>1, <1>1, <1>2, <1>4 DEF Change, StatsType, Types
  <2> QED BY <2>1, <2>2, <1>2, <1>4 DEF StatsMove
<1>7. Follows(a, q, e, t)
  BY <1>2, <1>5, <1>6 DEF Follows
<1> QED BY <1>7 DEF q, e, t

(* The reservation goes last: no handle and no mapping may depend on it.   *)
LEMMA FreeFollows ==
  ASSUME Types, Recorded, NEW a \in Addr, seg[a].reserved, NEW r, NEW d, NEW s,
         Follows(a, r, d, s), r.reserved, ~r.handle, ~r.mapped
  PROVE  Follows(a, [r EXCEPT !.reserved = FALSE], [d EXCEPT !.reserved = @ \ {a}],
                 [s EXCEPT !.reserved = @ - 1])
<1> DEFINE q == [r EXCEPT !.reserved = FALSE]
           e == [d EXCEPT !.reserved = @ \ {a}]
           t == [s EXCEPT !.reserved = @ - 1]
<1>1. /\ r \in SegmentType /\ seg[a] \in SegmentType /\ d \in DriverType /\ s \in StatsType
      /\ a \in drv.reserved
  BY DEF Follows, DriverMoves, StatsMove, Types, Recorded, Known
<1>2. /\ q \in SegmentType /\ q.st = r.st /\ q.active = r.active /\ q.handle = r.handle
      /\ q.quarantined = r.quarantined /\ ~q.reserved /\ q.mapped = r.mapped
  BY <1>1 DEF SegmentType
<1>3. /\ e \in DriverType /\ e.mapped = d.mapped /\ e.handle = d.handle
      /\ e.reserved = d.reserved \ {a}
  BY <1>1 DEF DriverType
<1>4. /\ t \in StatsType /\ t.reserved = s.reserved - 1 /\ t.handles = s.handles
      /\ t.maps = s.maps /\ t.mappedBytes = s.mappedBytes
      /\ t.active = s.active /\ t.requestedBytes = s.requestedBytes
      /\ t.quarantined = s.quarantined /\ t.quarantinedBytes = s.quarantinedBytes
  BY <1>1 DEF StatsType
<1> HIDE DEF q, e, t
<1>5. DriverMoves(a, q, e)
  BY <1>2, <1>3 DEF Follows, DriverMoves
<1>6. StatsMove(a, q, t)
  <2>1. StatsMove(a, r, s)
    BY DEF Follows
  <2>2. t.reserved = Change(stats.reserved, a \in drv.reserved, q.reserved, 1)
    <3>1. s.reserved = Change(stats.reserved, a \in drv.reserved, r.reserved, 1)
      BY <2>1 DEF StatsMove
    <3> QED BY <3>1, <1>1, <1>2, <1>4 DEF Change, StatsType, Types
  <2> QED BY <2>1, <2>2, <1>2, <1>4 DEF StatsMove
<1>7. Follows(a, q, e, t)
  BY <1>2, <1>5, <1>6 DEF Follows
<1> QED BY <1>7 DEF q, e, t

(* The same of the operators the actions use.                              *)
IsWorld(w, a) == w = World(w.r, w.d, w.s) /\ Follows(a, w.r, w.d, w.s)
LEMMA WorldParts ==
  ASSUME NEW r, NEW d, NEW s
  PROVE  World(r, d, s).r = r /\ World(r, d, s).d = d /\ World(r, d, s).s = s
  BY DEF World

LEMMA CallsFollow ==
  ASSUME Types, Recorded, NEW a \in Addr, seg[a].reserved, NEW w, IsWorld(w, a), NEW ok \in BOOLEAN
  PROVE  /\ IsWorld(AfterUnmap(w, a, ok), a)
         /\ IsWorld(AfterRelease(w, a, ok), a)
         /\ IsWorld(AfterFree(w, a, ok), a)
<1> DEFINE q == [w.r EXCEPT !.mapped = FALSE]
<1>1. Follows(a, w.r, w.d, w.s)
  BY DEF IsWorld
<1>2. ASSUME NEW r, NEW d, NEW s, Follows(a, r, d, s)
      PROVE  IsWorld(World(r, d, s), a)
  BY <1>2, WorldParts DEF IsWorld
<1>3. IsWorld(AfterUnmap(w, a, ok), a)
  <2>1. CASE ok /\ w.r.mapped
    <3>1. IsWorld(Unmapped(w, a), a)
      BY <1>1, <1>2, <2>1, UnmapFollows DEF Unmapped
    <3> QED BY <3>1, <2>1 DEF AfterUnmap
  <2>2. CASE ~(ok /\ w.r.mapped)
    BY <2>2 DEF AfterUnmap
  <2> QED BY <2>1, <2>2
<1>4. IsWorld(AfterRelease(w, a, ok), a)
  <2>1. CASE ok /\ w.r.handle
    <3>1. IsWorld(Released(w, a), a)
      BY <1>1, <1>2, <2>1, ReleaseFollows DEF Released
    <3> QED BY <3>1, <2>1 DEF AfterRelease
  <2>2. CASE ~(ok /\ w.r.handle)
    BY <2>2 DEF AfterRelease
  <2> QED BY <2>1, <2>2
<1>5. IsWorld(AfterFree(w, a, ok), a)
  <2>1. CASE ok /\ w.r.reserved /\ ~w.r.handle /\ ~w.r.mapped
    <3>1. IsWorld(Freed(w, a), a)
      BY <1>1, <1>2, <2>1, FreeFollows DEF Freed
    <3> QED BY <3>1, <2>1 DEF AfterFree, FreeOnlyBare
  <2>2. CASE ~(ok /\ w.r.reserved /\ ~w.r.handle /\ ~w.r.mapped)
    BY <2>2 DEF AfterFree, FreeOnlyBare
  <2> QED BY <2>1, <2>2
<1> QED BY <1>3, <1>4, <1>5

-----------------------------------------------------------------------------
(* How a clean-up ends: the record is gone, or it is kept in quarantine.   *)
LEMMA GoneMoves ==
  ASSUME Types, NEW a \in Addr, NEW r, NEW d, NEW s, Follows(a, r, d, s), Gone(r)
  PROVE  /\ Absent \in SegmentType /\ DriverMoves(a, Absent, d)
         /\ ~seg[a].active => StatsMove(a, Absent, s)
         /\ seg[a].active => StatsMove(a, Absent, Retired(s))
<1>1. /\ Absent \in SegmentType /\ Absent.st = "absent" /\ ~Absent.reserved /\ ~Absent.handle
      /\ ~Absent.mapped /\ ~Absent.active /\ ~Absent.quarantined
  BY DEF Absent, SegmentType
<1>2. /\ r \in SegmentType /\ seg[a] \in SegmentType /\ s \in StatsType
      /\ ~r.mapped /\ ~r.handle /\ ~r.reserved /\ r.active = seg[a].active
      /\ ~r.quarantined /\ ~seg[a].quarantined /\ Requested \in Int
  BY AllocatorAssumption DEF Follows, Gone, StatsMove, Types
<1> HIDE DEF Absent
<1>3. DriverMoves(a, Absent, d)
  BY <1>1, <1>2 DEF Follows, DriverMoves
<1>4. StatsMove(a, r, s)
  BY DEF Follows
<1>5. ASSUME ~seg[a].active
      PROVE  StatsMove(a, Absent, s)
  <2>1. s.quarantinedBytes = Change(stats.quarantinedBytes, seg[a].quarantined /\ seg[a].mapped,
                                    Absent.quarantined /\ Absent.mapped, Mapped)
    BY <1>1, <1>2, <1>4 DEF StatsMove, Change
  <2>2. /\ s.active = Change(stats.active, seg[a].active, Absent.active, 1)
        /\ s.requestedBytes = Change(stats.requestedBytes, seg[a].active, Absent.active, Requested)
    BY <1>1, <1>2, <1>4, <1>5 DEF StatsMove, Change
  <2>3. s.reserved = Change(stats.reserved, a \in drv.reserved, Absent.reserved, 1)
    BY <1>1, <1>2, <1>4 DEF StatsMove, Change
  <2>4. /\ s.handles = Change(stats.handles, seg[a].handle, Absent.handle, 1)
        /\ s.maps = Change(stats.maps, seg[a].mapped, Absent.mapped, 1)
        /\ s.mappedBytes = Change(stats.mappedBytes, seg[a].mapped, Absent.mapped, Mapped)
        /\ s.quarantined = Change(stats.quarantined, seg[a].quarantined, Absent.quarantined, 1)
    BY <1>1, <1>2, <1>4 DEF StatsMove, Change
  <2> QED BY <2>1, <2>2, <2>3, <2>4, <1>2 DEF StatsMove
<1>6. ASSUME seg[a].active
      PROVE  StatsMove(a, Absent, Retired(s))
  <2> DEFINE t == Retired(s)
  <2>1. /\ t \in StatsType /\ t.reserved = s.reserved /\ t.handles = s.handles
        /\ t.maps = s.maps /\ t.mappedBytes = s.mappedBytes
        /\ t.active = s.active - 1 /\ t.requestedBytes = s.requestedBytes - Requested
        /\ t.quarantined = s.quarantined /\ t.quarantinedBytes = s.quarantinedBytes
    <3>1. s.active - 1 \in Int /\ s.requestedBytes - Requested \in Int
      BY <1>2 DEF StatsType
    <3> QED BY <3>1, <1>2 DEF Retired, StatsType
  <2> HIDE DEF t
  <2>2. t.quarantinedBytes = Change(stats.quarantinedBytes, seg[a].quarantined /\ seg[a].mapped,
                                    Absent.quarantined /\ Absent.mapped, Mapped)
    BY <2>1, <1>1, <1>2, <1>4 DEF StatsMove, Change
  <2>3. t.active = Change(stats.active, seg[a].active, Absent.active, 1)
    <3>1. s.active = Change(stats.active, seg[a].active, r.active, 1)
      BY <1>4 DEF StatsMove
    <3> QED BY <3>1, <2>1, <1>1, <1>2, <1>6 DEF Change, Types, StatsType
  <2>4. t.requestedBytes = Change(stats.requestedBytes, seg[a].active, Absent.active, Requested)
    <3>1. s.requestedBytes = Change(stats.requestedBytes, seg[a].active, r.active, Requested)
      BY <1>4 DEF StatsMove
    <3> QED BY <3>1, <2>1, <1>1, <1>2, <1>6 DEF Change, Types, StatsType
  <2>5. t.reserved = Change(stats.reserved, a \in drv.reserved, Absent.reserved, 1)
    BY <2>1, <1>1, <1>2, <1>4 DEF StatsMove, Change
  <2>6. /\ t.handles = Change(stats.handles, seg[a].handle, Absent.handle, 1)
        /\ t.maps = Change(stats.maps, seg[a].mapped, Absent.mapped, 1)
        /\ t.mappedBytes = Change(stats.mappedBytes, seg[a].mapped, Absent.mapped, Mapped)
        /\ t.quarantined = Change(stats.quarantined, seg[a].quarantined, Absent.quarantined, 1)
    BY <2>1, <1>1, <1>2, <1>4 DEF StatsMove, Change
  <2>7. StatsMove(a, Absent, t)
    BY <2>1, <2>2, <2>3, <2>4, <2>5, <2>6 DEF StatsMove
  <2> QED BY <2>7 DEF t
<1> QED BY <1>1, <1>3, <1>5, <1>6

LEMMA QuarantineMoves ==
  ASSUME Types, NEW a \in Addr, NEW r, NEW d, NEW s, Follows(a, r, d, s)
  PROVE  LET q == [r EXCEPT !.quarantined = TRUE] IN
         /\ q \in SegmentType /\ q.st = r.st /\ q.reserved = r.reserved /\ q.handle = r.handle
         /\ q.mapped = r.mapped /\ q.active = r.active /\ q.quarantined
         /\ DriverMoves(a, q, d) /\ StatsMove(a, q, Counted(s, r))
<1> DEFINE q == [r EXCEPT !.quarantined = TRUE]
           t == Counted(s, r)
<1>1. /\ r \in SegmentType /\ seg[a] \in SegmentType /\ s \in StatsType
      /\ ~r.quarantined /\ ~seg[a].quarantined /\ Mapped \in Int
  BY AllocatorAssumption DEF Follows, StatsMove, Types
<1>2. /\ q \in SegmentType /\ q.st = r.st /\ q.reserved = r.reserved /\ q.handle = r.handle
      /\ q.mapped = r.mapped /\ q.active = r.active /\ q.quarantined
  BY <1>1 DEF SegmentType
<1>3. /\ t \in StatsType /\ t.reserved = s.reserved /\ t.handles = s.handles
      /\ t.maps = s.maps /\ t.mappedBytes = s.mappedBytes
      /\ t.active = s.active /\ t.requestedBytes = s.requestedBytes
      /\ t.quarantined = s.quarantined + 1
      /\ t.quarantinedBytes = s.quarantinedBytes + (IF r.mapped THEN Mapped ELSE 0)
  <2>1. s.quarantined + 1 \in Int /\ s.quarantinedBytes + (IF r.mapped THEN Mapped ELSE 0) \in Int
    BY <1>1 DEF StatsType
  <2> QED BY <2>1, <1>1 DEF Counted, StatsType
<1> HIDE DEF q, t
<1>4. DriverMoves(a, q, d)
  BY <1>2 DEF Follows, DriverMoves
<1>5. StatsMove(a, r, s)
  BY DEF Follows
<1>6. t.quarantinedBytes = Change(stats.quarantinedBytes, seg[a].quarantined /\ seg[a].mapped,
                                  q.quarantined /\ q.mapped, Mapped)
  <2>1. s.quarantinedBytes = Change(stats.quarantinedBytes, seg[a].quarantined /\ seg[a].mapped,
                                    r.quarantined /\ r.mapped, Mapped)
    BY <1>5 DEF StatsMove
  <2> QED BY <2>1, <1>1, <1>2, <1>3 DEF Change, Types, StatsType
<1>7. t.quarantined = Change(stats.quarantined, seg[a].quarantined, q.quarantined, 1)
  <2>1. s.quarantined = Change(stats.quarantined, seg[a].quarantined, r.quarantined, 1)
    BY <1>5 DEF StatsMove
  <2> QED BY <2>1, <1>1, <1>2, <1>3 DEF Change, Types, StatsType
<1>8. StatsMove(a, q, t)
  BY <1>2, <1>3, <1>5, <1>6, <1>7 DEF StatsMove
<1> QED BY <1>2, <1>4, <1>8 DEF q, t

-----------------------------------------------------------------------------
(* A step that gives one address a new record keeps the invariant.         *)

(* What such a record has to be.                                           *)
Sound(a, r) ==
  /\ (r.st = "held") <=> r.reserved
  /\ r.handle \/ r.mapped \/ r.active \/ r.quarantined => r.reserved
  /\ r.active /\ ~r.quarantined /\ op'.a # a => r.handle /\ r.mapped
  /\ r.quarantined => poisoned'

(* What is the same in every such step.                                    *)
Onward(a) ==
  /\ op.a \in {a, None} /\ (op.pc = "register" \/ seg[a].reserved)
  /\ op.pc # "unreserve"
  /\ emergency' = emergency /\ work' = work
  /\ poisoned' \in BOOLEAN /\ (poisoned => poisoned')
  /\ depth' \in 0..1
  /\ op' \in [pc : Pc \ {"register", "unreserve"}, a : {a, None}, failed : BOOLEAN]
  /\ IF op'.pc = "idle" THEN op'.a = None ELSE op'.a \in Addr
  /\ op'.pc \notin {"fence", "unmap", "release"} => depth' = 0 \/ poisoned'

LEMMA SegmentStep ==
  ASSUME AllocatorInv, NEW a \in Addr, NEW r \in SegmentType, Keep(a, r),
         DriverMoves(a, r, drv'), StatsMove(a, r, stats'), Sound(a, r), Onward(a),
         a \in work => r.active /\ (seg[a].mapped => r.mapped), Step'
  PROVE  AllocatorInv' /\ NoUnmapUnderWork /\ EmergencyIsKept
<1> USE DEF AllocatorInv
<1>1. seg' \in [Addr -> SegmentType] /\ seg'[a] = r /\ \A b \in Addr : b # a => seg'[b] = seg[b]
  BY KeepFacts DEF Types
<1>2. Types'
  <2>1. op' \in [pc : Pc, a : Addr \union {None}, failed : BOOLEAN]
    BY DEF Onward
  <2>2. drv' \in DriverType /\ stats' \in StatsType
    BY DEF DriverMoves, StatsMove
  <2>3. /\ emergency' \in {Absent, Untracked} /\ poisoned' \in BOOLEAN
        /\ depth' \in 0..1 /\ work' \in SUBSET Addr
        /\ IF op'.pc = "idle" THEN op'.a = None ELSE op'.a \in Addr
    BY DEF Onward, Types
  <2> QED BY <1>1, <2>1, <2>2, <2>3 DEF Types
<1>3. Recorded' /\ Strays' = Strays \ {a}
  <2>1. \A b \in Addr : b # a => op.a # b
    BY AllocatorAssumption DEF Onward
  <2> QED BY <2>1, RecordsMove DEF Sound
<1>4. Strayed'
  <2>1. op'.pc \notin {"register", "unreserve"}
    BY DEF Onward
  <2>2. IF emergency.reserved THEN \E b \in Addr : Strays' = {b} ELSE Strays' = {}
    <3>1. CASE op.pc = "register"
      <4>1. ~poisoned /\ Strays = {op.a} /\ op.a = a
        BY <3>1, AllocatorAssumption DEF Strayed, Onward, Types
      <4>2. ~emergency.reserved
        BY <4>1 DEF Poisoning
      <4> QED BY <4>1, <4>2, <1>3
    <3>2. CASE op.pc # "register"
      <4>1. IF emergency.reserved THEN \E b \in Addr : Strays = {b} ELSE Strays = {}
        BY <3>2 DEF Strayed, Onward
      <4>2. a \notin Strays
        BY <3>2 DEF Onward, Strays, Known
      <4> QED BY <4>1, <4>2, <1>3
    <3> QED BY <3>1, <3>2
  <2> QED BY <2>1, <2>2 DEF Strayed, Onward
<1>5. Poisoning'
  <2>1. \A b \in Addr : seg'[b].quarantined => poisoned'
    BY <1>1 DEF Sound, Onward, Poisoning
  <2> QED BY <2>1 DEF Poisoning, Onward
<1>6. WorkKnown'
  BY <1>1 DEF WorkKnown, Known, Onward
<1>7. Statistics'
  <2>1. Known("handle") = drv.handle /\ Known("mapped") = drv.mapped
    BY DEF Recorded
  <2> QED BY <2>1, StatisticsMove DEF Onward
<1>8. NoUnmapUnderWork
  <2>1. (drv.mapped \ drv'.mapped) \subseteq {a} /\ (r.mapped => a \in drv'.mapped)
    BY DEF DriverMoves
  <2>2. a \in drv.mapped => seg[a].mapped
    BY DEF Recorded, Known
  <2> QED BY <2>1, <2>2 DEF NoUnmapUnderWork
<1>9. EmergencyIsKept
  <2>1. poisoned => a \in drv.reserved
    <3>1. CASE op.pc = "register"
      BY <3>1 DEF Strayed
    <3>2. CASE op.pc # "register"
      BY <3>2 DEF Onward, Recorded, Known
    <3> QED BY <3>1, <3>2
  <2> QED BY <2>1 DEF EmergencyIsKept, Onward, DriverMoves
<1> QED BY <1>2, <1>3, <1>4, <1>5, <1>6, <1>7, <1>8, <1>9

-----------------------------------------------------------------------------
(* allocate, one step at a time.                                           *)
LEMMA IdleRecord ==
  /\ Idle.pc = "idle" /\ Idle.a = None /\ Idle.failed = FALSE
  /\ Absent \in SegmentType /\ Absent.st = "absent" /\ ~Absent.reserved /\ ~Absent.handle
  /\ ~Absent.mapped /\ ~Absent.active /\ ~Absent.quarantined
  /\ Untracked \in SegmentType /\ Untracked.st = "held" /\ Untracked.reserved
  /\ ~Untracked.mapped /\ ~Untracked.handle /\ ~Untracked.active /\ Untracked.quarantined
  BY DEF Idle, Absent, Untracked, SegmentType

LEMMA InCall ==
  ASSUME Types, op.pc # "idle"
  PROVE  /\ op.a \in Addr /\ op.a # None /\ seg[op.a] \in SegmentType
         /\ op \in [pc : Pc, a : Addr \union {None}, failed : BOOLEAN]
  BY AllocatorAssumption DEF Types

(* A step of a call that ends it or goes on at a later one.                *)
LEMMA CallGoesOn ==
  ASSUME Types, op.pc # "idle", op.pc # "unreserve",
         op.pc = "register" \/ seg[op.a].reserved,
         NEW pc \in Pc \ {"idle", "register", "unreserve"},
         Goto(pc), UNCHANGED <<emergency, work, poisoned, depth>>,
         pc \notin {"fence", "unmap", "release"} => depth = 0 \/ poisoned
  PROVE  Onward(op.a) /\ op'.pc = pc /\ op'.a = op.a
<1>1. op.a \in Addr /\ op \in [pc : Pc, a : Addr \union {None}, failed : BOOLEAN]
  BY InCall
<1>2. op'.pc = pc /\ op'.a = op.a /\ op'.failed = op.failed
      /\ op' = [pc |-> pc, a |-> op.a, failed |-> op.failed]
  BY <1>1 DEF Goto
<1>3. op' \in [pc : Pc \ {"register", "unreserve"}, a : {op.a, None}, failed : BOOLEAN]
  BY <1>1, <1>2
<1> QED BY <1>1, <1>2, <1>3 DEF Onward, Types

LEMMA CallEnds ==
  ASSUME Types, op.pc # "idle", op.pc # "unreserve",
         op.pc = "register" \/ seg[op.a].reserved,
         Done, UNCHANGED <<emergency, work>>, poisoned' \in BOOLEAN, poisoned => poisoned',
         depth' \in 0..1, depth' = 0 \/ poisoned'
  PROVE  Onward(op.a) /\ op'.pc = "idle" /\ op'.a = None
<1>1. op' \in [pc : Pc \ {"register", "unreserve"}, a : {op.a, None}, failed : BOOLEAN]
      /\ op'.pc = "idle" /\ op'.a = None
  BY IdleRecord DEF Done, Idle, Pc
<1> QED BY <1>1 DEF Onward

LEMMA ReserveKeeps ==
  ASSUME AllocatorInv, NEW a \in Addr, Reserve(a)
  PROVE  AllocatorInv' /\ NoUnmapUnderWork /\ EmergencyIsKept
<1> USE DEF AllocatorInv
<1>1. /\ op'.pc = "register" /\ op'.a = a /\ op.pc = "idle" /\ op.a = None /\ ~poisoned
      /\ op' \in [pc : Pc, a : Addr \union {None}, failed : BOOLEAN]
  BY DEF Reserve, At, MayReserve, Types, Pc, Idle
<1>2. /\ drv' \in DriverType /\ drv'.reserved = drv.reserved \union {a} /\ a \notin drv.reserved
      /\ drv'.handle = drv.handle /\ drv'.mapped = drv.mapped
  BY DEF Reserve, Types, DriverType
<1>3. stats' \in StatsType /\ stats' = [stats EXCEPT !.reserved = stats.reserved + 1]
  BY DEF Reserve, Types, StatsType
<1>4. Types'
  BY <1>1, <1>2, <1>3 DEF Types, Reserve
<1>5. UNCHANGED <<Doomed, Known("active"), Known("quarantined"),
                  Known("handle"), Known("mapped"), Known("reserved")>>
  BY DEF Known, Doomed, Reserve
<1>6. Recorded'
  <2>1. \A b \in Addr : SoundRecord(b)'
    BY <1>1, AllocatorAssumption DEF Recorded, SoundRecord, Reserve
  <2> QED BY <2>1, <1>2, <1>5 DEF Recorded
<1>7. Strayed'
  <2>1. Strays = {}
    BY <1>1 DEF Strayed, Poisoning
  <2>2. Strays' = {a}
    BY <2>1, <1>2, <1>5 DEF Strays, Recorded
  <2> QED BY <2>2, <1>1 DEF Strayed, Reserve
<1>8. Poisoning' /\ Step' /\ WorkKnown'
  BY <1>1, <1>5 DEF Poisoning, Step, WorkKnown, Reserve
<1>9. Statistics'
  <2>1. Cardinality(drv'.reserved) = Cardinality(drv.reserved) + 1
    BY <1>2, AllocatorAssumption, FS_Subset, FS_AddElement DEF Types, DriverType
  <2>2. stats'.reserved = Cardinality(drv'.reserved)
    BY <2>1, <1>3 DEF Statistics, Types, StatsType
  <2>3. /\ stats'.handles = stats.handles /\ stats'.maps = stats.maps
        /\ stats'.mappedBytes = stats.mappedBytes /\ stats'.active = stats.active
        /\ stats'.requestedBytes = stats.requestedBytes
        /\ stats'.quarantined = stats.quarantined
        /\ stats'.quarantinedBytes = stats.quarantinedBytes
    BY <1>3 DEF Types, StatsType
  <2>4. emergency' = emergency
    BY DEF Reserve
  <2> QED BY <2>2, <2>3, <2>4, <1>5 DEF Statistics
<1>10. NoUnmapUnderWork /\ EmergencyIsKept
  BY <1>1, <1>2 DEF NoUnmapUnderWork, EmergencyIsKept, Reserve
<1> QED BY <1>4, <1>6, <1>7, <1>8, <1>9, <1>10

LEMMA RegisterKeeps ==
  ASSUME AllocatorInv, Register
  PROVE  AllocatorInv' /\ NoUnmapUnderWork /\ EmergencyIsKept
<1> USE DEF AllocatorInv
<1> DEFINE r == [Absent EXCEPT !.st = "held", !.reserved = TRUE]
<1>1. /\ op.pc = "register" /\ op.a \in Addr /\ seg[op.a] \in SegmentType
      /\ ~poisoned /\ Strays = {op.a}
  BY InCall DEF Register, At, Strayed
<1>2. /\ op.a \in drv.reserved /\ ~seg[op.a].reserved /\ ~seg[op.a].handle
      /\ ~seg[op.a].mapped /\ ~seg[op.a].active /\ ~seg[op.a].quarantined
  BY <1>1 DEF Strays, Known, Recorded, SoundRecord
<1>3. depth = 0 /\ op.a \notin work
  BY <1>1, <1>2 DEF Poisoning, WorkKnown, Known
<1>4. CASE Keep(op.a, r) /\ Goto("create")
  <2>1. /\ r \in SegmentType /\ r.st = "held" /\ r.reserved /\ ~r.handle /\ ~r.mapped
        /\ ~r.active /\ ~r.quarantined
    BY DEF Absent, SegmentType
  <2> HIDE DEF r
  <2>2. Onward(op.a) /\ op'.pc = "create" /\ op'.a = op.a
    BY <1>1, <1>3, <1>4, CallGoesOn DEF Register, Pc
  <2>3. seg'[op.a] = r
    BY <1>1, <1>4, <2>1, KeepFacts DEF Types
  <2>4. DriverMoves(op.a, r, drv')
    <3>1. drv' = drv /\ drv \in DriverType
      BY DEF Register, Types
    <3>2. op.a \notin drv.handle /\ op.a \notin drv.mapped
      BY <1>2 DEF Recorded, Known
    <3> QED BY <3>1, <3>2, <1>2, <2>1 DEF DriverMoves
  <2>5. StatsMove(op.a, r, stats')
    <3>1. stats' = stats /\ stats \in StatsType
      BY DEF Register, Types
    <3> QED BY <3>1, <1>2, <2>1, AllocatorAssumption DEF StatsMove, Change, StatsType
  <2>6. Sound(op.a, r) /\ Step'
    BY <2>1, <2>2, <2>3 DEF Sound, Step
  <2> QED BY <1>1, <1>3, <1>4, <2>1, <2>2, <2>4, <2>5, <2>6, SegmentStep
<1>5. CASE Goto("unreserve") /\ seg' = seg
  <2>1. /\ op' \in [pc : Pc, a : Addr \union {None}, failed : BOOLEAN]
        /\ op'.pc = "unreserve" /\ op'.a = op.a
    BY <1>1, <1>5 DEF Goto, Types, Pc
  <2>2. UNCHANGED <<seg, drv, stats, emergency, poisoned, work, depth>>
    BY <1>5 DEF Register
  <2>3. Types'
    BY <1>1, <2>1, <2>2 DEF Types
  <2>4. Recorded'
    BY <2>1, <2>2, NothingMoves DEF Recorded, SoundRecord
  <2>5. Strayed' /\ Poisoning' /\ WorkKnown' /\ Statistics'
    BY <1>1, <2>1, <2>2, NothingMoves DEF Strayed, Poisoning, WorkKnown
  <2>6. Step' /\ NoUnmapUnderWork /\ EmergencyIsKept
    BY <2>1, <2>2 DEF Step, NoUnmapUnderWork, EmergencyIsKept
  <2> QED BY <2>3, <2>4, <2>5, <2>6
<1> QED BY <1>4, <1>5 DEF Register

LEMMA UnreserveKeeps ==
  ASSUME AllocatorInv, Unreserve
  PROVE  AllocatorInv' /\ NoUnmapUnderWork /\ EmergencyIsKept
<1> USE DEF AllocatorInv
<1>1. /\ op.pc = "unreserve" /\ op.a \in Addr /\ ~poisoned /\ Strays = {op.a}
      /\ ~emergency.reserved /\ depth = 0 /\ emergency = Absent
  BY InCall, IdleRecord DEF Unreserve, At, Strayed, Poisoning, Types
<1>2. /\ op' \in [pc : Pc, a : Addr \union {None}, failed : BOOLEAN]
      /\ op'.pc = "idle" /\ op'.a = None
  BY IdleRecord DEF Unreserve, Done, Idle, Pc
<1>3. ~seg[op.a].reserved /\ op.a \in drv.reserved /\ op.a \notin drv.mapped
  BY <1>1 DEF Strays, Known, Recorded, SoundRecord
<1>4. UNCHANGED <<Doomed, Known("active"), Known("quarantined"),
                  Known("handle"), Known("mapped"), Known("reserved")>>
  BY DEF Known, Doomed, Unreserve
<1>5. \A b \in Addr : SoundRecord(b)'
  BY <1>1, <1>3 DEF Recorded, SoundRecord, Unreserve
<1>6. WorkKnown' /\ Step' /\ UNCHANGED <<seg, work, depth>>
  BY <1>2, <1>4 DEF WorkKnown, Step, Unreserve
<1>7. CASE /\ drv' = [drv EXCEPT !.reserved = @ \ {op.a}]
           /\ stats' = [stats EXCEPT !.reserved = @ - 1]
           /\ UNCHANGED <<emergency, poisoned>>
  <2>1. /\ drv' \in DriverType /\ drv'.reserved = drv.reserved \ {op.a}
        /\ drv'.handle = drv.handle /\ drv'.mapped = drv.mapped
    BY <1>7 DEF Types, DriverType
  <2>2. stats' \in StatsType /\ stats' = [stats EXCEPT !.reserved = stats.reserved - 1]
    BY <1>7 DEF Types, StatsType
  <2>3. Types'
    BY <1>2, <1>6, <1>7, <2>1, <2>2 DEF Types
  <2>4. Recorded'
    BY <1>3, <1>4, <1>5, <2>1 DEF Recorded, Known
  <2>5. Strayed'
    <3>1. Strays' = {}
      BY <1>1, <1>4, <2>1 DEF Strays
    <3> QED BY <3>1, <1>1, <1>2, <1>7 DEF Strayed
  <2>6. Poisoning'
    BY <1>1, <1>6, <1>7 DEF Poisoning
  <2>7. Statistics'
    <3>1. Cardinality(drv'.reserved) = Cardinality(drv.reserved) - 1
      BY <1>3, <2>1, AllocatorAssumption, FS_Subset, FS_RemoveElement DEF Types, DriverType
    <3>2. stats'.reserved = Cardinality(drv'.reserved)
      BY <3>1, <2>2 DEF Statistics, Types, StatsType
    <3>3. /\ stats'.handles = stats.handles /\ stats'.maps = stats.maps
          /\ stats'.mappedBytes = stats.mappedBytes /\ stats'.active = stats.active
          /\ stats'.requestedBytes = stats.requestedBytes
          /\ stats'.quarantined = stats.quarantined
          /\ stats'.quarantinedBytes = stats.quarantinedBytes
      BY <2>2 DEF Types, StatsType
    <3> QED BY <3>2, <3>3, <1>4, <1>7 DEF Statistics
  <2>8. NoUnmapUnderWork /\ EmergencyIsKept
    BY <1>7, <2>1 DEF NoUnmapUnderWork, EmergencyIsKept
  <2> QED BY <1>6, <2>3, <2>4, <2>5, <2>6, <2>7, <2>8
<1>8. CASE /\ emergency' = Emergency /\ poisoned' = TRUE
           /\ stats' = Counted(stats, Untracked)
           /\ drv' = drv
  <2>1. emergency' = Untracked /\ emergency'.reserved
    BY <1>8, IdleRecord DEF Emergency
  <2>2. stats' \in StatsType /\ stats' = [stats EXCEPT !.quarantined = stats.quarantined + 1]
    <3>1. stats' = [stats EXCEPT !.quarantined = stats.quarantined + 1,
                                 !.quarantinedBytes = stats.quarantinedBytes + 0]
      BY <1>8, IdleRecord DEF Counted
    <3>2. /\ stats \in StatsType /\ stats.quarantinedBytes + 0 = stats.quarantinedBytes
          /\ stats.quarantined + 1 \in Int
      BY DEF Types, StatsType
    <3> QED BY <3>1, <3>2 DEF StatsType
  <2>3. Types'
    BY <1>2, <1>6, <1>8, <2>1, <2>2 DEF Types
  <2>4. Recorded'
    BY <1>4, <1>5, <1>8 DEF Recorded
  <2>5. Strayed'
    <3>1. Strays' = {op.a}
      BY <1>1, <1>4, <1>8 DEF Strays
    <3> QED BY <3>1, <1>1, <1>2, <2>1 DEF Strayed
  <2>6. Poisoning'
    BY <1>6, <1>8 DEF Poisoning
  <2>7. Statistics'
    <3>1. /\ stats'.handles = stats.handles /\ stats'.maps = stats.maps
          /\ stats'.mappedBytes = stats.mappedBytes /\ stats'.active = stats.active
          /\ stats'.requestedBytes = stats.requestedBytes
          /\ stats'.reserved = stats.reserved
          /\ stats'.quarantinedBytes = stats.quarantinedBytes
          /\ stats'.quarantined = stats.quarantined + 1
      BY <2>2 DEF Types, StatsType
    <3>2. One(emergency.reserved) = 0 /\ One(emergency'.reserved) = 1
      BY <1>1, <2>1 DEF One
    <3>3. Cardinality(Known("quarantined")) \in Nat
      BY AllocatorAssumption, FS_Subset, FS_CardinalityType DEF Known
    <3>4. stats'.quarantined = Cardinality(Known("quarantined")') + One(emergency'.reserved)
      BY <1>4, <3>1, <3>2, <3>3 DEF Statistics
    <3> QED BY <3>1, <3>4, <1>4, <1>8 DEF Statistics
  <2>8. NoUnmapUnderWork /\ EmergencyIsKept
    BY <1>1, <1>8, IdleRecord DEF NoUnmapUnderWork, EmergencyIsKept
  <2> QED BY <1>6, <2>3, <2>4, <2>5, <2>6, <2>7, <2>8
<1> QED BY <1>7, <1>8 DEF Unreserve

(* A set-up step that fails goes to the rollback and moves nothing else.   *)
LEMMA SetupFails ==
  ASSUME AllocatorInv, op.pc \in {"create", "map", "access"}, Goto("rollback"),
         UNCHANGED <<seg, emergency, poisoned, stats, drv, work, depth>>
  PROVE  AllocatorInv' /\ NoUnmapUnderWork /\ EmergencyIsKept
<1> USE DEF AllocatorInv
<1>1. op.a \in Addr
  BY InCall
<1>2. /\ op' \in [pc : Pc, a : Addr \union {None}, failed : BOOLEAN]
      /\ op'.pc = "rollback" /\ op'.a = op.a
  BY DEF Goto, Types, Pc
<1>3. Types' /\ Recorded'
  BY <1>1, <1>2, NothingMoves DEF Types, Recorded, SoundRecord
<1>4. Strayed' /\ Poisoning' /\ WorkKnown' /\ Statistics'
  BY <1>1, <1>2, NothingMoves DEF Strayed, Poisoning, WorkKnown
<1>5. Step' /\ NoUnmapUnderWork /\ EmergencyIsKept
  BY <1>2 DEF Step, NoUnmapUnderWork, EmergencyIsKept
<1> QED BY <1>3, <1>4, <1>5

(* What a call that sets a segment up finds.                               *)
LEMMA SettingUp ==
  ASSUME AllocatorInv, op.pc \in {"create", "map", "access", "rollback"}
  PROVE  /\ op.a \in Addr /\ seg[op.a] \in SegmentType /\ op.a \in drv.reserved
         /\ seg[op.a].st = "held" /\ seg[op.a].reserved
         /\ ~seg[op.a].active /\ ~seg[op.a].quarantined /\ op.a \notin work
         /\ (op.a \in drv.handle <=> seg[op.a].handle) /\ (op.a \in drv.mapped <=> seg[op.a].mapped)
         /\ (depth = 0 \/ poisoned)
<1> USE DEF AllocatorInv
<1>1. op.a \in Addr /\ seg[op.a] \in SegmentType
  BY InCall
<1>2. seg[op.a].reserved /\ ~seg[op.a].active /\ ~seg[op.a].quarantined
  BY DEF Step
<1>3. seg[op.a].st = "held"
  BY <1>1, <1>2 DEF Recorded, SoundRecord
<1>4. op.a \notin work
  BY <1>2 DEF WorkKnown, Known
<1>5. /\ op.a \in drv.reserved /\ (op.a \in drv.handle <=> seg[op.a].handle)
      /\ (op.a \in drv.mapped <=> seg[op.a].mapped)
  BY <1>1, <1>2 DEF Recorded, Known
<1>6. depth = 0 \/ poisoned
  BY DEF Poisoning
<1> QED BY <1>1, <1>2, <1>3, <1>4, <1>5, <1>6

LEMMA CreateKeeps ==
  ASSUME AllocatorInv, Create
  PROVE  AllocatorInv' /\ NoUnmapUnderWork /\ EmergencyIsKept
<1> DEFINE r == [seg[op.a] EXCEPT !.handle = TRUE]
<1>1. op.pc = "create" /\ Types /\ ~seg[op.a].handle /\ ~seg[op.a].mapped
  BY DEF Create, At, AllocatorInv, Step
<1>2. CASE /\ Keep(op.a, r) /\ Goto("map")
           /\ drv' = [drv EXCEPT !.handle = @ \union {op.a}]
           /\ stats' = [stats EXCEPT !.handles = @ + 1]
  <2>1. /\ r \in SegmentType /\ r.st = "held" /\ r.reserved /\ r.handle /\ ~r.mapped
        /\ ~r.active /\ ~r.quarantined
    BY <1>1, SettingUp DEF SegmentType
  <2> HIDE DEF r
  <2>2. Onward(op.a) /\ op'.pc = "map" /\ op'.a = op.a
    BY <1>1, <1>2, SettingUp, CallGoesOn DEF Create, Pc
  <2>3. seg'[op.a] = r
    BY <1>1, <1>2, <2>1, SettingUp, KeepFacts DEF Types
  <2>4. DriverMoves(op.a, r, drv')
    BY <1>1, <1>2, <2>1, SettingUp DEF DriverMoves, Types, DriverType
  <2>5. StatsMove(op.a, r, stats')
    <3>1. /\ stats' \in StatsType /\ stats'.handles = stats.handles + 1
          /\ stats' = [stats EXCEPT !.handles = stats.handles + 1]
      BY <1>1, <1>2 DEF Types, StatsType
    <3> QED BY <3>1, <1>1, <2>1, SettingUp, AllocatorAssumption DEF StatsMove, Change, StatsType, Types
  <2>6. Sound(op.a, r) /\ Step'
    BY <2>1, <2>2, <2>3 DEF Sound, Step
  <2> QED BY <1>1, <1>2, <2>1, <2>2, <2>4, <2>5, <2>6, SettingUp, SegmentStep
<1>3. CASE Goto("rollback") /\ UNCHANGED <<seg, drv, stats>>
  BY <1>1, <1>3, SetupFails DEF Create
<1> QED BY <1>2, <1>3 DEF Create

LEMMA MapKeeps ==
  ASSUME AllocatorInv, Map
  PROVE  AllocatorInv' /\ NoUnmapUnderWork /\ EmergencyIsKept
<1> DEFINE r == [seg[op.a] EXCEPT !.mapped = TRUE]
<1>1. op.pc = "map" /\ Types /\ seg[op.a].handle /\ ~seg[op.a].mapped
  BY DEF Map, At, AllocatorInv, Step
<1>2. CASE /\ Keep(op.a, r) /\ Goto("access")
           /\ drv' = [drv EXCEPT !.mapped = @ \union {op.a}]
           /\ stats' = [stats EXCEPT !.maps = @ + 1, !.mappedBytes = @ + Mapped]
  <2>1. /\ r \in SegmentType /\ r.st = "held" /\ r.reserved /\ r.handle /\ r.mapped
        /\ ~r.active /\ ~r.quarantined
    BY <1>1, SettingUp DEF SegmentType
  <2> HIDE DEF r
  <2>2. Onward(op.a) /\ op'.pc = "access" /\ op'.a = op.a
    BY <1>1, <1>2, SettingUp, CallGoesOn DEF Map, Pc
  <2>3. seg'[op.a] = r
    BY <1>1, <1>2, <2>1, SettingUp, KeepFacts DEF Types
  <2>4. DriverMoves(op.a, r, drv')
    BY <1>1, <1>2, <2>1, SettingUp DEF DriverMoves, Types, DriverType
  <2>5. StatsMove(op.a, r, stats')
    <3>1. stats.maps + 1 \in Int /\ stats.mappedBytes + Mapped \in Int
      BY <1>1, AllocatorAssumption DEF Types, StatsType
    <3>2. /\ stats' \in StatsType /\ stats'.maps = stats.maps + 1
          /\ stats'.mappedBytes = stats.mappedBytes + Mapped
          /\ stats' = [stats EXCEPT !.maps = stats.maps + 1, !.mappedBytes = stats.mappedBytes + Mapped]
      BY <1>1, <1>2, <3>1 DEF Types, StatsType
    <3> QED BY <3>2, <1>1, <2>1, SettingUp, AllocatorAssumption DEF StatsMove, Change, StatsType, Types
  <2>6. Sound(op.a, r) /\ Step'
    BY <2>1, <2>2, <2>3 DEF Sound, Step
  <2> QED BY <1>1, <1>2, <2>1, <2>2, <2>4, <2>5, <2>6, SettingUp, SegmentStep
<1>3. CASE Goto("rollback") /\ UNCHANGED <<seg, drv, stats>>
  BY <1>1, <1>3, SetupFails DEF Map
<1> QED BY <1>2, <1>3 DEF Map

LEMMA SetAccessKeeps ==
  ASSUME AllocatorInv, SetAccess
  PROVE  AllocatorInv' /\ NoUnmapUnderWork /\ EmergencyIsKept
<1> DEFINE r == [seg[op.a] EXCEPT !.active = TRUE]
<1>1. op.pc = "access" /\ Types /\ seg[op.a].handle /\ seg[op.a].mapped
  BY DEF SetAccess, At, AllocatorInv, Step
<1>2. CASE /\ Keep(op.a, r) /\ Done
           /\ stats' = [stats EXCEPT !.requestedBytes = @ + Requested, !.active = @ + 1]
  <2>1. /\ r \in SegmentType /\ r.st = "held" /\ r.reserved /\ r.handle /\ r.mapped
        /\ r.active /\ ~r.quarantined
    BY <1>1, SettingUp DEF SegmentType
  <2> HIDE DEF r
  <2>2. Onward(op.a) /\ op'.pc = "idle" /\ op'.a = None
    BY <1>1, <1>2, SettingUp, CallEnds DEF SetAccess, Types
  <2>4. DriverMoves(op.a, r, drv')
    BY <1>1, <1>2, <2>1, SettingUp DEF DriverMoves, Types, DriverType, SetAccess
  <2>5. StatsMove(op.a, r, stats')
    <3>1. stats.active + 1 \in Int /\ stats.requestedBytes + Requested \in Int
      BY <1>1, AllocatorAssumption DEF Types, StatsType
    <3>2. /\ stats' \in StatsType /\ stats'.active = stats.active + 1
          /\ stats'.requestedBytes = stats.requestedBytes + Requested
          /\ stats' = [stats EXCEPT !.requestedBytes = stats.requestedBytes + Requested,
                                    !.active = stats.active + 1]
      BY <1>1, <1>2, <3>1 DEF Types, StatsType
    <3> QED BY <3>2, <1>1, <2>1, SettingUp, AllocatorAssumption DEF StatsMove, Change, StatsType, Types
  <2>6. Sound(op.a, r) /\ Step'
    BY <2>1, <2>2 DEF Sound, Step
  <2> QED BY <1>1, <1>2, <2>1, <2>2, <2>4, <2>5, <2>6, SettingUp, SegmentStep
<1>3. CASE Goto("rollback") /\ UNCHANGED <<seg, stats>>
  BY <1>1, <1>3, SetupFails DEF SetAccess
<1> QED BY <1>2, <1>3 DEF SetAccess

(* A call that ends with the record in quarantine, or without it.          *)
LEMMA ToQuarantine ==
  ASSUME AllocatorInv, NEW a \in Addr, NEW r, NEW d, NEW s, Follows(a, r, d, s),
         Quarantine(a, r, s), drv' = d, Onward(a), seg[a].reserved, r.reserved, Step',
         a \in work => r.active /\ (seg[a].mapped => r.mapped)
  PROVE  AllocatorInv' /\ NoUnmapUnderWork /\ EmergencyIsKept
<1> DEFINE q == [r EXCEPT !.quarantined = TRUE]
<1>1. /\ q \in SegmentType /\ q.st = r.st /\ q.reserved = r.reserved /\ q.handle = r.handle
      /\ q.mapped = r.mapped /\ q.active = r.active /\ q.quarantined
      /\ DriverMoves(a, q, drv') /\ StatsMove(a, q, stats')
  BY QuarantineMoves DEF AllocatorInv, Quarantine
<1>2. Keep(a, q) /\ poisoned'
  BY DEF Quarantine
<1>3. r.st = "held"
  BY DEF Follows, AllocatorInv, Recorded, SoundRecord
<1> HIDE DEF q
<1>4. Sound(a, q)
  BY <1>1, <1>2, <1>3 DEF Sound
<1> QED BY <1>1, <1>2, <1>4, SegmentStep

LEMMA ToNothing ==
  ASSUME AllocatorInv, NEW a \in Addr, NEW r, NEW d, NEW s, Follows(a, r, d, s), Gone(r),
         Keep(a, Absent), drv' = d, Onward(a), Step', a \notin work,
         stats' = IF seg[a].active THEN Retired(s) ELSE s
  PROVE  AllocatorInv' /\ NoUnmapUnderWork /\ EmergencyIsKept
<1>1. /\ Absent \in SegmentType /\ DriverMoves(a, Absent, drv') /\ StatsMove(a, Absent, stats')
  BY GoneMoves DEF AllocatorInv
<1>2. Sound(a, Absent)
  BY IdleRecord DEF Sound
<1> QED BY <1>1, <1>2, SegmentStep

LEMMA RollbackKeeps ==
  ASSUME AllocatorInv, Rollback
  PROVE  AllocatorInv' /\ NoUnmapUnderWork /\ EmergencyIsKept
<1>1. op.pc = "rollback" /\ Types /\ Recorded
  BY DEF Rollback, At, AllocatorInv
<1> DEFINE w0 == World(seg[op.a], drv, stats)
<1>2. PICK u, h, f \in BOOLEAN :
        LET w == AfterFree(AfterRelease(AfterUnmap(w0, op.a, u), op.a, h), op.a, f) IN
        /\ drv' = w.d
        /\ IF Gone(w.r) THEN Keep(op.a, Absent) /\ stats' = w.s /\ poisoned' = poisoned
                        ELSE Quarantine(op.a, w.r, w.s)
  BY DEF Rollback
<1> DEFINE w1 == AfterUnmap(w0, op.a, u)
           w2 == AfterRelease(w1, op.a, h)
           w == AfterFree(w2, op.a, f)
<1>3. IsWorld(w0, op.a)
  <2>1. Follows(op.a, seg[op.a], drv, stats)
    BY <1>1, SettingUp, FollowsNow
  <2> QED BY <2>1, WorldParts DEF IsWorld
<1> HIDE DEF w0
<1>4. IsWorld(w1, op.a)
  BY <1>1, <1>3, SettingUp, CallsFollow
<1> HIDE DEF w1
<1>5. IsWorld(w2, op.a)
  BY <1>1, <1>4, SettingUp, CallsFollow
<1> HIDE DEF w2
<1>6. IsWorld(w, op.a)
  BY <1>1, <1>5, SettingUp, CallsFollow
<1>7. /\ drv' = w.d
      /\ IF Gone(w.r) THEN Keep(op.a, Absent) /\ stats' = w.s /\ poisoned' = poisoned
                      ELSE Quarantine(op.a, w.r, w.s)
  BY <1>2 DEF w1, w2
<1> HIDE DEF w
<1>8. Follows(op.a, w.r, w.d, w.s)
  BY <1>6 DEF IsWorld
<1>9. poisoned' \in BOOLEAN /\ (poisoned => poisoned')
  BY <1>1, <1>7 DEF Quarantine, Types
<1>10. Onward(op.a) /\ Step'
  <2>1. Done /\ UNCHANGED <<emergency, work, depth>>
    BY DEF Rollback
  <2>2. Onward(op.a) /\ op'.pc = "idle"
    BY <1>1, <1>9, <2>1, SettingUp, CallEnds DEF Types
  <2> QED BY <2>2 DEF Step
<1>11. CASE Gone(w.r)
  BY <1>7, <1>8, <1>10, <1>11, SettingUp, <1>1, ToNothing
<1>12. CASE ~Gone(w.r)
  <2>1. w.r.reserved
    BY <1>8, <1>12 DEF Follows, Gone
  <2> QED BY <1>7, <1>8, <1>10, <1>12, <2>1, SettingUp, <1>1, ToQuarantine
<1> QED BY <1>11, <1>12

-----------------------------------------------------------------------------
(* deallocate, one step at a time.                                         *)
LEMMA Freeing ==
  ASSUME AllocatorInv, op.pc \in {"fence", "unmap", "release"}
  PROVE  /\ op.a \in Addr /\ seg[op.a] \in SegmentType
         /\ seg[op.a].reserved /\ seg[op.a].active /\ ~seg[op.a].quarantined
         /\ seg[op.a].handle /\ (op.pc # "release" => seg[op.a].mapped)
         /\ (op.pc = "release" => ~seg[op.a].mapped)
         /\ (op.pc # "fence" => op.a \notin work)
         /\ Follows(op.a, seg[op.a], drv, stats)
<1> USE DEF AllocatorInv
<1>1. op.a \in Addr /\ seg[op.a] \in SegmentType
  BY InCall
<1>2. /\ seg[op.a].active /\ ~seg[op.a].quarantined /\ seg[op.a].handle
      /\ (op.pc # "release" => seg[op.a].mapped) /\ (op.pc = "release" => ~seg[op.a].mapped)
      /\ (op.pc # "fence" => op.a \notin work)
  BY DEF Step
<1>3. seg[op.a].reserved
  BY <1>1, <1>2 DEF Recorded, SoundRecord
<1>4. Follows(op.a, seg[op.a], drv, stats)
  BY <1>1, <1>2, <1>3, FollowsNow
<1> QED BY <1>1, <1>2, <1>3, <1>4

LEMMA FreeBeginsKeeps ==
  ASSUME AllocatorInv, NEW a \in Addr, FreeBegins(a)
  PROVE  AllocatorInv' /\ NoUnmapUnderWork /\ EmergencyIsKept
<1> USE DEF AllocatorInv
<1>1. /\ op.pc = "idle" /\ op.a = None /\ seg[a] \in SegmentType
      /\ seg[a].active /\ ~seg[a].quarantined /\ UNCHANGED <<emergency, drv, work>>
  BY DEF FreeBegins, At, Types
<1>2. seg[a].reserved /\ seg[a].handle /\ seg[a].mapped
  BY <1>1, AllocatorAssumption DEF Recorded, SoundRecord
<1>3. CASE \E pushed \in 0..1 :
             /\ depth' = pushed /\ op' = [Idle EXCEPT !.pc = "fence", !.a = a]
             /\ UNCHANGED <<seg, stats, poisoned>>
  <2>1. /\ op' \in [pc : Pc, a : Addr \union {None}, failed : BOOLEAN]
        /\ op'.pc = "fence" /\ op'.a = a /\ depth' \in 0..1
    BY <1>3 DEF Idle, Pc
  <2>2. Types'
    BY <1>1, <1>3, <2>1 DEF Types
  <2>3. Recorded'
    BY <1>1, <1>3, <2>1, AllocatorAssumption, NothingMoves DEF Recorded, SoundRecord
  <2>4. Strayed' /\ Poisoning' /\ WorkKnown' /\ Statistics'
    BY <1>1, <1>3, <2>1, NothingMoves DEF Strayed, Poisoning, WorkKnown
  <2>5. Step' /\ NoUnmapUnderWork /\ EmergencyIsKept
    BY <1>1, <1>2, <1>3, <2>1 DEF Step, NoUnmapUnderWork, EmergencyIsKept
  <2> QED BY <2>2, <2>3, <2>4, <2>5
<1>4. CASE Quarantine(a, seg[a], stats) /\ UNCHANGED <<depth, op>>
  <2>1. Follows(a, seg[a], drv, stats)
    BY <1>1, <1>2, FollowsNow
  <2>2. poisoned'
    BY <1>4 DEF Quarantine
  <2>3. Onward(a)
    <3>1. /\ op' \in [pc : Pc \ {"register", "unreserve"}, a : {a, None}, failed : BOOLEAN]
          /\ op'.pc = "idle" /\ op'.a = None
      <4>1. op \in [pc : Pc, a : Addr \union {None}, failed : BOOLEAN]
        BY DEF Types
      <4>2. op = [pc |-> "idle", a |-> None, failed |-> op.failed]
        BY <4>1, <1>1
      <4> QED BY <4>1, <4>2, <1>4 DEF Pc
    <3>2. poisoned' \in BOOLEAN /\ depth' \in 0..1
      BY <1>4 DEF Quarantine, Types
    <3> QED BY <3>1, <3>2, <1>1, <1>2, <2>2 DEF Onward
  <2>4. Step'
    BY <1>1, <1>4 DEF Step
  <2> QED BY <1>1, <1>2, <1>4, <2>1, <2>3, <2>4, ToQuarantine
<1> QED BY <1>3, <1>4 DEF FreeBegins

LEMMA FenceFailsKeeps ==
  ASSUME AllocatorInv, FenceFails
  PROVE  AllocatorInv' /\ NoUnmapUnderWork /\ EmergencyIsKept
<1>1. op.pc = "fence" /\ Types /\ UNCHANGED <<emergency, drv, work>> /\ Done
  BY DEF FenceFails, At, AllocatorInv
<1>2. Quarantine(op.a, seg[op.a], stats) /\ poisoned' = TRUE /\ depth' \in 0..1
  BY <1>1 DEF FenceFails, Quarantine, Restores, Restored, PopFails, Types
<1>3. Onward(op.a) /\ op'.pc = "idle"
  BY <1>1, <1>2, Freeing, CallEnds
<1>4. Step'
  BY <1>3 DEF Step
<1> QED BY <1>1, <1>2, <1>3, <1>4, Freeing, ToQuarantine

LEMMA FenceKeeps ==
  ASSUME AllocatorInv, Fence
  PROVE  AllocatorInv' /\ NoUnmapUnderWork /\ EmergencyIsKept
<1> USE DEF AllocatorInv
<1>1. /\ op.pc = "fence" /\ op.a \notin work
      /\ UNCHANGED <<seg, emergency, poisoned, stats, drv, work, depth>>
  BY DEF Fence, FencePassed, At
<1>2. /\ op.a \in Addr /\ seg[op.a].active /\ ~seg[op.a].quarantined /\ seg[op.a].handle
      /\ seg[op.a].mapped
  BY <1>1, Freeing
<1>3. /\ op' \in [pc : Pc, a : Addr \union {None}, failed : BOOLEAN]
      /\ op'.pc = "unmap" /\ op'.a = op.a
  BY <1>2 DEF Fence, Types, Pc
<1>4. Types' /\ Recorded'
  BY <1>1, <1>2, <1>3, NothingMoves DEF Types, Recorded, SoundRecord
<1>5. Strayed' /\ Poisoning' /\ WorkKnown' /\ Statistics'
  BY <1>1, <1>3, NothingMoves DEF Strayed, Poisoning, WorkKnown
<1>6. Step' /\ NoUnmapUnderWork /\ EmergencyIsKept
  BY <1>1, <1>2, <1>3 DEF Step, NoUnmapUnderWork, EmergencyIsKept
<1> QED BY <1>4, <1>5, <1>6

LEMMA UnmapKeeps ==
  ASSUME AllocatorInv, Unmap
  PROVE  AllocatorInv' /\ NoUnmapUnderWork /\ EmergencyIsKept
<1>1. op.pc = "unmap" /\ Types
  BY DEF Unmap, At, AllocatorInv
<1> DEFINE r == [seg[op.a] EXCEPT !.mapped = FALSE]
           d == [drv EXCEPT !.mapped = @ \ {op.a}]
           s == [stats EXCEPT !.maps = @ - 1, !.mappedBytes = @ - Mapped]
<1>2. Keep(op.a, r) /\ drv' = d /\ stats' = s /\ Goto("release")
      /\ UNCHANGED <<emergency, poisoned, work, depth>>
  BY DEF Unmap, Unmapped, World
<1>3. Follows(op.a, r, d, s)
  BY <1>1, Freeing, UnmapFollows
<1>4. /\ r \in SegmentType /\ r.st = seg[op.a].st /\ r.reserved /\ r.handle /\ ~r.mapped
      /\ r.active /\ ~r.quarantined
  BY <1>1, Freeing DEF SegmentType
<1> HIDE DEF r, d, s
<1>5. DriverMoves(op.a, r, drv') /\ StatsMove(op.a, r, stats')
  BY <1>2, <1>3 DEF Follows
<1>6. Onward(op.a) /\ op'.pc = "release" /\ op'.a = op.a
  <2>1. op.a \in Addr /\ op \in [pc : Pc, a : Addr \union {None}, failed : BOOLEAN]
    BY <1>1, InCall
  <2>2. op'.pc = "release" /\ op'.a = op.a
        /\ op' \in [pc : Pc \ {"register", "unreserve"}, a : {op.a, None}, failed : BOOLEAN]
    <3>1. op' = [pc |-> "release", a |-> op.a, failed |-> op.failed]
      BY <1>2, <2>1 DEF Goto
    <3> QED BY <3>1, <2>1 DEF Pc
  <2> QED BY <1>1, <1>2, <2>1, <2>2, Freeing DEF Onward, Types
<1>7. seg[op.a].st = "held" /\ op.a \notin work
  BY <1>1, Freeing DEF AllocatorInv, Recorded, SoundRecord
<1>8. Sound(op.a, r)
  BY <1>4, <1>6, <1>7 DEF Sound
<1>9. Step'
  <2>1. seg'[op.a] = r
    BY <1>1, <1>2, <1>4, Freeing, KeepFacts DEF Types
  <2> QED BY <2>1, <1>2, <1>4, <1>6, <1>7 DEF Step
<1> QED BY <1>1, <1>2, <1>4, <1>5, <1>6, <1>7, <1>8, <1>9, Freeing, SegmentStep

LEMMA UnmapFailsKeeps ==
  ASSUME AllocatorInv, UnmapFails
  PROVE  AllocatorInv' /\ NoUnmapUnderWork /\ EmergencyIsKept
<1>1. op.pc = "unmap" /\ Types /\ Recorded /\ Done /\ UNCHANGED <<emergency, work>>
  BY DEF UnmapFails, At, AllocatorInv
<1> DEFINE w0 == World(seg[op.a], drv, stats)
<1>2. PICK h \in BOOLEAN :
        LET w == AfterRelease(w0, op.a, h) IN drv' = w.d /\ Quarantine(op.a, w.r, w.s)
  BY DEF UnmapFails
<1> DEFINE w == AfterRelease(w0, op.a, h)
<1>3. IsWorld(w0, op.a)
  BY <1>1, Freeing, WorldParts DEF IsWorld
<1>4. w.r.mapped
  BY <1>1, Freeing, WorldParts DEF AfterRelease, Released, World, SegmentType
<1> HIDE DEF w0
<1>5. IsWorld(w, op.a)
  BY <1>1, <1>3, Freeing, CallsFollow
<1>6. drv' = w.d /\ Quarantine(op.a, w.r, w.s)
  BY <1>2
<1> HIDE DEF w
<1>7. Follows(op.a, w.r, w.d, w.s)
  BY <1>5 DEF IsWorld
<1>8. poisoned' = TRUE /\ depth' \in 0..1
  BY <1>1, <1>6 DEF UnmapFails, Quarantine, Restores, Restored, PopFails, Types
<1>9. Onward(op.a) /\ Step'
  <2>1. Onward(op.a) /\ op'.pc = "idle"
    BY <1>1, <1>8, Freeing, CallEnds
  <2> QED BY <2>1 DEF Step
<1>10. w.r.reserved
  BY <1>4, <1>7 DEF Follows
<1> QED BY <1>1, <1>6, <1>7, <1>9, <1>10, Freeing, ToQuarantine

LEMMA ReleaseKeeps ==
  ASSUME AllocatorInv, Release
  PROVE  AllocatorInv' /\ NoUnmapUnderWork /\ EmergencyIsKept
<1>1. op.pc = "release" /\ Types /\ Recorded /\ Done /\ UNCHANGED <<emergency, work>>
  BY DEF Release, At, AllocatorInv
<1> DEFINE w0 == World(seg[op.a], drv, stats)
<1>2. PICK h, f, popped \in BOOLEAN :
        LET w == AfterFree(AfterRelease(w0, op.a, h), op.a, f) IN
        /\ popped => Restores
        /\ ~popped => depth = 1 /\ depth' = depth
        /\ drv' = w.d
        /\ IF Gone(w.r) THEN Keep(op.a, Absent) /\ stats' = Retired(w.s) /\ poisoned' = (poisoned \/ ~popped)
                        ELSE Quarantine(op.a, w.r, w.s)
  BY DEF Release
<1> DEFINE w1 == AfterRelease(w0, op.a, h)
           w == AfterFree(w1, op.a, f)
<1>3. IsWorld(w0, op.a)
  BY <1>1, Freeing, WorldParts DEF IsWorld
<1> HIDE DEF w0
<1>4. IsWorld(w1, op.a)
  BY <1>1, <1>3, Freeing, CallsFollow
<1> HIDE DEF w1
<1>5. IsWorld(w, op.a)
  BY <1>1, <1>4, Freeing, CallsFollow
<1>6. /\ drv' = w.d
      /\ IF Gone(w.r) THEN Keep(op.a, Absent) /\ stats' = Retired(w.s) /\ poisoned' = (poisoned \/ ~popped)
                      ELSE Quarantine(op.a, w.r, w.s)
  BY <1>2 DEF w1
<1> HIDE DEF w
<1>7. Follows(op.a, w.r, w.d, w.s)
  BY <1>5 DEF IsWorld
<1>8. /\ poisoned' \in BOOLEAN /\ (poisoned => poisoned')
      /\ depth' \in 0..1 /\ (depth' = 0 \/ poisoned')
  <2>1. (popped /\ depth' = 0) \/ (~popped /\ depth' = depth)
    BY <1>2 DEF Restores, Restored
  <2>2. poisoned' \in BOOLEAN /\ (poisoned => poisoned') /\ (~popped => poisoned')
    <3>1. CASE Gone(w.r)
      BY <1>6, <3>1, Zenon
    <3>2. CASE ~Gone(w.r)
      BY <1>6, <3>2 DEF Quarantine
    <3> QED BY <3>1, <3>2
  <2>3. depth' \in 0..1
    BY <1>1, <2>1 DEF Types
  <2> QED BY <2>1, <2>2, <2>3
<1>9. Onward(op.a) /\ Step'
  <2>1. Onward(op.a) /\ op'.pc = "idle"
    BY <1>1, <1>8, Freeing, CallEnds
  <2> QED BY <2>1 DEF Step
<1>10. CASE Gone(w.r)
  BY <1>6, <1>7, <1>9, <1>10, Freeing, <1>1, ToNothing
<1>11. CASE ~Gone(w.r)
  <2>1. w.r.reserved
    BY <1>7, <1>11 DEF Follows, Gone
  <2> QED BY <1>6, <1>7, <1>9, <1>11, <2>1, Freeing, <1>1, ToQuarantine
<1> QED BY <1>10, <1>11

-----------------------------------------------------------------------------
(* reset_stats, the client's kernels, and the theorems.                    *)

(* What reset_stats counts is what the statistics say already.             *)
LEMMA ResetFindsTheSame ==
  ASSUME AllocatorInv, op.pc = "idle"
  PROVE  /\ Surviving({"reserved"}) = stats.reserved /\ Surviving({"handle"}) = stats.handles
         /\ Surviving({"mapped"}) = stats.maps
         /\ Mapped * Surviving({"mapped"}) = stats.mappedBytes
         /\ Surviving({"active"}) = stats.active
         /\ Requested * Surviving({"active"}) = stats.requestedBytes
         /\ Surviving({"quarantined"}) = stats.quarantined
         /\ Mapped * Surviving({"quarantined", "mapped"}) = stats.quarantinedBytes
<1> USE DEF AllocatorInv
<1>1. emergency = Absent \/ emergency = Untracked
  BY DEF Types
<1>2. /\ ~emergency["handle"] /\ ~emergency["mapped"] /\ ~emergency["active"]
      /\ (emergency["reserved"] <=> emergency["quarantined"])
  BY <1>1, IdleRecord
<1>3. ASSUME NEW f \in {"handle", "mapped", "active", "reserved", "quarantined"}
      PROVE  Surviving({f}) = Cardinality(Known(f)) + One(emergency[f])
  BY Zenon DEF Surviving, HowMany, Known, One
<1>4. ASSUME NEW f \in {"handle", "mapped", "active", "reserved", "quarantined"}
      PROVE  Cardinality(Known(f)) \in Nat
  BY AllocatorAssumption, FS_Subset, FS_CardinalityType DEF Known
<1>5. Surviving({"quarantined", "mapped"}) = Cardinality(Doomed)
  <2>1. {a \in Addr : \A f \in {"quarantined", "mapped"} : seg[a][f]} = Doomed
    BY DEF Doomed
  <2>2. ~ \A f \in {"quarantined", "mapped"} : emergency[f]
    BY <1>2
  <2>3. Cardinality(Doomed) \in Nat
    BY AllocatorAssumption, FS_Subset, FS_CardinalityType DEF Doomed
  <2>4. Surviving({"quarantined", "mapped"}) = Cardinality(Doomed) + 0
    BY <2>1, <2>2, Zenon DEF Surviving, HowMany
  <2> QED BY <2>3, <2>4
<1>6. /\ Surviving({"handle"}) = Cardinality(Known("handle"))
      /\ Surviving({"mapped"}) = Cardinality(Known("mapped"))
      /\ Surviving({"active"}) = Cardinality(Known("active"))
  BY <1>2, <1>3, <1>4 DEF One
<1>7. Surviving({"quarantined"}) = stats.quarantined
  BY <1>2, <1>3 DEF Statistics, One
<1>8. Surviving({"reserved"}) = stats.reserved
  <2>1. /\ drv.reserved = Known("reserved") \union Strays
        /\ Known("reserved") \intersect Strays = {}
    BY DEF Strays, Recorded
  <2>2. CASE emergency.reserved
    <3>1. PICK a \in Addr : Strays = {a}
      BY <2>2 DEF Strayed
    <3>2. a \notin Known("reserved") /\ drv.reserved = Known("reserved") \union {a}
      BY <2>1, <3>1
    <3>3. Cardinality(drv.reserved) = Cardinality(Known("reserved")) + 1
      BY <3>2, AllocatorAssumption, FS_Subset, FS_AddElement DEF Known
    <3> QED BY <3>3, <2>2, <1>3 DEF Statistics, One
  <2>3. CASE ~emergency.reserved
    <3>1. drv.reserved = Known("reserved")
      BY <2>1, <2>3 DEF Strayed
    <3> QED BY <3>1, <2>3, <1>3, <1>4 DEF Statistics, One
  <2> QED BY <2>2, <2>3
<1> QED BY <1>5, <1>6, <1>7, <1>8 DEF Statistics

LEMMA ResetStatsKeeps ==
  ASSUME AllocatorInv, ResetStats
  PROVE  AllocatorInv' /\ NoUnmapUnderWork /\ EmergencyIsKept
<1> USE DEF AllocatorInv
<1>1. UNCHANGED <<seg, emergency, poisoned, drv, work, depth, op>> /\ op.pc = "idle"
  BY DEF ResetStats, At
<1>2. stats' = stats
  <2>1. stats' = [reserved |-> stats.reserved, handles |-> stats.handles, maps |-> stats.maps,
                  mappedBytes |-> stats.mappedBytes, requestedBytes |-> stats.requestedBytes,
                  active |-> stats.active, quarantined |-> stats.quarantined,
                  quarantinedBytes |-> stats.quarantinedBytes]
    BY <1>1, ResetFindsTheSame DEF ResetStats, Outstanding
  <2>2. stats \in StatsType
    BY DEF Types
  <2> QED BY <2>1, <2>2 DEF StatsType
<1>3. Types'
  BY <1>1, <1>2 DEF Types
<1>4. Recorded'
  BY <1>1, NothingMoves DEF Recorded, SoundRecord
<1>5. Strayed' /\ Poisoning' /\ Step' /\ WorkKnown' /\ Statistics'
  BY <1>1, <1>2, NothingMoves DEF Strayed, Poisoning, Step, WorkKnown
<1> QED BY <1>1, <1>3, <1>4, <1>5 DEF NoUnmapUnderWork, EmergencyIsKept

LEMMA DeviceKeeps ==
  ASSUME AllocatorInv, NEW a \in Addr, Launch(a) \/ Finish(a)
  PROVE  AllocatorInv' /\ NoUnmapUnderWork /\ EmergencyIsKept
<1> USE DEF AllocatorInv
<1>1. UNCHANGED <<seg, emergency, poisoned, stats, drv, depth, op>>
  BY DEF Launch, Finish
<1>2. /\ work' \in SUBSET Addr /\ work' \subseteq Known("active")
      /\ op.a \in work' => op.a \in work
  BY DEF Launch, Finish, WorkKnown, Known, Types
<1>3. Types'
  BY <1>1, <1>2 DEF Types
<1>4. Recorded'
  BY <1>1, NothingMoves DEF Recorded, SoundRecord
<1>5. Strayed' /\ Poisoning' /\ Step' /\ WorkKnown' /\ Statistics'
  BY <1>1, <1>2, NothingMoves DEF Strayed, Poisoning, Step, WorkKnown
<1> QED BY <1>1, <1>3, <1>4, <1>5 DEF NoUnmapUnderWork, EmergencyIsKept

LEMMA AllocatorInvInit == AllocatorInit => AllocatorInv
<1> SUFFICES ASSUME AllocatorInit PROVE AllocatorInv
  OBVIOUS
<1>1. Types
  <2>1. seg \in [Addr -> SegmentType] /\ emergency \in {Absent, Untracked}
    BY IdleRecord DEF AllocatorInit
  <2>2. drv \in DriverType
    BY DEF AllocatorInit, DriverType
  <2>3. stats \in StatsType
    BY DEF AllocatorInit, Zero, StatsType
  <2>4. /\ op \in [pc : Pc, a : Addr \union {None}, failed : BOOLEAN]
        /\ op.pc = "idle" /\ op.a = None
    BY DEF AllocatorInit, Idle, Pc
  <2>5. poisoned \in BOOLEAN /\ work \in SUBSET Addr
    BY DEF AllocatorInit
  <2>6. depth \in 0..1
    BY DEF AllocatorInit
  <2> QED BY <2>1, <2>2, <2>3, <2>4, <2>5, <2>6 DEF Types
<1>2. /\ Known("reserved") = {} /\ Known("handle") = {} /\ Known("mapped") = {}
      /\ Known("active") = {} /\ Known("quarantined") = {} /\ Doomed = {}
  BY IdleRecord DEF AllocatorInit, Known, Doomed
<1>3. Recorded /\ Strayed
  BY <1>2, IdleRecord DEF AllocatorInit, Recorded, SoundRecord, Strayed, Strays
<1>4. Poisoning /\ Step /\ WorkKnown
  BY IdleRecord DEF AllocatorInit, Poisoning, Step, WorkKnown
<1>5. Statistics
  <2>1. Cardinality({}) = 0
    BY FS_EmptySet
  <2>2. Mapped * 0 = 0 /\ Requested * 0 = 0
    BY AllocatorAssumption
  <2>3. /\ stats.reserved = 0 /\ stats.handles = 0 /\ stats.maps = 0 /\ stats.mappedBytes = 0
        /\ stats.requestedBytes = 0 /\ stats.active = 0 /\ stats.quarantined = 0
        /\ stats.quarantinedBytes = 0 /\ drv.reserved = {} /\ One(emergency.reserved) = 0
    BY IdleRecord DEF AllocatorInit, Zero, One
  <2> QED BY <1>2, <2>1, <2>2, <2>3 DEF Statistics
<1> QED BY <1>1, <1>3, <1>4, <1>5 DEF AllocatorInv

LEMMA AllocatorInvStep ==
  ASSUME AllocatorInv, [AllocatorNext]_allocatorVars
  PROVE  AllocatorInv' /\ [NoUnmapUnderWork /\ EmergencyIsKept]_allocatorVars
<1>1. CASE UNCHANGED allocatorVars
  <2>1. UNCHANGED <<seg, emergency, poisoned, stats, drv, work, depth, op>>
    BY <1>1 DEF allocatorVars
  <2>2. UNCHANGED <<Doomed, Strays, Known("active"), Known("quarantined"),
                    Known("handle"), Known("mapped"), Known("reserved")>>
    BY <2>1, NothingMoves DEF AllocatorInv
  <2>3. Types' /\ Recorded'
    BY <2>1, <2>2 DEF AllocatorInv, Types, Recorded, SoundRecord
  <2>4. Strayed' /\ Poisoning' /\ Step' /\ WorkKnown' /\ Statistics'
    BY <2>1, <2>2 DEF AllocatorInv, Strayed, Poisoning, Step, WorkKnown, Statistics
  <2> QED BY <1>1, <2>3, <2>4 DEF AllocatorInv
<1>2. CASE CallStep
  BY <1>2, RegisterKeeps, UnreserveKeeps, CreateKeeps, MapKeeps, SetAccessKeeps, RollbackKeeps,
     FenceKeeps, UnmapKeeps, ReleaseKeeps DEF CallStep
<1>3. CASE FenceFails \/ UnmapFails \/ ResetStats
  BY <1>3, FenceFailsKeeps, UnmapFailsKeeps, ResetStatsKeeps
<1>4. CASE \E a \in Addr : Reserve(a) \/ FreeBegins(a) \/ Launch(a) \/ Finish(a)
  BY <1>4, ReserveKeeps, FreeBeginsKeeps, DeviceKeeps
<1> QED BY <1>1, <1>2, <1>3, <1>4 DEF AllocatorNext

(* The invariant says what PyTorch relies on.                              *)
LEMMA CountsFit ==
  ASSUME NEW S \in SUBSET Addr
  PROVE  /\ Cardinality(S) \in Nat /\ Cardinality(S) <= Cardinality(Addr)
         /\ Cardinality(Addr) \in Nat
         /\ Cardinality(S) \in 0..(Mapped * (Cardinality(Addr) + 1))
         /\ Mapped * Cardinality(S) \in 0..(Mapped * (Cardinality(Addr) + 1))
         /\ Requested * Cardinality(S) \in 0..(Mapped * (Cardinality(Addr) + 1))
<1> DEFINE n == Cardinality(S)
           m == Cardinality(Addr)
<1>1. n \in Nat /\ m \in Nat /\ n <= m
  BY AllocatorAssumption, FS_Subset, FS_CardinalityType
<1> HIDE DEF n, m
<1>2. Mapped \in Nat /\ Requested \in Nat /\ Requested <= Mapped /\ 1 <= Mapped
  BY AllocatorAssumption
<1>3. PICK k \in Nat : m = n + k
  <2>1. m - n \in Nat /\ m = n + (m - n)
    BY <1>1
  <2> QED BY <2>1
<1>4. Mapped * (m + 1) = Mapped * n + Mapped * k + Mapped
  BY <1>1, <1>2, <1>3
<1>5. Mapped * n \in Nat /\ Mapped * k \in Nat /\ Requested * n \in Nat
  BY <1>1, <1>2
<1>6. PICK x \in Nat : Mapped = Requested + x
  <2>1. Mapped - Requested \in Nat /\ Mapped = Requested + (Mapped - Requested)
    BY <1>2
  <2> QED BY <2>1
<1>7. Mapped * n = Requested * n + x * n /\ x * n \in Nat
  BY <1>1, <1>2, <1>6
<1>8. PICK y \in Nat : Mapped = 1 + y
  <2>1. Mapped - 1 \in Nat /\ Mapped = 1 + (Mapped - 1)
    BY <1>2
  <2> QED BY <2>1
<1>9. Mapped * n = n + y * n /\ y * n \in Nat
  BY <1>1, <1>8
<1>10. n \in 0..(Mapped * (m + 1)) /\ Mapped * n \in 0..(Mapped * (m + 1))
       /\ Requested * n \in 0..(Mapped * (m + 1))
  BY <1>1, <1>2, <1>4, <1>5, <1>7, <1>9
<1> QED BY <1>1, <1>10 DEF n, m

LEMMA InvariantImpliesSafe ==
  ASSUME AllocatorInv
  PROVE  AllocatorSafe
<1> USE DEF AllocatorInv
<1> DEFINE bound == Mapped * (Cardinality(Addr) + 1)
<1>1. /\ drv.reserved \in SUBSET Addr /\ Known("handle") \in SUBSET Addr
      /\ Known("mapped") \in SUBSET Addr /\ Known("active") \in SUBSET Addr
      /\ Known("quarantined") \in SUBSET Addr /\ Doomed \in SUBSET Addr
  BY DEF Types, DriverType, Known, Doomed
<1>2. \A f \in DOMAIN stats : stats[f] \in 0..bound
  <2>1. /\ stats.reserved \in 0..bound /\ stats.handles \in 0..bound /\ stats.maps \in 0..bound
        /\ stats.mappedBytes \in 0..bound /\ stats.requestedBytes \in 0..bound
        /\ stats.active \in 0..bound /\ stats.quarantinedBytes \in 0..bound
    BY <1>1, CountsFit DEF Statistics
  <2>2. stats.quarantined \in 0..bound
    <3>1. /\ Cardinality(Known("quarantined")) \in Nat /\ Cardinality(Addr) \in Nat
          /\ Cardinality(Known("quarantined")) <= Cardinality(Addr)
      BY <1>1, CountsFit
    <3>2. stats.quarantined \in Nat /\ stats.quarantined <= Cardinality(Addr) + 1
      BY <3>1 DEF Statistics, One
    <3>3. Cardinality(Addr) + 1 <= bound
      <4> DEFINE m == Cardinality(Addr) + 1
      <4>1. m \in Nat
        BY <3>1
      <4> HIDE DEF m
      <4>2. PICK y \in Nat : Mapped = 1 + y
        <5>1. Mapped - 1 \in Nat /\ Mapped = 1 + (Mapped - 1)
          BY AllocatorAssumption
        <5> QED BY <5>1
      <4>3. Mapped * m = m + y * m /\ y * m \in Nat
        BY <4>1, <4>2
      <4>4. m <= Mapped * m
        BY <4>1, <4>3
      <4> QED BY <4>4 DEF m
    <3>4. bound \in Int
      BY <3>1, AllocatorAssumption
    <3> HIDE DEF bound
    <3> QED BY <3>1, <3>2, <3>3, <3>4
  <2>3. DOMAIN stats = {"reserved", "handles", "maps", "mappedBytes", "requestedBytes", "active",
                        "quarantined", "quarantinedBytes"}
    BY DEF Types, StatsType
  <2> HIDE DEF bound
  <2> QED BY <2>1, <2>2, <2>3
<1>3. AllocatorTypeOK
  BY <1>2 DEF AllocatorTypeOK, Types, SegmentType, DriverType
<1>4. NothingUntracked
  <2> SUFFICES ASSUME op.pc = "idle" PROVE NothingUntracked
    BY DEF NothingUntracked, At
  <2>1. Cardinality(drv.reserved \ Known("reserved")) = (IF emergency.reserved THEN 1 ELSE 0)
    <3>1. CASE emergency.reserved
      BY <3>1, FS_Singleton DEF Strayed, Strays
    <3>2. CASE ~emergency.reserved
      BY <3>2, FS_EmptySet DEF Strayed, Strays
    <3> QED BY <3>1, <3>2
  <2>2. \A a \in Addr : seg[a].st = "held" <=> seg[a].reserved \/ seg[a].handle \/ seg[a].mapped
    BY DEF Recorded, SoundRecord
  <2> QED BY <2>1, <2>2 DEF NothingUntracked, Recorded
<1>5. UsableIsMapped
  BY DEF UsableIsMapped, Recorded, SoundRecord, Known
<1>6. StatsAreOutstanding
  <2>1. stats.quarantined > 0 => poisoned
    <3>1. SUFFICES ASSUME ~poisoned PROVE stats.quarantined = 0
      BY DEF Types, StatsType
    <3>2. Known("quarantined") = {} /\ ~emergency.reserved
      BY <3>1 DEF Poisoning, Known
    <3> QED BY <3>2, FS_EmptySet DEF Statistics, One
  <2> QED BY <2>1 DEF StatsAreOutstanding, Statistics, Recorded
<1>7. ContextGivenBack
  BY DEF ContextGivenBack, At, Poisoning
<1> QED BY <1>3, <1>4, <1>5, <1>6, <1>7 DEF AllocatorSafe

(* What PyTorch relies on (torch/allocator.cpp), for any number of         *)
(* addresses and any size, whichever driver calls fail and whenever the    *)
(* client and the device proceed: nothing the driver holds is forgotten,   *)
(* what is usable has its memory, the statistics tell the truth through    *)
(* quarantine and reset_stats, and contexts are given back.                *)
THEOREM AllocatorIsSafe == AllocatorSpec => []AllocatorSafe
<1>1. AllocatorInit => AllocatorInv
  BY AllocatorInvInit
<1>2. AllocatorInv /\ [AllocatorNext]_allocatorVars => AllocatorInv'
  BY AllocatorInvStep
<1>3. AllocatorInv => AllocatorSafe
  BY InvariantImpliesSafe
<1> QED BY <1>1, <1>2, <1>3, PTL DEF AllocatorSpec

(* The fence does its work: no mapping goes from under a kernel, and the   *)
(* emergency slot, once taken, is kept; a poisoned allocator reserves      *)
(* nothing (quarantine_untracked and deallocate of torch/allocator.cpp).   *)
THEOREM FenceAndEmergencyHold ==
  AllocatorSpec => [][NoUnmapUnderWork /\ EmergencyIsKept]_allocatorVars
<1>1. AllocatorInit => AllocatorInv
  BY AllocatorInvInit
<1>2. AllocatorInv /\ [AllocatorNext]_allocatorVars
        => AllocatorInv' /\ [NoUnmapUnderWork /\ EmergencyIsKept]_allocatorVars
  BY AllocatorInvStep
<1> QED BY <1>1, <1>2, PTL DEF AllocatorSpec
=============================================================================
