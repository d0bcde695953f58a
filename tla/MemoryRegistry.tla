--------------------------- MODULE MemoryRegistry ---------------------------
(***************************************************************************)
(* MemoryRegistry (compat_launch_probe/memory_registry.hpp): the ledger in *)
(* which the launch probe follows what a program does with device memory.  *)
(* A ledger is a record; an operation of the class is a pair of operators: *)
(* CanX says whether the call is accepted, X is the ledger it leaves.  A   *)
(* call that is not accepted throws before its first assignment.           *)
(*                                                                         *)
(* A std::map is a function whose domain grows and shrinks.  A list of     *)
(* access spans is a set: the order of its elements is never observed.     *)
(***************************************************************************)
EXTENDS Integers, FiniteSets, FiniteSetsExt, TLC

CONSTANTS Address,        \* start addresses, positive
          Size,           \* sizes of ranges and objects, positive
          HandleName,     \* native handles
          Device, Context,
          LastByte,       \* greatest address of a 64-bit range, scaled down
          ObjectCap, AccessCap, ByteCap, IdCap,
          SegmentCap      \* 4096 rows of one answer

Flag == {"none", "read", "write"}   \* 0, 1 and 3: writing includes reading

NoContext == 0

Empty == [allocs |-> <<>>, handles |-> <<>>, physical |-> <<>>, maps |-> <<>>,
          accessCount |-> 0, next |-> 1, revision |-> 0,
          counts |-> [allocations |-> 0, reservations |-> 0, handles |-> 0, mappings |-> 0,
                      allocationBytes |-> 0, reservationBytes |-> 0,
                      physicalBytes |-> 0, mappedBytes |-> 0]]

Without(f, keys) == [k \in DOMAIN f \ keys |-> f[k]]

(***************************************************************************)
(* Ranges                                                                  *)
(***************************************************************************)
Valid(a, n) == a > 0 /\ n > 0 /\ a + n <= LastByte

Meets(a, n, b, m) == a < b + m /\ b < a + n

Within(a, n, b, m) == a >= b /\ a + n <= b + m

Live(r) == {a \in DOMAIN r.allocs : r.allocs[a].live}

NoOwner == 0

\* The nearest live allocation at or below the address, when it holds the
\* whole range.
Owner(r, a, n) ==
    LET below == {x \in Live(r) : x <= a}
        near  == Max(below)
    IN  IF below # {} /\ Within(a, n, near, r.allocs[near].bytes) THEN near ELSE NoOwner

Reserved(r, a, n) == Owner(r, a, n) # NoOwner /\ r.allocs[Owner(r, a, n)].reservation

Hits(r, a, n) == {k \in DOMAIN r.maps : Meets(a, n, k, r.maps[k].bytes)}

\* covering_maps: no byte of the range is without a mapping.
Covered(r, a, n) ==
    /\ \A x \in a..(a + n - 1) : \E k \in Hits(r, a, n) : Within(x, 1, k, r.maps[k].bytes)
    /\ Cardinality(Hits(r, a, n)) <= SegmentCap

(***************************************************************************)
(* Limits                                                                  *)
(***************************************************************************)
Objects(r) == Cardinality(DOMAIN r.allocs) + Cardinality(DOMAIN r.handles)
              + Cardinality(DOMAIN r.physical) + Cardinality(DOMAIN r.maps)

Fits(r, extra) == Objects(r) + extra <= ObjectCap

Affords(current, n) == current + n <= ByteCap

HasId(r) == r.next < IdCap

(***************************************************************************)
(* cuMemAlloc and cuMemAddressReserve; cuMemFree and cuMemAddressFree      *)
(***************************************************************************)
ByteField(reservation) == IF reservation THEN "reservationBytes" ELSE "allocationBytes"
CountField(reservation) == IF reservation THEN "reservations" ELSE "allocations"

CanAllocate(r, a, n, reservation) ==
    /\ Valid(a, n)
    /\ \A b \in Live(r) : ~Meets(a, n, b, r.allocs[b].bytes)
    /\ Fits(r, IF a \in DOMAIN r.allocs THEN 0 ELSE 1)
    /\ Affords(r.counts[ByteField(reservation)], n)
    /\ HasId(r)

Generation(f, k) == IF k \in DOMAIN f THEN f[k].generation + 1 ELSE 1

Allocate(r, a, n, reservation, context) ==
    [r EXCEPT !.allocs = (a :> [id |-> r.next, generation |-> Generation(r.allocs, a), bytes |-> n,
                                context |-> context, live |-> TRUE, reservation |-> reservation]) @@ @,
              !.counts[CountField(reservation)] = @ + 1,
              !.counts[ByteField(reservation)] = @ + n,
              !.next = @ + 1,
              !.revision = @ + 1]

CanRelease(r, a, n, reservation) ==
    /\ a \in Live(r)
    /\ r.allocs[a].reservation = reservation
    /\ reservation => n = r.allocs[a].bytes
    /\ \A k \in DOMAIN r.maps : r.maps[k].allocation # r.allocs[a].id

\* mutant: the bytes of a freed reservation stay counted
ReleaseNotBytes(r, a, reservation) ==
    [r EXCEPT !.allocs[a].live = FALSE,
              !.counts[CountField(reservation)] = @ - 1,
              !.counts.allocationBytes = @ - (IF reservation THEN 0 ELSE r.allocs[a].bytes),
              !.revision = @ + 1]

\* The entry stays, dead: the next allocation at the address takes the next
\* generation.
Release(r, a, reservation) ==
    [r EXCEPT !.allocs[a].live = FALSE,
              !.counts[CountField(reservation)] = @ - 1,
              !.counts[ByteField(reservation)] = @ - r.allocs[a].bytes,
              !.revision = @ + 1]

(***************************************************************************)
(* cuMemCreate and cuMemRelease                                            *)
(***************************************************************************)
LiveHandle(r, h) == h \in DOMAIN r.handles /\ r.handles[h].live

CanCreate(r, h, n) ==
    /\ h # 0 /\ n > 0
    /\ ~LiveHandle(r, h)
    /\ Fits(r, IF h \in DOMAIN r.handles THEN 1 ELSE 2)
    /\ Affords(r.counts.physicalBytes, n)
    /\ HasId(r)

\* mutant: a handle that is used again keeps its generation
CreateSame(r, h, n) ==
    LET generation == IF h \in DOMAIN r.handles THEN r.handles[h].generation ELSE 1
    IN  [r EXCEPT !.physical = (r.next :> [generation |-> generation, bytes |-> n,
                                           maps |-> 0, retained |-> TRUE]) @@ @,
                  !.handles = (h :> [id |-> r.next, generation |-> generation, live |-> TRUE]) @@ @,
                  !.counts.handles = @ + 1, !.counts.physicalBytes = @ + n,
                  !.next = @ + 1, !.revision = @ + 1]

Create(r, h, n) ==
    LET generation == Generation(r.handles, h)
    IN  [r EXCEPT !.physical = (r.next :> [generation |-> generation, bytes |-> n,
                                           maps |-> 0, retained |-> TRUE]) @@ @,
                  !.handles = (h :> [id |-> r.next, generation |-> generation, live |-> TRUE]) @@ @,
                  !.counts.handles = @ + 1, !.counts.physicalBytes = @ + n,
                  !.next = @ + 1, !.revision = @ + 1]

\* retire_physical: memory goes when neither a handle nor a mapping keeps it.
Retire(r, p) ==
    IF r.physical[p].retained \/ r.physical[p].maps > 0
    THEN r
    ELSE [r EXCEPT !.physical = Without(@, {p}),
                   !.counts.physicalBytes = @ - r.physical[p].bytes]

ReleaseHandle(r, h) ==
    LET p == r.handles[h].id
    IN  Retire([r EXCEPT !.physical[p].retained = FALSE, !.handles[h].live = FALSE,
                         !.counts.handles = @ - 1, !.revision = @ + 1], p)

(***************************************************************************)
(* cuMemMap and cuMemUnmap                                                 *)
(***************************************************************************)
CanMap(r, a, n, h, offset) ==
    /\ Valid(a, n) /\ Reserved(r, a, n)
    /\ LiveHandle(r, h)
    /\ offset = 0 /\ n <= r.physical[r.handles[h].id].bytes
    /\ Hits(r, a, n) = {}
    /\ Fits(r, 1)
    /\ Affords(r.counts.mappedBytes, n)
    /\ HasId(r)

Map(r, a, n, h) ==
    LET p == r.handles[h].id
    IN  [r EXCEPT !.maps = (a :> [id |-> r.next, allocation |-> r.allocs[Owner(r, a, n)].id,
                                  physical |-> p, generation |-> r.handles[h].generation,
                                  bytes |-> n, access |-> {}]) @@ @,
                  !.physical[p].maps = @ + 1,
                  !.counts.mappings = @ + 1, !.counts.mappedBytes = @ + n,
                  !.next = @ + 1, !.revision = @ + 1]

CanUnmap(r, a, n) == a \in DOMAIN r.maps /\ r.maps[a].bytes = n

Unmap(r, a) ==
    LET m == r.maps[a]
    IN  Retire([r EXCEPT !.maps = Without(@, {a}),
                         !.accessCount = @ - Cardinality(m.access),
                         !.physical[m.physical].maps = @ - 1,
                         !.counts.mappings = @ - 1, !.counts.mappedBytes = @ - m.bytes,
                         !.revision = @ + 1], m.physical)

\* A union of whole mappings of one reservation, without a hole.
CanUnmapRange(r, a, n) ==
    /\ Valid(a, n) /\ Reserved(r, a, n) /\ Covered(r, a, n)
    /\ \A k \in Hits(r, a, n) :
           LET m == r.maps[k]
           IN  /\ Within(k, m.bytes, a, n)
               /\ m.allocation = r.allocs[Owner(r, a, n)].id
               /\ m.physical \in DOMAIN r.physical /\ r.physical[m.physical].generation = m.generation

Uses(r, keys, p) == Cardinality({k \in keys : r.maps[k].physical = p})

\* All of them in one step, the physical references counted beforehand.
UnmapRange(r, a, n) ==
    LET keys == Hits(r, a, n)
        left(p) == r.physical[p].maps - Uses(r, keys, p)
        gone == {p \in DOMAIN r.physical : ~r.physical[p].retained /\ left(p) = 0}
    IN  [r EXCEPT !.maps = Without(@, keys),
                  !.physical = [p \in DOMAIN @ \ gone |-> [@[p] EXCEPT !.maps = left(p)]],
                  !.accessCount = @ - MapThenSumSet(LAMBDA k : Cardinality(r.maps[k].access), keys),
                  !.counts.mappings = @ - Cardinality(keys), !.counts.mappedBytes = @ - n,
                  !.counts.physicalBytes = @ - MapThenSumSet(LAMBDA p : r.physical[p].bytes, gone),
                  !.revision = @ + Cardinality(keys)]

(***************************************************************************)
(* cuMemSetAccess                                                          *)
(***************************************************************************)

\* What the bytes lo up to hi leave of a span.
Pieces(s, lo, hi) ==
    {t \in {[s EXCEPT !.bytes = lo - s.offset], [s EXCEPT !.offset = hi, !.bytes = s.offset + s.bytes - hi]}
        : t.bytes > 0}

\* The list of a mapping after these bytes got new flags: other devices and
\* bytes outside keep theirs.
Spans(access, lo, hi, d, flag) ==
    LET same == {s \in access : s.device = d /\ Meets(s.offset, s.bytes, lo, hi - lo)}
    IN  (access \ same) \cup UNION {Pieces(s, lo, hi) : s \in same}
        \cup {[offset |-> lo, bytes |-> hi - lo, device |-> d, flag |-> flag]}

NewSpans(r, k, a, n, d, flag) ==
    LET m  == r.maps[k]
        lo == (IF a > k THEN a ELSE k) - k
        hi == (IF a + n < k + m.bytes THEN a + n ELSE k + m.bytes) - k
    IN  Spans(m.access, lo, hi, d, flag)

Growth(r, keys, a, n, d, flag) ==
    MapThenSumSet(LAMBDA k : Cardinality(NewSpans(r, k, a, n, d, flag)) - Cardinality(r.maps[k].access), keys)

\* The cap is asked mapping by mapping, before a later mapping gives back.
CanSetAccess(r, a, n, d, flag) ==
    /\ Valid(a, n) /\ Reserved(r, a, n) /\ Covered(r, a, n)
    /\ \A k \in Hits(r, a, n) :
           r.accessCount + Growth(r, {j \in Hits(r, a, n) : j <= k}, a, n, d, flag) <= AccessCap

SetAccess(r, a, n, d, flag) ==
    LET keys == Hits(r, a, n)
    IN  [r EXCEPT !.maps = [k \in DOMAIN @ |-> IF k \in keys
                                               THEN [@[k] EXCEPT !.access = NewSpans(r, k, a, n, d, flag)]
                                               ELSE @[k]],
                  !.accessCount = @ + Growth(r, keys, a, n, d, flag),
                  !.revision = @ + 1]

(***************************************************************************)
(* resolve: identity and rights of a range, from the spans.                *)
(***************************************************************************)
Unknown == [known |-> FALSE, mapped |-> FALSE, readable |-> FALSE, writable |-> FALSE,
            id |-> 0, generation |-> 0]

Overlap(a, n, b, m) ==
    LET lo == IF a > b THEN a ELSE b
        hi == IF a + n < b + m THEN a + n ELSE b + m
    IN  IF lo < hi THEN hi - lo ELSE 0

OfOwner(r, a, n) ==
    {k \in Hits(r, a, n) : r.maps[k].allocation = r.allocs[Owner(r, a, n)].id}

\* Bytes of the range for which the device has one of the flags.
BytesOf(r, a, n, d, flags) ==
    MapThenSumSet(LAMBDA k : MapThenSumSet(LAMBDA s : Overlap(a, n, k + s.offset, s.bytes),
                                     {s \in r.maps[k].access : s.device = d /\ s.flag \in flags}),
            OfOwner(r, a, n))

Resolve(r, a, n, d, context) ==
    LET owner  == Owner(r, a, n)
        it     == r.allocs[owner]
        mapped == MapThenSumSet(LAMBDA k : Overlap(a, n, k, r.maps[k].bytes), OfOwner(r, a, n)) = n
        mine   == context # NoContext /\ context = it.context
    IN  IF owner = NoOwner THEN Unknown
        ELSE IF ~it.reservation
        THEN [known |-> TRUE, mapped |-> TRUE, readable |-> mine, writable |-> mine,
              id |-> it.id, generation |-> it.generation]
        ELSE [known |-> TRUE, mapped |-> mapped,
              readable |-> mapped /\ BytesOf(r, a, n, d, {"read", "write"}) = n,
              writable |-> mapped /\ BytesOf(r, a, n, d, {"write"}) = n,
              id |-> it.id, generation |-> it.generation]

\* The rows of one answer are limited; the call throws beyond.
Answerable(r, a, n, d) ==
    LET near == IF Reserved(r, a, n) THEN OfOwner(r, a, n) ELSE {}
    IN  /\ Cardinality(near) <= SegmentCap
        /\ MapThenSumSet(LAMBDA k : Cardinality({s \in r.maps[k].access :
                                             s.device = d /\ Meets(a, n, k + s.offset, s.bytes)}), near)
           <= SegmentCap
=============================================================================
