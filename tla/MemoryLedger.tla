---------------------------- MODULE MemoryLedger ----------------------------
(***************************************************************************)
(* One MemoryRegistry and the calls it accepts, in any order.  Beside it   *)
(* the same calls are followed byte by byte: which memory lies under a     *)
(* byte and what each device may do with it.  That is what a reader of the *)
(* ledger takes an answer for.                                             *)
(***************************************************************************)
EXTENDS MemoryRegistry

CONSTANTS Calls           \* bound: accepted calls, counted by the revision

LedgerAssumption ==
    /\ Address \subseteq Nat \ {0} /\ Size \subseteq Nat \ {0} /\ 0 \notin HandleName
    /\ NoContext \notin Context
    /\ {LastByte, ObjectCap, AccessCap, ByteCap, IdCap, SegmentCap, Calls} \subseteq Nat

VARIABLES reg,
          under,          \* ghost: byte -> the physical memory under it, 0 for none
          right           \* ghost: byte -> device -> flag

vars == <<reg, under, right>>

Byte == 1..LastByte

Bytes(a, n) == a..(a + n - 1)

Init == /\ reg = Empty
        /\ under = [x \in Byte |-> 0]
        /\ right = [x \in Byte |-> [d \in Device |-> "none"]]

\* Memory under the bytes of a range, and no right to it yet.
Lay(bytes, p) ==
    /\ under' = [x \in Byte |-> IF x \in bytes THEN p ELSE under[x]]
    /\ right' = [x \in Byte |-> IF x \in bytes THEN [d \in Device |-> "none"] ELSE right[x]]

DoAllocate(a, n, reservation, context) ==
    /\ CanAllocate(reg, a, n, reservation)
    /\ reg' = Allocate(reg, a, n, reservation, context)
    /\ UNCHANGED <<under, right>>

DoRelease(a, n, reservation) ==
    /\ CanRelease(reg, a, n, reservation)
    /\ reg' = Release(reg, a, reservation)
    /\ UNCHANGED <<under, right>>

DoCreate(h, n) ==
    /\ CanCreate(reg, h, n)
    /\ reg' = Create(reg, h, n)
    /\ UNCHANGED <<under, right>>

DoReleaseHandle(h) ==
    /\ LiveHandle(reg, h)
    /\ reg' = ReleaseHandle(reg, h)
    /\ UNCHANGED <<under, right>>

DoMap(a, n, h, offset) ==
    /\ CanMap(reg, a, n, h, offset)
    /\ reg' = Map(reg, a, n, h)
    /\ Lay(Bytes(a, n), reg.handles[h].id)

DoUnmap(a, n) ==
    /\ CanUnmap(reg, a, n)
    /\ reg' = Unmap(reg, a)
    /\ Lay(Bytes(a, n), 0)

DoUnmapRange(a, n) ==
    /\ CanUnmapRange(reg, a, n)
    /\ reg' = UnmapRange(reg, a, n)
    /\ Lay(Bytes(a, n), 0)

DoSetAccess(a, n, d, flag) ==
    /\ CanSetAccess(reg, a, n, d, flag)
    /\ reg' = SetAccess(reg, a, n, d, flag)
    /\ right' = [x \in Byte |-> IF x \in Bytes(a, n) THEN [right[x] EXCEPT ![d] = flag] ELSE right[x]]
    /\ UNCHANGED under

Next ==
    /\ reg.revision < Calls
    /\ \/ \E a \in Address, n \in Size, reservation \in BOOLEAN, context \in Context :
              DoAllocate(a, n, reservation, context)
       \/ \E a \in Address, n \in Size, reservation \in BOOLEAN : DoRelease(a, n, reservation)
       \/ \E h \in HandleName, n \in Size : DoCreate(h, n)
       \/ \E h \in HandleName : DoReleaseHandle(h)
       \/ \E a \in Address, n \in Size, h \in HandleName, offset \in {0, 1} : DoMap(a, n, h, offset)
       \/ \E a \in Address, n \in Size : DoUnmap(a, n)
       \/ \E a \in Address, n \in Size : DoUnmapRange(a, n)
       \/ \E a \in Address, n \in Size, d \in Device, flag \in Flag : DoSetAccess(a, n, d, flag)

Spec == Init /\ [][Next]_vars

-----------------------------------------------------------------------------
(***************************************************************************)
(* Properties                                                              *)
(***************************************************************************)
SpanType == [offset : 0..LastByte, bytes : 1..LastByte, device : Device, flag : Flag]

\* The maps, the counters and the ghosts have the types of the class.
LedgerTypeOK ==
    /\ DOMAIN reg.allocs \subseteq Address /\ DOMAIN reg.handles \subseteq HandleName
    /\ DOMAIN reg.maps \subseteq Address /\ DOMAIN reg.physical \subseteq 1..IdCap
    /\ \A k \in DOMAIN reg.maps : reg.maps[k].access \subseteq SpanType
    /\ \A c \in DOMAIN reg.counts : reg.counts[c] \in 0..(ByteCap + ObjectCap)
    /\ reg.accessCount \in 0..AccessCap /\ reg.next \in 1..IdCap /\ reg.revision \in Nat
    /\ under \in [Byte -> 0..IdCap] /\ right \in [Byte -> [Device -> Flag]]

\* The eight counters that the summary record prints are what one would count
\* in the maps, and the spans are as many as the cap compares with.
CountsAreSums ==
    LET c    == reg.counts
        kind(reservation) == {a \in Live(reg) : reg.allocs[a].reservation = reservation}
        bytes(set) == MapThenSumSet(LAMBDA a : reg.allocs[a].bytes, set)
    IN  /\ c.allocations = Cardinality(kind(FALSE)) /\ c.allocationBytes = bytes(kind(FALSE))
        /\ c.reservations = Cardinality(kind(TRUE)) /\ c.reservationBytes = bytes(kind(TRUE))
        /\ c.handles = Cardinality({h \in HandleName : LiveHandle(reg, h)})
        /\ c.mappings = Cardinality(DOMAIN reg.maps)
        /\ c.mappedBytes = MapThenSumSet(LAMBDA k : reg.maps[k].bytes, DOMAIN reg.maps)
        /\ c.physicalBytes = MapThenSumSet(LAMBDA p : reg.physical[p].bytes, DOMAIN reg.physical)
        /\ reg.accessCount = MapThenSumSet(LAMBDA k : Cardinality(reg.maps[k].access), DOMAIN reg.maps)

\* Memory is in the ledger exactly while a live handle or a mapping keeps it,
\* whatever the order of unmaps and releases, and knows how many mappings.
MemoryLivesWhileKept ==
    LET held   == {reg.handles[h].id : h \in {g \in DOMAIN reg.handles : reg.handles[g].live}}
        mapped == {reg.maps[k].physical : k \in DOMAIN reg.maps}
    IN  /\ DOMAIN reg.physical = held \cup mapped
        /\ \A p \in DOMAIN reg.physical :
               /\ reg.physical[p].retained = (p \in held)
               /\ reg.physical[p].maps = Uses(reg, DOMAIN reg.maps, p)

\* A mapping lies in the live reservation that it names, apart from every
\* other mapping: unmap looks its owner up and uses it without asking.
MappingsLieInTheirReservation ==
    \A k \in DOMAIN reg.maps :
        LET m == reg.maps[k]
        IN  /\ Reserved(reg, k, m.bytes) /\ reg.allocs[Owner(reg, k, m.bytes)].id = m.allocation
            /\ Hits(reg, k, m.bytes) = {k}

\* The spans of a mapping stay inside it and no two of a device overlap, so
\* that sums of their sizes count bytes.
SpansPartition ==
    \A k \in DOMAIN reg.maps : \A s, t \in reg.maps[k].access :
        /\ Within(s.offset, s.bytes, 0, reg.maps[k].bytes)
        /\ s # t /\ s.device = t.device => ~Meets(s.offset, s.bytes, t.offset, t.bytes)

\* What resolve says of a range is what holds of each of its bytes, for the
\* calls that were made on it since it was mapped.
AnswersAreBytewise ==
    \A a \in Address, n \in Size, d \in Device :
        Valid(a, n) /\ Reserved(reg, a, n) =>
            LET answer == Resolve(reg, a, n, d, NoContext)
                mapped == \A x \in Bytes(a, n) : under[x] # 0
            IN  /\ answer.mapped = mapped
                /\ answer.readable = (mapped /\ \A x \in Bytes(a, n) : right[x][d] # "none")
                /\ answer.writable = (mapped /\ \A x \in Bytes(a, n) : right[x][d] = "write")

\* The bytes of a mapping hold the memory that was mapped there, though its
\* handle may have been released and reused since.
MappingsKeepTheirMemory ==
    \A k \in DOMAIN reg.maps :
        \A x \in Bytes(k, reg.maps[k].bytes) : under[x] = reg.maps[k].physical

\* The ledger after single unmaps of the mappings of a range, upwards.
RECURSIVE OneByOne(_, _)
OneByOne(r, keys) ==
    IF keys = {} THEN r ELSE OneByOne(Unmap(r, Min(keys)), keys \ {Min(keys)})

\* unmap_range does what unmap does of each mapping in turn: counters,
\* references and the memory that goes with the last of them.
RangeIsItsMappings ==
    \A a \in Address, n \in Size :
        CanUnmapRange(reg, a, n) => UnmapRange(reg, a, n) = OneByOne(reg, Hits(reg, a, n))

\* An identity names one object for ever: nothing new gets an old number, and
\* an address or a handle that is used again gets the next generation.
IdentitiesAreNotReused ==
    /\ reg'.next >= reg.next
    /\ \A p \in DOMAIN reg'.physical : p \in DOMAIN reg.physical \/ p >= reg.next
    /\ \A a \in DOMAIN reg.allocs :
           IF reg'.allocs[a].id = reg.allocs[a].id
           THEN reg'.allocs[a].generation = reg.allocs[a].generation
           ELSE reg'.allocs[a].id >= reg.next
                /\ reg'.allocs[a].generation = reg.allocs[a].generation + 1
    /\ \A h \in DOMAIN reg.handles :
           reg'.handles[h].id # reg.handles[h].id =>
               reg'.handles[h].generation = reg.handles[h].generation + 1
=============================================================================
