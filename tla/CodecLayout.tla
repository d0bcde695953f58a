----------------------------- MODULE CodecLayout -----------------------------
(***************************************************************************)
(* Where the nvCOMP pipeline puts a generation inside the buffers of a     *)
(* slot (src/residency/nvcomp_pipeline.cpp): the sizes setup() computes,   *)
(* the packing loop of decode() and the transfer layout of an encode. The  *)
(* size of a block is a parameter; the sizes, alignments and payloads are  *)
(* every one nvCOMP and a container may give within its bounds.            *)
(***************************************************************************)
EXTENDS Integers, Sequences

CONSTANTS
  BlockBytes,    (* nvcomp_lz4_block_bytes                                   *)
  MaxBlocks,     (* chunk_bytes / nvcomp_lz4_block_bytes                     *)
  Alignments,    (* The alignments nvCOMP may ask for.                       *)
  MaxExpansion   (* What max_compressed_block_bytes_ may exceed a block by.  *)

LayoutAssumption ==
  /\ BlockBytes \in Nat \ {0} /\ MaxBlocks \in Nat \ {0} /\ MaxExpansion \in Nat
  /\ Alignments \subseteq Nat \ {0}

VARIABLES
  dims,     (* The sizes of the slot, from setup().                          *)
  request,  (* The generation: kind, blocks still to place.                  *)
  placed    (* The ranges given to the blocks so far, and the two cursors.   *)

layoutVars == <<dims, request, placed>>

AlignUp(value, alignment) == ((value + alignment - 1) \div alignment) * alignment
Maximum(S) == CHOOSE m \in S : \A x \in S : x <= m
Minimum(a, b) == IF a <= b THEN a ELSE b

(* make_metadata_layout: the regions, each `blocks` elements, the last two  *)
(* (token and match) one.                                                   *)
Region(bytes, alignment) == [bytes |-> bytes, alignment |-> alignment]
Regions ==
  <<Region(8, 8), Region(8, 8), Region(8, 8), Region(8, 8), Region(8, 8), Region(4, 4),
    Region(16, 8), Region(4, 4)>>
RegionCount(i, blocks) == IF i <= 6 THEN blocks ELSE 1

AppendAt(cursor, alignment) == AlignUp(cursor, alignment)

(* append_region, from the first region on *)
Metadata(blocks) ==
  LET m[i \in DOMAIN Regions] ==
        LET offset == AppendAt(IF i = 1 THEN 0 ELSE m[i - 1].end, Regions[i].alignment) IN
          [offset |-> offset, end |-> offset + RegionCount(i, blocks) * Regions[i].bytes]
  IN m

PayloadBytes(encode, decode, chunk) == Maximum({encode, decode, chunk})

(* setup(): the stride of an encode, and the payload of a slot. That the    *)
(* other two alignments, of an encode's input and a decode's output, divide *)
(* a block is checked there; these two only have to be positive.            *)
Dimensions(blocks, input, output, expansion) ==
  LET stride == AlignUp(BlockBytes + expansion, output) IN
    [blocks |-> blocks, input |-> input, stride |-> stride,
     compressedMax |-> BlockBytes + expansion,
     payload |-> PayloadBytes(stride * blocks, AlignUp(BlockBytes, input) * blocks,
                              BlockBytes * blocks)]

Nowhere == [ranges |-> <<>>, low |-> 0, high |-> 0, failed |-> FALSE]
NoRequest == [kind |-> "none", remaining |-> 0]

LayoutInit ==
  /\ \E blocks \in 1..MaxBlocks, input, output \in Alignments, expansion \in 0..MaxExpansion :
       dims = Dimensions(blocks, input, output, expansion)
  /\ request = NoRequest /\ placed = Nowhere

Validated(bytes) == bytes \in 1..(dims.blocks * BlockBytes)

Take(kind) ==
  /\ request.remaining = 0
  /\ \E bytes \in 1..(dims.blocks * BlockBytes) :
       Validated(bytes) /\ request' = [kind |-> kind, remaining |-> bytes]
  /\ placed' = [Nowhere EXCEPT !.high = dims.payload]
  /\ UNCHANGED dims

BlockSize == Minimum(request.remaining, BlockBytes)
Advance == request' = [request EXCEPT !.remaining = @ - BlockSize]

PackAt(cursor) == AlignUp(cursor, dims.input)

Placed(storage, from, to) == [storage |-> storage, from |-> from, to |-> to, of |-> BlockSize]
Refuse == placed' = [placed EXCEPT !.failed = TRUE] /\ request' = NoRequest

(* A compressed block goes to the next aligned place from the start: one    *)
(* copy and one batch take them all.                                        *)
PackCompressed ==
  /\ request.kind = "decode" /\ request.remaining > 0
  /\ \E bytes \in 1..(BlockSize - 1) :
       LET from == PackAt(placed.low) IN
       IF bytes > placed.high \/ from > placed.high - bytes THEN Refuse
       ELSE /\ placed' = [placed EXCEPT !.ranges = Append(@, Placed("lz4", from, from + bytes)),
                                        !.low = from + bytes]
            /\ Advance
  /\ UNCHANGED dims

StageBelow(cursor, bytes) == cursor - bytes

(* A raw or zero block is staged below the last one, from the end, and      *)
(* copied from there to its final address at once.                          *)
StageRaw ==
  /\ request.kind = "decode" /\ request.remaining > 0
  /\ \E storage \in {"raw", "zero"} :
       LET bytes == BlockSize IN
       IF bytes > placed.high \/ placed.low > placed.high - bytes THEN Refuse
       ELSE LET from == StageBelow(placed.high, bytes) IN
            /\ placed' = [placed EXCEPT !.ranges = Append(@, Placed(storage, from, from + bytes)),
                                        !.high = from]
            /\ Advance
  /\ UNCHANGED dims

Worthwhile(actual, raw) == actual < raw

(* begin_encode_transfer(): a block is fetched compressed if it is smaller, *)
(* else raw, one after the other.                                           *)
TransferBlock ==
  /\ request.kind = "encode" /\ request.remaining > 0
  /\ \E actual \in 1..dims.compressedMax :
       LET compressed == Worthwhile(actual, BlockSize)
           bytes == IF compressed THEN actual ELSE BlockSize
       IN IF placed.low + bytes > dims.payload THEN Refuse
          ELSE /\ placed' = [placed EXCEPT
                    !.ranges = Append(@, Placed(IF compressed THEN "lz4" ELSE "raw",
                                                placed.low, placed.low + bytes)),
                    !.low = @ + bytes]
               /\ Advance
  /\ UNCHANGED dims

LayoutNext ==
  Take("decode") \/ Take("encode") \/ PackCompressed \/ StageRaw \/ TransferBlock

LayoutSpec == LayoutInit /\ [][LayoutNext]_layoutVars

-----------------------------------------------------------------------------
(* The types of the layout's state. *)
LayoutTypeOK ==
  /\ dims.payload \in Nat \ {0} /\ dims.blocks \in 1..MaxBlocks
  /\ request.kind \in {"none", "decode", "encode"} /\ request.remaining \in Nat
  /\ placed.low \in Nat /\ placed.high \in 0..dims.payload

(* The capacity checks of the packing loops never refuse what validation    *)
(* let through. decode() resets the slot without waiting for its stream     *)
(* when one does (abort_before_event), also when raw blocks before it have  *)
(* already been submitted: it relies on this.                               *)
ValidatedAlwaysFits == ~placed.failed

(* No two blocks of a generation share a byte of the pinned payload: copies *)
(* from it run while the loop writes the next block.                        *)
RangesAreDisjoint ==
  \A i, j \in DOMAIN placed.ranges :
    i < j => \/ placed.ranges[i].to <= placed.ranges[j].from
             \/ placed.ranges[j].to <= placed.ranges[i].from

(* Every block lies in the buffer of the slot, a compressed one of a decode *)
(* where nvCOMP can read it.                                                *)
RangesAreUsable ==
  \A i \in DOMAIN placed.ranges :
    LET r == placed.ranges[i] IN
      /\ r.from < r.to /\ r.to <= dims.payload
      /\ request.kind = "decode" /\ r.storage = "lz4" => r.from % dims.input = 0

(* What is kept of an encode is a container the next decode accepts: a      *)
(* compressed block is smaller than the bytes it stands for, a raw one      *)
(* exactly as large. *)
CandidateIsAContainer ==
  request.kind = "encode" =>
    \A i \in DOMAIN placed.ranges :
      LET r == placed.ranges[i] IN
        IF r.storage = "lz4" THEN r.to - r.from < r.of ELSE r.to - r.from = r.of

(* The regions of the metadata are aligned for what they hold, in order and *)
(* disjoint, for an odd number of 4-byte statuses too.                      *)
MetadataIsSound ==
  LET m == Metadata(dims.blocks) IN
    \A i \in DOMAIN Regions :
      /\ m[i].offset % Regions[i].alignment = 0
      /\ m[i].end - m[i].offset = RegionCount(i, dims.blocks) * Regions[i].bytes
      /\ i > 1 => m[i - 1].end <= m[i].offset
=============================================================================
