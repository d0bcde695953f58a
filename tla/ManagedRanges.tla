--------------------------- MODULE ManagedRanges ---------------------------
(***************************************************************************)
(* The byte ranges of the Python layer: the rows of an embedding a run     *)
(* touches and the merging of a node's accesses (torch_planner.py), and    *)
(* the chunked loading of state into a storage several targets share       *)
(* (torch_native.py).                                                      *)
(*                                                                         *)
(* A behaviour answers one job.  Rows and merging take one step; loading   *)
(* takes one step per chunk the provider yields, and a provider of the     *)
(* user's own may yield them in any order, overlapping or not at all.      *)
(***************************************************************************)
EXTENDS Integers, Sequences, FiniteSets, SequencesExt

CONSTANTS
  Vocabulary,   \* rows of the embedding
  RowBytes, RowOffset,
  Storages, Space, MaxRanges,  \* ranges to merge: storages, bytes and how many
  StorageBytes, Tied,          \* the storage to load and its sequences of targets
  Chunks                       \* chunks a provider yields for one target (bound)

RangesAssumption ==
  /\ Vocabulary \in Nat \ {0} /\ RowBytes \in Nat \ {0} /\ RowOffset \in Nat
  /\ Space \in Nat \ {0} /\ MaxRanges \in Nat /\ StorageBytes \in Nat \ {0} /\ Chunks \in Nat

VARIABLES job,      \* what is asked
          state,    \* "asked", "done", "refused" or "incomplete"
          result,   \* the ranges answered
          rest,     \* targets still to load, and chunks the current one may still yield
          covered,  \* the bytes loaded so far, as sorted intervals
          written   \* how often each byte of the storage was written

vars == <<job, state, result, rest, covered, written>>

Modes == {"read", "write_only", "read_write"}
Access(storage, offset, length, mode) ==
  [storage |-> storage, offset |-> offset, length |-> length, mode |-> mode]
End(r) == r.offset + r.length
Bytes(r) == {<<r.storage, i>> : i \in r.offset .. End(r) - 1}

-----------------------------------------------------------------------------
(* embedding_row_ranges: consecutive rows become one range.                *)

RowRange(begin, previous) ==
  Access("weight", RowOffset + begin * RowBytes, (previous - begin + 1) * RowBytes, "read")

NextRow(acc, row) ==
  IF row = acc.previous + 1
  THEN [acc EXCEPT !.previous = row]
  ELSE [done |-> Append(acc.done, RowRange(acc.begin, acc.previous)),
        begin |-> row, previous |-> row]

RowRanges(rows) ==
  LET ordered == SetToSortSeq(rows, <)
      last == FoldLeft(NextRow, [done |-> <<>>, begin |-> Head(ordered), previous |-> Head(ordered)],
                       Tail(ordered))
  IN Append(last.done, RowRange(last.begin, last.previous))

-----------------------------------------------------------------------------
(* merge_managed_ranges: overlapping and adjacent ranges of a storage.     *)

MergedMode(left, right) == IF left = right THEN left ELSE "read_write"

Precedes(a, b) ==
  \/ a.offset < b.offset
  \/ a.offset = b.offset /\ a.length < b.length
  \/ a.offset = b.offset /\ a.length = b.length /\ a.mode = "read" /\ b.mode # "read"
  \/ a.offset = b.offset /\ a.length = b.length /\ a.mode = "write_only" /\ b.mode = "read_write"

Larger(a, b) == IF a < b THEN b ELSE a

Absorbed(current, item) ==
  Access(current.storage, current.offset, Larger(End(current), End(item)) - current.offset,
        MergedMode(current.mode, item.mode))

Touches(item, current) == item.offset <= End(current)

MergedOf(items) ==
  LET step(acc, item) ==
        IF Touches(item, acc.current)
        THEN [acc EXCEPT !.current = Absorbed(acc.current, item)]
        ELSE [done |-> Append(acc.done, acc.current), current |-> item]
      ordered == SetToSortSeq(items, Precedes)
      last == FoldLeft(step, [done |-> <<>>, current |-> Head(ordered)], Tail(ordered))
  IN Append(last.done, last.current)

MergeManagedRanges(ranges) ==
  UNION {ToSet(MergedOf({r \in ranges : r.storage = s})) : s \in {r.storage : r \in ranges}}

-----------------------------------------------------------------------------
(* The intervals a storage has been loaded at.                             *)

Without(piece, prior) ==
  IF prior.end <= piece.begin \/ prior.begin >= piece.end THEN {piece}
  ELSE (IF piece.begin < prior.begin THEN {[begin |-> piece.begin, end |-> prior.begin]} ELSE {})
         \union (IF prior.end < piece.end THEN {[begin |-> prior.end, end |-> piece.end]} ELSE {})

SubtractCovered(begin, end, known) ==
  FoldLeft(LAMBDA pending, prior : UNION {Without(p, prior) : p \in pending},
           {[begin |-> begin, end |-> end]}, known)

Earlier(a, b) == a.begin < b.begin

Join(merged, next) ==
  IF merged = <<>> \/ next.begin > Last(merged).end THEN Append(merged, next)
  ELSE [merged EXCEPT ![Len(merged)].end = Larger(@, next.end)]

AddCovered(known, begin, end) ==
  FoldLeft(Join, <<>>, SetToSortSeq(ToSet(known) \union {[begin |-> begin, end |-> end]}, Earlier))

-----------------------------------------------------------------------------
Nothing == [left |-> <<>>, chunks |-> 0]
Idle == [i \in 0 .. StorageBytes - 1 |-> 0]

SomeRanges == {Access(s, o, l, m) : s \in Storages, o \in 0 .. Space - 1, l \in 1 .. Space,
                                   m \in {"read", "write_only"}}
InSpace == {r \in SomeRanges : End(r) <= Space}

Jobs ==
  {[kind |-> "rows", rows |-> rows] : rows \in (SUBSET (-1 .. Vocabulary)) \ {{}}}
    \union {[kind |-> "merge", ranges |-> rs] :
              rs \in {{f[i] : i \in 1 .. MaxRanges} : f \in [1 .. MaxRanges -> InSpace]}}
    \union {[kind |-> "load", targets |-> ts] : ts \in Tied}

Init ==
  /\ job \in Jobs
  /\ state = "asked" /\ result = {} /\ covered = <<>> /\ written = Idle
  /\ rest = IF job.kind = "load" THEN [left |-> job.targets, chunks |-> Chunks] ELSE Nothing

Rows ==
  /\ job.kind = "rows" /\ state = "asked"
  /\ IF job.rows \subseteq 0 .. Vocabulary - 1
     THEN state' = "done" /\ result' = ToSet(RowRanges(job.rows))
     ELSE state' = "refused" /\ UNCHANGED result
  /\ UNCHANGED <<job, rest, covered, written>>

Merge ==
  /\ job.kind = "merge" /\ state = "asked"
  /\ state' = "done" /\ result' = MergeManagedRanges(job.ranges)
  /\ UNCHANGED <<job, rest, covered, written>>

Loading == job.kind = "load" /\ state = "asked" /\ rest.left # <<>>

(* Only the parts of a chunk no earlier target brought are written.        *)
Write(begin, end) ==
  LET parts == SubtractCovered(begin, end, covered)
  IN /\ written' = [i \in DOMAIN written |->
                      written[i] + Cardinality({p \in parts : i >= p.begin /\ i < p.end})]
     /\ covered' = FoldLeft(LAMBDA known, p : AddCovered(known, p.begin, p.end), covered,
                            SetToSortSeq(parts, Earlier))

(* The provider yields the bytes begin .. end - 1 of the storage.          *)
Chunk ==
  /\ Loading /\ rest.chunks > 0
  /\ \E begin \in 0 .. StorageBytes - 1, end \in 1 .. StorageBytes :
       /\ begin < end
       /\ IF begin < Head(rest.left).begin \/ end > Head(rest.left).end
          THEN state' = "refused" /\ UNCHANGED <<covered, written, rest>>
          ELSE /\ Write(begin, end)
               /\ rest' = [rest EXCEPT !.chunks = @ - 1]
               /\ UNCHANGED state
  /\ UNCHANGED <<job, result>>

TargetEnds ==
  /\ Loading
  /\ rest' = [left |-> Tail(rest.left), chunks |-> Chunks]
  /\ UNCHANGED <<job, state, result, covered, written>>

LoadEnds ==
  /\ job.kind = "load" /\ state = "asked" /\ rest.left = <<>>
  /\ state' = IF covered = <<[begin |-> 0, end |-> StorageBytes]>> THEN "done" ELSE "incomplete"
  /\ UNCHANGED <<job, result, rest, covered, written>>

Next == Rows \/ Merge \/ Chunk \/ TargetEnds \/ LoadEnds
Spec == Init /\ [][Next]_vars

-----------------------------------------------------------------------------
Touched(ranges) == UNION {Bytes(r) : r \in ranges}
Reading(ranges) == {r \in ranges : r.mode # "write_only"}
Writing(ranges) == {r \in ranges : r.mode # "read"}
Merged == job.kind = "merge" /\ state = "done"
Answered == job.kind \in {"rows", "merge"} /\ state = "done"

(* The job's state, its answer and what is loaded have their types.        *)
RangesTypeOK ==
  /\ state \in {"asked", "done", "refused", "incomplete"}
  /\ \A r \in result : r.mode \in Modes /\ r.offset \in Nat /\ r.length \in Nat \ {0}
  /\ \A i \in DOMAIN covered : covered[i].begin < covered[i].end
  /\ written \in [0 .. StorageBytes - 1 -> Nat]

(* A run of an embedding declares exactly the rows its token ids name:     *)
(* embedding_row_ranges neither loses a row nor pulls in one between.      *)
RowsAreExact ==
  job.kind = "rows" /\ state = "done" =>
    Touched(result) = {<<"weight", RowOffset + row * RowBytes + i>> :
                         row \in job.rows, i \in 0 .. RowBytes - 1}

(* What merge_managed_ranges returns covers the bytes it was given and no  *)
(* byte between two ranges.                                                *)
MergeIsExact == Merged => Touched(result) = Touched(job.ranges)

(* Merging does not weaken an access: a byte some access reads is still    *)
(* read (its old contents are brought in) and a byte some access writes is *)
(* still written.                                                          *)
ModesNotWeakened ==
  Merged => /\ Touched(Reading(job.ranges)) \subseteq Touched(Reading(result))
            /\ Touched(Writing(job.ranges)) \subseteq Touched(Writing(result))

(* Two ranges of an answer never overlap or touch: a chunk's access is     *)
(* declared once.                                                          *)
RangesApart ==
  Answered => \A a, b \in result :
                a # b /\ a.storage = b.storage => End(a) < b.offset \/ End(b) < a.offset

(* A byte two tied targets share is written by the first of them only, and *)
(* the intervals kept are the bytes written.                               *)
WrittenOnce ==
  \A i \in DOMAIN written :
    written[i] = IF \E n \in DOMAIN covered : covered[n].begin <= i /\ i < covered[n].end
                 THEN 1 ELSE 0

(* A storage is taken as initialised when, and only when, every byte of it *)
(* was written, however the targets and their chunks overlap.              *)
WholeIsAccepted ==
  job.kind = "load" /\ state \in {"done", "incomplete"} =>
    (state = "done" <=> \A i \in DOMAIN written : written[i] = 1)
=============================================================================
