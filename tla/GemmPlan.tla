------------------------------ MODULE GemmPlan ------------------------------
(***************************************************************************)
(* The planner of the out-of-core matrix product C = A * B + beta * C      *)
(* (src/gemm/planner.cpp), and the library calls its tiles become          *)
(* (src/gemm/executor.cpp).  A matrix is a view into an allocation; a      *)
(* tile's working set is the chunks its bytes lie in.  The planner shrinks *)
(* its tiles until the largest working set fits in the cache.              *)
(*                                                                         *)
(* 64-bit overflow checks are left out: the numbers here are small.  The   *)
(* element types are abstracted to their size, and to whether C is too     *)
(* narrow to accumulate in.                                                *)
(***************************************************************************)
EXTENDS Integers, FiniteSets, Sequences, SequencesExt

CONSTANTS
  Problems,   \* the products to plan
  Caches,     \* [chunk, capacity]: the chunk size and the bytes for chunks
  Element,    \* the size of an element
  Alignment,  \* tile_alignment: 4, 8 or 16 in the code
  Preferred,  \* the preferred geometry
  MaxTiles,   \* maximum_tiles
  MaxRanges   \* maximum_access_ranges_per_tile

PlanAssumption ==
  /\ Element \in Nat \ {0} /\ Alignment \in Nat \ {0}
  /\ MaxTiles \in Nat \ {0} /\ MaxRanges \in Nat \ {0}

VARIABLES problem, cache, geometry, outcome, tiles

planVars == <<problem, cache, geometry, outcome, tiles>>

------------------------------------------------------------------------------
(* Matrices                                                                *)

\* [id, size, offset, rows, columns, ld, layout]
RowMajor(v) == v.layout = "row"
Majors(v) == IF RowMajor(v) THEN v.rows ELSE v.columns
Minors(v) == IF RowMajor(v) THEN v.columns ELSE v.rows

\* The first byte of an element of the view.
Offset(v, row, column) ==
  v.offset + Element * (IF RowMajor(v) THEN row * v.ld + column
                                       ELSE column * v.ld + row)
\* The same for the operated matrix, transposed or not.
OperatedOffset(v, op, row, column) ==
  IF op = "none" THEN Offset(v, row, column) ELSE Offset(v, column, row)
OperatedShape(v, op) ==
  IF op = "none" THEN <<v.rows, v.columns>> ELSE <<v.columns, v.rows>>

\* [begin, end) of everything between a view's first and last byte.
End(v) == v.offset + Element * ((Majors(v) - 1) * v.ld + Minors(v))
ValidMatrix(v) ==
  /\ v.rows > 0 /\ v.columns > 0 /\ v.ld >= Minors(v)
  /\ v.offset < v.size /\ End(v) <= v.size

Overlaps(v, w) == v.id = w.id /\ v.offset < End(w) /\ w.offset < End(v)

\* [m, n, k, a, b, c, opA, opB, zeroBeta, narrow]
Valid(p) ==
  /\ p.m > 0 /\ p.n > 0 /\ p.k > 0
  /\ ValidMatrix(p.a) /\ ValidMatrix(p.b) /\ ValidMatrix(p.c)
  /\ \A v, w \in {p.a, p.b, p.c}: v.id = w.id => v.size = w.size
  /\ OperatedShape(p.a, p.opA) = <<p.m, p.k>>
  /\ OperatedShape(p.b, p.opB) = <<p.k, p.n>>
  /\ OperatedShape(p.c, "none") = <<p.m, p.n>>
  /\ ~Overlaps(p.a, p.c) /\ ~Overlaps(p.b, p.c)

------------------------------------------------------------------------------
(* Tiles                                                                   *)

Least(x, y) == IF x <= y THEN x ELSE y
Greatest(x, y) == IF x >= y THEN x ELSE y
CeilDivide(value, divisor) == (value + divisor - 1) \div divisor

TileCount(p, g) == CeilDivide(p.m, g.m) * CeilDivide(p.n, g.n) * CeilDivide(p.k, g.k)

UserBeta(k) == k = 0

\* write_only: the old contents of C are not even fetched.
WriteOnly(p, k) == k = 0 /\ p.zeroBeta

MakeTile(p, g, m, n, k) ==
  [m |-> m, n |-> n, k |-> k,
   mCount |-> Least(g.m, p.m - m), nCount |-> Least(g.n, p.n - n),
   kCount |-> Least(g.k, p.k - k),
   userBeta |-> UserBeta(k), writeOnly |-> WriteOnly(p, k)]

\* The tiles in the order they are visited: rows, columns, then panels.
VisitTiles(p, g) ==
  LET ks == CeilDivide(p.k, g.k)
      ns == CeilDivide(p.n, g.n)
  IN [s \in 1..TileCount(p, g) |->
        MakeTile(p, g, ((s - 1) \div (ks * ns)) * g.m,
                       (((s - 1) \div ks) % ns) * g.n, ((s - 1) % ks) * g.k)]

------------------------------------------------------------------------------
(* The working set of a tile, access by access                             *)

\* The rectangle of a view a tile touches: physical rows and columns.
Rectangle(v, op, row, rows, column, columns, mode) ==
  IF op = "none"
  THEN [v |-> v, row |-> row, rows |-> rows, column |-> column,
        columns |-> columns, mode |-> mode]
  ELSE [v |-> v, row |-> column, rows |-> columns, column |-> row,
        columns |-> rows, mode |-> mode]

CMode(t) == IF t.writeOnly THEN "write_only" ELSE "read_write"
RectangleA(p, t) == Rectangle(p.a, p.opA, t.m, t.mCount, t.k, t.kCount, "read")
RectangleB(p, t) == Rectangle(p.b, p.opB, t.k, t.kCount, t.n, t.nCount, "read")
RectangleC(p, t) == Rectangle(p.c, "none", t.m, t.mCount, t.n, t.nCount, CMode(t))

Access(id, offset, length, mode) ==
  [id |-> id, offset |-> offset, length |-> length, mode |-> mode]

\* One contiguous segment for every row or column of the rectangle.
SegmentCount(r) == IF RowMajor(r.v) THEN r.rows ELSE r.columns
SegmentBytes(r) == Element * (IF RowMajor(r.v) THEN r.columns ELSE r.rows)
Segments(r) ==
  [s \in 1..SegmentCount(r) |->
     Access(r.v.id,
            IF RowMajor(r.v) THEN Offset(r.v, r.row + s - 1, r.column)
                             ELSE Offset(r.v, r.row, r.column + s - 1),
            SegmentBytes(r), r.mode)]

AppendAccess(ranges, access) ==
  LET previous == Last(ranges)
  IN IF /\ ranges # <<>> /\ previous.id = access.id /\ previous.mode = access.mode
        /\ previous.offset + previous.length = access.offset
     THEN [ranges EXCEPT ![Len(ranges)].length = @ + access.length]
     ELSE Append(ranges, access)

RawAccesses(p, t) ==
  FoldLeft(AppendAccess, <<>>,
           Segments(RectangleA(p, t)) \o Segments(RectangleB(p, t))
             \o Segments(RectangleC(p, t)))

\* fast_normalize_accesses: sorted, and merged where one mode overlaps itself.
ModeRank == [read |-> 0, write_only |-> 1, read_write |-> 2]
Sorted(accesses) ==
  LET before(x, y) ==
        \/ x.id < y.id
        \/ x.id = y.id /\ x.offset < y.offset
        \/ x.id = y.id /\ x.offset = y.offset /\ x.length < y.length
        \/ /\ x.id = y.id /\ x.offset = y.offset /\ x.length = y.length
           /\ ModeRank[x.mode] < ModeRank[y.mode]
  IN SortSeq(accesses, before)

\* mutant: a range inside the one before it shortens it
MergeShort(ranges, access) ==
  LET previous == Last(ranges)
      end == previous.offset + previous.length
  IN IF /\ ranges # <<>> /\ previous.id = access.id /\ previous.mode = access.mode
        /\ access.offset <= end
     THEN [ranges EXCEPT ![Len(ranges)].length =
             access.offset + access.length - previous.offset]
     ELSE Append(ranges, access)

Merge(ranges, access) ==
  LET previous == Last(ranges)
      end == previous.offset + previous.length
  IN IF /\ ranges # <<>> /\ previous.id = access.id /\ previous.mode = access.mode
        /\ access.offset <= end
     THEN [ranges EXCEPT ![Len(ranges)].length =
             Greatest(end, access.offset + access.length) - previous.offset]
     ELSE Append(ranges, access)

Accesses(p, t) == FoldLeft(Merge, <<>>, Sorted(RawAccesses(p, t)))

\* Two modes on the same bytes need the general normalizer.
NeedsGeneral(ranges) ==
  \E i \in 2..Len(ranges):
    /\ ranges[i].id = ranges[i - 1].id /\ ranges[i].mode # ranges[i - 1].mode
    /\ ranges[i].offset < ranges[i - 1].offset + ranges[i - 1].length

\* collect_chunks
ChunksOf(ranges, chunk) ==
  UNION {{<<ranges[i].id, c>>: c \in (ranges[i].offset \div chunk)..
            ((ranges[i].offset + ranges[i].length - 1) \div chunk)}:
         i \in DOMAIN ranges}

------------------------------------------------------------------------------
(* The same, summarized without listing the accesses                       *)

Contiguous(r) == SegmentBytes(r) = Element * r.v.ld
RangeCount(r) == IF Contiguous(r) THEN 1 ELSE SegmentCount(r)

\* The chunks of one more segment, given the last chunk covered so far.
Additional(first, last, covered) ==
  IF first > covered THEN last - first + 1
  ELSE IF last > covered THEN last - covered ELSE 0

ChunkCount(r, chunk) ==
  LET segments == Segments(r)
      first(s) == segments[s].offset \div chunk
      last(s) == (segments[s].offset + segments[s].length - 1) \div chunk
      step(acc, s) == [count |-> acc.count + Additional(first(s), last(s), acc.covered),
                       covered |-> Greatest(acc.covered, last(s))]
  IN IF Contiguous(r)
     THEN last(SegmentCount(r)) - first(1) + 1
     ELSE FoldLeft(step, [count |-> 0, covered |-> -1],
                   [s \in 1..SegmentCount(r) |-> s]).count

------------------------------------------------------------------------------
(* Planning                                                                *)

Distinct(p) == Cardinality({p.a.id, p.b.id, p.c.id}) = 3
Rectangles(p, t) == <<RectangleA(p, t), RectangleB(p, t), RectangleC(p, t)>>
SumOf(f) == FoldLeft(LAMBDA x, y: x + y, 0, f)

Resident(p, chunk, t) ==
  IF Distinct(p)
  THEN SumOf([i \in 1..3 |-> ChunkCount(Rectangles(p, t)[i], chunk)])
  ELSE Cardinality(ChunksOf(Accesses(p, t), chunk))

\* The ranges that count against the limit; a shared allocation is measured
\* while its accesses are appended.
Ranges(p, t) ==
  IF Distinct(p) THEN SumOf([i \in 1..3 |-> RangeCount(Rectangles(p, t)[i])])
  ELSE Len(RawAccesses(p, t))

\* assess_geometry: the tiles can be listed within the limits, and the largest
\* working set in bytes.
Assessable(p, g) ==
  /\ TileCount(p, g) <= MaxTiles
  /\ LET visited == VisitTiles(p, g)
     IN \A s \in DOMAIN visited: Ranges(p, visited[s]) <= MaxRanges
LargestResident(p, ch, g) ==
  LET visited == VisitTiles(p, g)
      largest(acc, t) == Greatest(acc, Resident(p, ch.chunk, t) * ch.chunk)
  IN FoldLeft(largest, 0, visited)

Available(ch) == (ch.capacity \div ch.chunk) * ch.chunk
Fits(p, ch, g) == LargestResident(p, ch, g) <= Available(ch)

Reduced(value) ==
  LET half == value \div 2
      aligned == IF value > Alignment
                 THEN LET h == Greatest(half, Alignment) IN h - (h % Alignment)
                 ELSE half
      r == Greatest(1, aligned)
  IN IF value <= 1 THEN value ELSE IF r >= value THEN value - 1 ELSE r

Reductions(p, g) ==
  {[g EXCEPT !.m = Reduced(@)], [g EXCEPT !.n = Reduced(@)],
   [g EXCEPT !.k = IF p.narrow THEN @ ELSE Reduced(@)]} \ {g}
Candidates(p, g) == {r \in Reductions(p, g): Assessable(p, r)}

Volume(g) == g.m * g.n * g.k
LexLess(x, y) ==
  \E i \in DOMAIN x: x[i] < y[i] /\ \A j \in 1..i - 1: x[j] = y[j]

\* Of candidates that fit the largest tile, else the smallest working set.
Key(p, ch, g, fitting) ==
  LET size == LargestResident(p, ch, g)
  IN IF fitting
     THEN <<IF Fits(p, ch, g) THEN 0 ELSE 1, -Volume(g), size, g.m, g.n, g.k>>
     ELSE <<0, size, -Volume(g), g.m, g.n, g.k>>
Best(p, ch, g) ==
  LET candidates == Candidates(p, g)
      fitting == \E x \in candidates: Fits(p, ch, x)
      keys == [x \in candidates |-> Key(p, ch, x, fitting)]
  IN CHOOSE x \in candidates: \A y \in candidates \ {x}: LexLess(keys[x], keys[y])

\* A C too narrow to accumulate in takes all of K in one call.
FirstK(p) == IF p.narrow THEN p.k ELSE Least(p.k, Preferred.k)

Start(p) == [m |-> Least(p.m, Preferred.m), n |-> Least(p.n, Preferred.n),
             k |-> FirstK(p)]

Init ==
  /\ problem \in Problems /\ cache \in Caches
  /\ geometry = Start(problem)
  /\ tiles = <<>>
  /\ outcome = IF Valid(problem) /\ Available(cache) > 0 THEN "planning" ELSE "refused"

Refuse ==
  /\ outcome = "planning" /\ geometry = Start(problem)
  /\ ~Assessable(problem, geometry)
  /\ outcome' = "too_many"
  /\ UNCHANGED <<problem, cache, geometry, tiles>>

Shrink ==
  /\ outcome = "planning" /\ Assessable(problem, geometry)
  /\ ~Fits(problem, cache, geometry) /\ Candidates(problem, geometry) # {}
  /\ geometry' = Best(problem, cache, geometry)
  /\ UNCHANGED <<problem, cache, outcome, tiles>>

GiveUp ==
  /\ outcome = "planning" /\ Assessable(problem, geometry)
  /\ ~Fits(problem, cache, geometry) /\ Candidates(problem, geometry) = {}
  /\ outcome' = "too_large"
  /\ UNCHANGED <<problem, cache, geometry, tiles>>

Plan ==
  /\ outcome = "planning" /\ Assessable(problem, geometry)
  /\ Fits(problem, cache, geometry)
  /\ tiles' = VisitTiles(problem, geometry)
  /\ outcome' = "planned"
  /\ UNCHANGED <<problem, cache, geometry>>

Next == Refuse \/ Shrink \/ GiveUp \/ Plan
Spec == Init /\ [][Next]_planVars

------------------------------------------------------------------------------
(* The library call of a tile                                              *)

\* cuBLAS computes in column-major order.  A row-major C is computed as its
\* transpose, from the operands in the other order.
PhysicalOperation(v, op, result) ==
  IF (IF result THEN op = "none" ELSE op # "none") # RowMajor(v)
  THEN "transpose" ELSE "none"

\* The arguments of the core call.
CoreCall(p, t) ==
  LET result == RowMajor(p.c)
      a == [at |-> OperatedOffset(p.a, p.opA, t.m, t.k), id |-> p.a.id,
            ld |-> p.a.ld, op |-> PhysicalOperation(p.a, p.opA, result)]
      b == [at |-> OperatedOffset(p.b, p.opB, t.k, t.n), id |-> p.b.id,
            ld |-> p.b.ld, op |-> PhysicalOperation(p.b, p.opB, result)]
  IN [first |-> IF result THEN b ELSE a, second |-> IF result THEN a ELSE b,
      m |-> IF result THEN t.nCount ELSE t.mCount,
      n |-> IF result THEN t.mCount ELSE t.nCount, k |-> t.kCount,
      c |-> [at |-> Offset(p.c, t.m, t.n), id |-> p.c.id, ld |-> p.c.ld]]

\* What cuBLAS does with them: the elements of C it writes, and the pairs of
\* elements of the operands it multiplies for each.
ColumnMajor(x, i, j) == <<x.id, x.at + Element * (j * x.ld + i)>>
Operand(x, i, j) ==
  IF x.op = "none" THEN ColumnMajor(x, i, j) ELSE ColumnMajor(x, j, i)
CoreProducts(call) ==
  {<<ColumnMajor(call.c, i, j), {Operand(call.first, i, p), Operand(call.second, p, j)}>>:
     i \in 0..call.m - 1, j \in 0..call.n - 1, p \in 0..call.k - 1}

------------------------------------------------------------------------------
(* Properties                                                              *)

Addresses(v) == {<<v.id, Offset(v, i, j) + e>>: i \in 0..v.rows - 1,
                   j \in 0..v.columns - 1, e \in 0..Element - 1}
Covers(t, i, j, p) ==
  /\ i \in t.m..t.m + t.mCount - 1 /\ j \in t.n..t.n + t.nCount - 1
  /\ p \in t.k..t.k + t.kCount - 1
Planned == outcome = "planned"

\* The outcome is one of the planner's, and only a plan has tiles.
PlanTypeOK ==
  /\ outcome \in {"planning", "refused", "too_many", "too_large", "planned"}
  /\ geometry \in [m: 1..problem.m, n: 1..problem.n, k: 1..problem.k]
  /\ Planned <=> tiles # <<>>

\* In an accepted product no element of C is an element of A or of B: a tile
\* never overwrites an operand of a later tile (planner.cpp validate_problem).
ResultIsNoOperand ==
  outcome # "refused" =>
    Addresses(problem.c) \cap (Addresses(problem.a) \cup Addresses(problem.b)) = {}

\* The chunks every planned tile really touches fit in the cache at once: no
\* tile of a plan can fail to find its frames (planner.cpp make_plan).
PlannedTilesFit ==
  Planned => \A s \in DOMAIN tiles:
    Cardinality(ChunksOf(RawAccesses(problem, tiles[s]), cache.chunk)) * cache.chunk
      <= cache.capacity

\* Every product a[i,p] * b[p,j] is added exactly once, the caller's beta is
\* applied to every element of C exactly once and first, and the old C is left
\* unfetched exactly when that beta is zero (planner.cpp make_tile).
ProductsOnce ==
  Planned =>
    \A i \in 0..problem.m - 1, j \in 0..problem.n - 1:
      /\ \A p \in 0..problem.k - 1:
           Cardinality({s \in DOMAIN tiles: Covers(tiles[s], i, j, p)}) = 1
      /\ \A s, r \in DOMAIN tiles:
           /\ \E p \in 0..problem.k - 1: Covers(tiles[s], i, j, p)
           /\ \E p \in 0..problem.k - 1: Covers(tiles[r], i, j, p)
           => /\ tiles[s].userBeta /\ r # s => s < r /\ ~tiles[r].userBeta
              /\ tiles[s].writeOnly <=> problem.zeroBeta /\ tiles[s].userBeta

\* A result too narrow to accumulate in is never rounded between panels.
NarrowInOneCall ==
  Planned /\ problem.narrow => \A s \in DOMAIN tiles: tiles[s].kCount = problem.k

\* The summaries the planner trusts agree with the accesses the executor will
\* make of the same tile (planner.cpp summarize_matrix_rectangle).
SummariesAreExact ==
  outcome = "planning" /\ Distinct(problem) =>
    LET visited == VisitTiles(problem, geometry) IN
    \A s \in DOMAIN visited:
      LET t == visited[s]
          raw == RawAccesses(problem, t)
      IN /\ Resident(problem, cache.chunk, t) = Cardinality(ChunksOf(raw, cache.chunk))
         /\ Ranges(problem, t) = Len(raw)

\* The accesses given to the runtime are sorted and disjoint, and they cover
\* the bytes of the tile in each mode, no more and no less: without the general
\* normalizer (planner.cpp fast_normalize_accesses).
AccessesAreExact ==
  LET bytes(r) ==
        {<<r.mode, r.id, b>>: b \in r.offset..r.offset + r.length - 1}
      touched(r) == {<<r.mode, r.v.id, Offset(r.v, i, j) + e>>:
                       i \in r.row..r.row + r.rows - 1,
                       j \in r.column..r.column + r.columns - 1, e \in 0..Element - 1}
  IN Planned => \A s \in DOMAIN tiles:
       LET ranges == Accesses(problem, tiles[s])
           want == UNION {touched(Rectangles(problem, tiles[s])[i]): i \in 1..3}
       IN /\ ~NeedsGeneral(ranges)
          /\ \A i \in 2..Len(ranges):
               \/ ranges[i - 1].id < ranges[i].id
               \/ /\ ranges[i - 1].id = ranges[i].id
                  /\ ranges[i - 1].offset + ranges[i - 1].length <= ranges[i].offset
          /\ UNION {bytes(ranges[i]): i \in DOMAIN ranges} = want

\* The column-major call made for a tile computes the tile, whatever the
\* layouts and the operations (executor.cpp execute_resolved_gemm_tile).
CallComputesTile ==
  Planned => \A s \in DOMAIN tiles:
    LET t == tiles[s]
        p == problem
    IN CoreProducts(CoreCall(p, t)) =
         {<<<<p.c.id, Offset(p.c, i, j)>>,
            {<<p.a.id, OperatedOffset(p.a, p.opA, i, q)>>,
             <<p.b.id, OperatedOffset(p.b, p.opB, q, j)>>}>>:
            i \in t.m..t.m + t.mCount - 1, j \in t.n..t.n + t.nCount - 1,
            q \in t.k..t.k + t.kCount - 1}

\* The planner gives up only when not even the smallest tiles fit (with limits
\* on tiles and ranges that do not bind).
GivesUpOnlyAtTheEnd ==
  outcome = "too_large" =>
    ~Fits(problem, cache, [m |-> 1, n |-> 1, k |-> IF problem.narrow THEN problem.k ELSE 1])

\* A plan keeps the limits on tiles and on accesses per tile: the executor can
\* list every tile it was given (planner.cpp assess_geometry).
LimitsKept ==
  Planned => /\ Len(tiles) <= MaxTiles
             /\ \A s \in DOMAIN tiles: Len(RawAccesses(problem, tiles[s])) <= MaxRanges

\* Every step of the search makes the tiles smaller, so that it ends.
AlwaysShrinks == geometry' # geometry => Volume(geometry') < Volume(geometry)
==============================================================================
