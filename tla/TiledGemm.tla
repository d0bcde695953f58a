------------------------------ MODULE TiledGemm ------------------------------
(***************************************************************************)
(* The execution of a plan, tile by tile (src/gemm/executor.cpp).  Before  *)
(* the product, before and after every tile, and between the residency of  *)
(* a tile and its launch the caller is asked whether to go on; the caller  *)
(* takes the third question as the mark that work may have been submitted. *)
(*                                                                         *)
(* The residency runtime and cuBLAS are their outcomes.  An element of C   *)
(* is what has been summed in it: how often beta was applied, and which    *)
(* products were added how often.                                          *)
(***************************************************************************)
EXTENDS GemmPlan

CONSTANT PrefetchDistance

PrefetchAssumption == PrefetchDistance \in Nat

VARIABLE run   \* the execution of the plan

vars == <<problem, cache, geometry, outcome, tiles, run>>

Cells(p) == (0..p.m - 1) \X (0..p.n - 1)
Untouched == [beta |-> 0, added |-> <<>>]
Idle == [at |-> "idle", tile |-> 1, distance |-> 1, status |-> "none",
         submitted |-> FALSE, launched |-> FALSE, progress |-> 0, ahead |-> {},
         c |-> <<>>]

TiledInit == Init /\ run = Idle

At(place) == run.at = place
Tile == tiles[run.tile]
Goto(place) == run' = [run EXCEPT !.at = place]
End_(status) == run' = [run EXCEPT !.at = "ended", !.status = status]
Planning == UNCHANGED <<problem, cache, geometry, outcome, tiles>>

\* A plan is executed, or refused before anything else.
Begin ==
  /\ At("idle") /\ outcome # "planning"
  /\ IF outcome = "planned"
     THEN run' = [run EXCEPT !.at = "before_execution",
                             !.c = [x \in Cells(problem) |-> Untouched]]
     ELSE End_("invalid_argument")
  /\ Planning

\* The caller answers at a boundary: it stops the product ...
Stop ==
  /\ run.at \in {"before_execution", "before_tile", "after_residency", "after_tile"}
  /\ run' = [run EXCEPT !.at = "ended", !.status = "cancelled",
                        !.submitted = @ \/ At("after_residency")]
  /\ Planning

\* ... or lets it go on.
StartTiles ==
  /\ At("before_execution") /\ Goto("before_tile") /\ Planning

\* cuBLAS is not loaded.
Unavailable ==
  /\ At("before_execution") /\ End_("unavailable") /\ Planning

\* The runtime makes the tile's working set resident, and then asks.
Acquire ==
  /\ At("before_tile") /\ Goto("after_residency") /\ Planning
AcquireFails ==
  /\ At("before_tile") /\ End_("runtime_failure") /\ Planning

\* The kernel of a tile adds its panel to its cells.

Computed(t, c) ==
  [x \in DOMAIN c |->
     IF Covers(t, x[1], x[2], t.k)
     THEN [beta |-> c[x].beta + (IF t.userBeta THEN 1 ELSE 0),
           added |-> c[x].added \o [q \in 1..t.kCount |-> t.k + q - 1]]
     ELSE c[x]]

\* The mark of a possible submission comes before the launch.
Marked(r) == TRUE

Launch ==
  /\ At("after_residency")
  /\ run' = [run EXCEPT !.at = "launched", !.submitted = Marked(run),
                        !.launched = TRUE, !.c = Computed(Tile, @)]
  /\ Planning

\* cuBLAS refuses the call, or fails after it may have begun.
LaunchFails ==
  /\ At("after_residency")
  /\ \E launched \in BOOLEAN:
       run' = [run EXCEPT !.at = "ended", !.status = "cublas_failure",
                          !.submitted = Marked(run), !.launched = @ \/ launched]
  /\ Planning

\* The runtime waits for the kernel; when it fails, so does the product.
Retire ==
  /\ At("launched")
  /\ run' = [run EXCEPT !.at = "after_tile", !.progress = run.tile]
  /\ Planning
RetireFails ==
  /\ At("launched") /\ End_("runtime_failure") /\ Planning

\* The next tiles are prefetched as far as the plan goes.
MayPrefetch(r) == r.distance <= PrefetchDistance /\ r.distance <= Len(tiles) - r.tile

Continue ==
  /\ At("after_tile")
  /\ run' = [run EXCEPT !.at = "prefetch", !.distance = 1, !.ahead = {}]
  /\ Planning
Prefetch ==
  /\ At("prefetch") /\ MayPrefetch(run)
  /\ run' = [run EXCEPT !.distance = @ + 1, !.ahead = @ \cup {run.tile + run.distance}]
  /\ Planning
PrefetchFails ==
  /\ At("prefetch") /\ MayPrefetch(run) /\ End_("runtime_failure") /\ Planning

\* The next tile, whether the prefetches are done or the budget is too tight.
Following ==
  IF run.tile < Len(tiles)
  THEN [run EXCEPT !.at = "before_tile", !.tile = @ + 1]
  ELSE [run EXCEPT !.at = "ended", !.status = "success"]

NextTile ==
  /\ At("prefetch")
  /\ run' = Following
  /\ Planning

Advance == Begin \/ StartTiles \/ Acquire \/ Launch \/ Retire \/ Continue
           \/ Prefetch \/ NextTile
Failure == Stop \/ Unavailable \/ AcquireFails \/ LaunchFails \/ RetireFails
           \/ PrefetchFails

TiledNext == (Next /\ UNCHANGED run) \/ Advance \/ Failure
TiledSpec == TiledInit /\ [][TiledNext]_vars

------------------------------------------------------------------------------
(* Properties                                                              *)

\* The execution has its type.
TiledTypeOK ==
  /\ run.at \in {"idle", "before_execution", "before_tile", "after_residency",
                 "launched", "after_tile", "prefetch", "ended"}
  /\ run.status \in {"none", "success", "cancelled", "invalid_argument",
                     "unavailable", "runtime_failure", "cublas_failure"}
  /\ run.tile \in 1..Greatest(1, Len(tiles))
  /\ At("ended") <=> run.status # "none"

\* Work that was launched was announced: a caller that saw no submission may
\* keep its session, C is as it was (runtime_backend.cpp gemm, executor.cpp).
LaunchedWasAnnounced ==
  /\ run.launched => run.submitted
  /\ ~run.submitted => \A x \in DOMAIN run.c: run.c[x] = Untouched

\* A product that succeeds is the whole product: every element got beta once
\* and every pair once, in the order of the panels.
SuccessIsComplete ==
  run.status = "success" =>
    \A x \in Cells(problem):
      run.c[x] = [beta |-> 1, added |-> [q \in 1..problem.k |-> q - 1]]

\* Up to a failed launch or wait, C is the product of the tiles reported as
\* retired, and of no other: a cancelled product stops at a tile (executor.cpp
\* control_result "at a safe tile boundary").
RetiredIsExact ==
  At("launched") \/ run.status \in {"cublas_failure", "runtime_failure"} \/ run.c = <<>> \/
    \A x \in Cells(problem):
      /\ run.c[x].beta =
           Cardinality({s \in 1..run.progress:
             tiles[s].userBeta /\ Covers(tiles[s], x[1], x[2], tiles[s].k)})
      /\ Len(run.c[x].added) =
           Cardinality({q \in 0..problem.k - 1: \E s \in 1..run.progress:
             Covers(tiles[s], x[1], x[2], q)})

\* Only tiles of the plan that are still to come are prefetched, no further
\* than the distance (executor.cpp execute_tiled_gemm).
PrefetchIsAhead ==
  \A s \in run.ahead: s \in 2..Len(tiles) /\ s <= run.tile + PrefetchDistance
==============================================================================
