----------------------------- MODULE ChunkCore -----------------------------
(***************************************************************************)
(* The bookkeeping record of one logical chunk and the pure functions over *)
(* it (src/residency/core.hpp, core.cpp): which state changes are legal,   *)
(* when a record is consistent, when a resident chunk may be chosen for    *)
(* eviction, when its mapping may be taken down, and the counters that     *)
(* stand for the event boundaries of asynchronous GPU work.                *)
(*                                                                         *)
(* None stands for an empty std::optional.                                 *)
(***************************************************************************)
EXTENDS Naturals

CONSTANT None

ASSUME NoneAssumption == None \notin Nat

ChunkState == {"host_clean", "prefetch_queued", "mapping", "h2d_in_flight",
               "resident_clean", "resident_dirty", "writeback_queued",
               "d2h_in_flight", "evicting", "poisoned"}

ChunkRecord == [state: ChunkState, pin: Nat, ws: BOOLEAN,
                frame: Nat \union {None}, staging: Nat \union {None},
                event: Nat, completed: Nat]

(* A chunk whose only content is its host backing. *)
NewChunk == [state |-> "host_clean", pin |-> 0, ws |-> FALSE, frame |-> None,
             staging |-> None, event |-> 0, completed |-> 0]

LegalTransition ==
     {<<s, "poisoned">> : s \in ChunkState}
  \union {<<"host_clean", "prefetch_queued">>, <<"host_clean", "mapping">>,
          <<"prefetch_queued", "host_clean">>, <<"prefetch_queued", "mapping">>,
          <<"mapping", "host_clean">>, <<"mapping", "h2d_in_flight">>,
          <<"mapping", "resident_clean">>, <<"h2d_in_flight", "resident_clean">>,
          <<"resident_clean", "resident_dirty">>, <<"resident_clean", "evicting">>,
          <<"resident_dirty", "writeback_queued">>,
          <<"writeback_queued", "d2h_in_flight">>,
          <<"d2h_in_flight", "resident_clean">>, <<"evicting", "host_clean">>}

IsLegalTransition(from, to) == <<from, to>> \in LegalTransition

HasFrame(state) == state \notin {"host_clean", "prefetch_queued", "poisoned"}
RequiresStaging(state) == state \in {"h2d_in_flight", "d2h_in_flight"}
ForbidsStaging(state) ==
  state \notin {"mapping", "h2d_in_flight", "d2h_in_flight", "poisoned"}

(* validate_chunk_record returns ChunkInvariantError::none. *)
ValidRecord(r) ==
  /\ r.completed <= r.event
  /\ r.state # "poisoned" =>
       /\ HasFrame(r.state) <=> r.frame # None
       /\ RequiresStaging(r.state) => r.staging # None
       /\ ForbidsStaging(r.state) => r.staging = None
       /\ r.state \in {"host_clean", "prefetch_queued", "evicting"} =>
            r.pin = 0 /\ ~r.ws
       /\ r.state = "evicting" => r.completed = r.event

HasInFlightWork(r) ==
  \/ r.state \in {"mapping", "h2d_in_flight", "d2h_in_flight"}
  \/ r.completed # r.event

IsResident(r) == r.state \in {"resident_clean", "resident_dirty"}

Unused(r) == r.pin = 0 /\ ~r.ws /\ r.staging = None /\ r.completed = r.event

IsVictimEligible(r) == IsResident(r) /\ Unused(r) /\ ValidRecord(r)

IsSafeToUnmap(r) ==
  r.state = "evicting" /\ Unused(r) /\ r.frame # None /\ ValidRecord(r)

EligibleWhilePinned(r) == IsResident(r)   \* mutant
(* The filter of the victim policies, over the candidate the cache builds  *)
(* from the record (policy.cpp).                                           *)
IsPolicyCandidateEligible(r) ==
  IsResident(r) /\ r.pin = 0 /\ ~HasInFlightWork(r) /\ ~r.ws

(* A new asynchronous use of the chunk begins.  The counter of the code is *)
(* 64 bits wide and its overflow is an error; it is unbounded here.        *)
BeginGeneration(r) == [r EXCEPT !.event = @ + 1]

(* complete_event_generation answers success. *)
CanComplete(r, generation) ==
  generation # 0 /\ generation = r.event /\ r.completed < generation

(* The newest generation retires, and every older one with it.  The code   *)
(* only compares generations of one chunk with each other, so a chunk      *)
(* without an outstanding generation is renumbered to 1: any value but 0,  *)
(* which means that the chunk was never used.                              *)
CompleteGeneration(r, generation) ==
  IF CanComplete(r, generation) THEN [r EXCEPT !.event = 1, !.completed = 1] ELSE r
=============================================================================
