------------------------------- MODULE MCHost -------------------------------
(***************************************************************************)
(* The host side of the SDK, for TLC: the session worker, the CPU codec    *)
(* pool, the batches submitted to it, and the backing store on its ledger. *)
(*                                                                         *)
(* The components share no state, so they are checked side by side and     *)
(* not multiplied: "focus" names the one that moves, once and for all. A   *)
(* variable is that of the component in focus; the others rest.            *)
(***************************************************************************)
EXTENDS HostBacking, TLC

CONSTANTS c1, c2, k1, a1, w1, w2, Nobody, NoOp, NoThread, NoAlloc, NoJob, NoClient

VARIABLES
  focus,                                              \* the component that moves
  operation, queue, ses, worker, snap, rt, alloc, th, \* of the session
  pool, job, client,                                  \* of the codec pool, with queue and worker
  prep, charged, jobPrep,                             \* of the batches, with the pool's and rt
  account, held, following                            \* of the ledger by itself

store == <<counters, reserved, next_id, chunks, op>>
session == <<operation, ses, snap, alloc, th>>
codec == <<pool, job, client>>
batch == <<prep, charged, jobPrep>>
ledger == <<account, held, following>>
suite == <<focus, store, session, codec, batch, ledger, queue, worker, rt>>

Two == {c1, c2}
Workers == {w1, w2}
Symmetric == {p @@ q : p \in Permutations(Two), q \in Permutations(Workers)}

AllCalls == INSTANCE SessionWorker WITH
  op <- operation, Thread <- Two, Alloc <- {a1}, MaxOps <- 2,
  AsyncKinds <- {"transaction", "prefetch", "gemm"},
  SyncKinds <- {"allocate", "access", "release", "plan", "drain"}
ThreeCalls == INSTANCE SessionWorker WITH
  op <- operation, Thread <- Two, Alloc <- {a1}, MaxOps <- 3,
  AsyncKinds <- {"prefetch"}, SyncKinds <- {"allocate", "release"}
Pool == INSTANCE CpuCodecPool WITH
  Client <- Two, Worker <- Workers, Capacity <- 2, MaxJobs <- 3, SpawnFails <- TRUE
Batches == INSTANCE CpuCompression WITH
  ledger <- charged, Client <- {c1}, Worker <- Workers, Capacity <- 2, MaxJobs <- 4,
  SpawnFails <- FALSE, Blocks <- 3, MaxPreps <- 2, AllocFails <- TRUE
Ledger == INSTANCE HostBudget WITH
  counters <- account, reserved <- held, next_id <- following

ASSUME /\ AllCalls!SessionAssumption /\ ThreeCalls!SessionAssumption
       /\ Pool!PoolAssumption /\ Batches!PoolAssumption /\ Batches!CompressionAssumption

-----------------------------------------------------------------------------
NoSession == operation = Nobody /\ ses = Nobody /\ snap = Nobody /\ alloc = Nobody /\ th = Nobody
NoCodec == pool = Nobody /\ job = Nobody /\ client = Nobody
NoBatch == prep = Nobody /\ charged = Nobody /\ jobPrep = Nobody
NoQueue == queue = Nobody /\ worker = Nobody
NoLedger == account = Nobody /\ held = Nobody /\ following = Nobody

HostInit ==
  /\ Init
  /\ \/ focus = "all calls" /\ AllCalls!Init /\ NoCodec /\ NoBatch /\ NoLedger
     \/ focus = "three calls" /\ ThreeCalls!Init /\ NoCodec /\ NoBatch /\ NoLedger
     \/ focus = "pool" /\ Pool!PoolInit /\ NoSession /\ NoBatch /\ NoLedger /\ rt = Nobody
     \/ focus = "batches" /\ Batches!Init /\ NoSession /\ NoLedger
     \/ /\ focus = "ledger" /\ Ledger!LedgerInit
        /\ NoSession /\ NoCodec /\ NoBatch /\ NoQueue /\ rt = Nobody
     \/ /\ focus = "store"
        /\ NoSession /\ NoCodec /\ NoBatch /\ NoQueue /\ NoLedger /\ rt = Nobody

SessionStep ==
  /\ \/ focus = "all calls" /\ AllCalls!Next
     \/ focus = "three calls" /\ ThreeCalls!Next
  /\ UNCHANGED <<focus, store, codec, batch, ledger>>

PoolStep ==
  focus = "pool" /\ Pool!PoolNext /\ UNCHANGED <<focus, store, session, batch, ledger, rt>>

BatchStep ==
  focus = "batches" /\ Batches!Next /\ UNCHANGED <<focus, store, session, ledger>>

LedgerStep ==
  /\ focus = "ledger" /\ Ledger!LedgerNext
  /\ UNCHANGED <<focus, store, session, codec, batch, queue, worker, rt>>

StoreStep ==
  /\ focus = "store" /\ Next
  /\ UNCHANGED <<focus, session, codec, batch, ledger, queue, worker, rt>>

HostNext == SessionStep \/ PoolStep \/ BatchStep \/ LedgerStep \/ StoreStep

HostSpec == HostInit /\ [][HostNext]_suite

-----------------------------------------------------------------------------
(* Whatever two clients, timeouts, cancellations, a failing runtime and a  *)
(* closing session do to each other, what the session tells is true: a     *)
(* cancelled operation never runs, a borrowed frame lives, a released      *)
(* allocation is gone, telemetry counts what has finished, one thread      *)
(* joins the worker, a successful close leaves nothing, and a library that *)
(* may still work is never unloaded.                                       *)
SessionSafe ==
  /\ focus = "all calls" => AllCalls!SessionSafe
  /\ focus = "three calls" => ThreeCalls!SessionSafe

(* A job of the codec pool is handed out once and finished by one thread,  *)
(* never more of them than there is room for, none runs beside threads     *)
(* that sleep, and close drains them; the batches of the runtime take each *)
(* job back or leave its charge with it, on every path out.                *)
CodecJobsSafe ==
  /\ focus = "pool" =>
       /\ Pool!TypeOK /\ Pool!ConsumedOnce /\ Pool!OutstandingBounded
       /\ Pool!NoJobBesideSleepers /\ Pool!CloseDrains
  /\ focus = "batches" =>
       /\ Batches!PrepTypeOK /\ Batches!AbandonedJobsStayCharged /\ Batches!PoolLeftEmpty
       /\ Batches!GenerationsAccounted /\ Batches!NothingChargedAtRest

(* The ledger keeps its promises whatever handles are released twice, kept *)
(* after they were spent, or made up.                                      *)
LedgerSafe == focus = "ledger" => Ledger!LedgerHolds

(* The session serves in the order in which it accepted, as the promise    *)
(* says, and what has ended stays ended, with the same error.              *)
HostSteps ==
  [][/\ focus = "all calls" => AllCalls!TerminalIsFinal /\ AllCalls!ServesInOrder
     /\ focus = "three calls" => ThreeCalls!TerminalIsFinal /\ ThreeCalls!ServesInOrder]_suite
=============================================================================
