--------------------------- MODULE TorchControl ---------------------------
(***************************************************************************)
(* The control table of the PyTorch runtime (torch_runtime/control.cpp):   *)
(* the registry of sessions, allocations and leases, the life of a lease   *)
(* (armed, sealed, retired), the view tickets that tensors hold, the       *)
(* scratch arena, cuBLAS and the close of a session.                       *)
(*                                                                         *)
(* Entries that take a session run on the thread that created it, under    *)
(* the session's mutex: each is one step.  Three operations run on any     *)
(* thread and take only the lease's mutex: resolving a view (its look-ups  *)
(* and its commit are two steps), dropping a view and freeing scratch.     *)
(* Creation and close are split where another thread can come between.     *)
(* The residency runtime below is reduced to its one external lease, its   *)
(* poison and what it says when it is closed.                              *)
(***************************************************************************)
EXTENDS Integers, FiniteSets, TLC

CONSTANTS Thread, Session, Lease, Alloc, Ticket,
          Timeouts,      \* the timeouts callers pass: subset of {"zero", "positive"}
          Arena,         \* bytes of the scratch arena
          Alignment,     \* alignment of a scratch block
          BlockSizes,    \* sizes scratch is asked for
          None

TorchAssumption ==
  /\ Timeouts \subseteq {"zero", "positive"}
  /\ Arena \in Nat /\ Alignment \in Nat \ {0} /\ BlockSizes \subseteq Nat \ {0}

VARIABLES
  sess,     \* SessionState and the residency runtime it owns
  lease,    \* LeaseState
  alloc,    \* AllocationState
  ticket,   \* the view tickets tensors hold
  owners,   \* registry.scratch_owners
  tls       \* active_scratch_lease of every thread

torchVars == <<sess, lease, alloc, ticket, owners, tls>>

Terminal == {"completed", "cancelled", "failed", "quarantined"}
Unsealed == {"armed", "submitted"}
SealModes == {"success", "cancelled", "failed_after"}

NewSession == [st |-> "none", owner |-> None, active |-> None, views |-> 0, scratch |-> 0,
               acquired |-> 0, sealed |-> 0, retired |-> 0, recorded |-> 0, evRetired |-> 0,
               cublas |-> "none", rt |-> "ready", ext |-> None, extState |-> "armed",
               asyncQ |-> FALSE, drained |-> "success", closeOk |-> FALSE]
NewLease == [st |-> "none", session |-> None, bases |-> {}, views |-> 0, scratch |-> {},
             cursor |-> 0, mode |-> "success", recorded |-> FALSE, counted |-> FALSE,
             poisoned |-> FALSE]

TorchInit ==
  /\ sess = [s \in Session |-> NewSession]
  /\ lease = [l \in Lease |-> NewLease]
  /\ alloc = [a \in Alloc |-> [st |-> "none", session |-> None]]
  /\ ticket = [v \in Ticket |-> [st |-> "none", lease |-> None, alloc |-> None]]
  /\ owners = {}
  /\ tls = [t \in Thread |-> None]

Set(s, r) == sess' = [sess EXCEPT ![s] = r]
SetLease(l, r) == lease' = [lease EXCEPT ![l] = r]

\* find_session, on_owner_thread and the session's mutex
Serves(s, t) == sess[s].st = "open" /\ sess[s].owner = t
Owner(s) == sess[s].owner

\* the weak pointer of a thread expires with the lease
ScratchLease(t) == IF tls[t] # None /\ lease[tls[t]].st # "gone" THEN tls[t] ELSE None

-----------------------------------------------------------------------------
(* session_create: the registry is looked at, and joined only after the     *)
(* runtime has been set up.                                                 *)
Registered == {s \in Session : sess[s].st \in {"open", "draining", "tearing"}}

CreateBegin(t, s) ==
  /\ sess[s].st = "none"
  /\ Registered = {}
  /\ \A o \in Session : sess[o].st = "creating" => Owner(o) # t
  /\ Set(s, [sess[s] EXCEPT !.st = "creating", !.owner = t])
  /\ UNCHANGED <<lease, alloc, ticket, owners, tls>>

CreateEnds(s) ==
  /\ sess[s].st = "creating"
  /\ \/ Set(s, [sess[s] EXCEPT !.st = "open"])
     \/ Set(s, NewSession)                      \* no driver, no context, setup failed
  /\ UNCHANGED <<lease, alloc, ticket, owners, tls>>

-----------------------------------------------------------------------------
(* Allocations                                                              *)
AllocationCreate(t, s, a) ==
  /\ Serves(s, t) /\ sess[s].rt = "ready" /\ alloc[a].st = "none"
  /\ alloc' = [alloc EXCEPT ![a] = [st |-> "live", session |-> s]]
  /\ UNCHANGED <<sess, lease, ticket, owners, tls>>

\* the runtime refuses while it is not ready or its external lease uses the allocation
References(s, a) == sess[s].ext # None /\ a \in lease[sess[s].ext].bases
AnyRemovable(s, a) == sess[s].rt = "ready" \* mutant
Removable(s, a) == sess[s].rt = "ready" /\ ~References(s, a)

AllocationRemove(t, a) ==
  LET s == alloc[a].session IN
  /\ alloc[a].st = "live" /\ Serves(s, t)
  /\ \/ Removable(s, a) /\ alloc' = [alloc EXCEPT ![a].st = "released"]   \* release, full discard
        /\ sess' = sess
     \/ sess[s].rt = "ready" /\ Set(s, [sess[s] EXCEPT !.rt = "poisoned"])
        /\ alloc' = alloc
  /\ UNCHANGED <<lease, ticket, owners, tls>>

\* a read, a write or a prefetch that poisons the runtime (one that does not changes nothing here)
Transfer(t, s) ==
  /\ Serves(s, t) /\ sess[s].rt \in {"ready", "blocked"}
  /\ \E q \in BOOLEAN : Set(s, [sess[s] EXCEPT !.rt = "poisoned", !.asyncQ = @ \/ q])
  /\ UNCHANGED <<lease, alloc, ticket, owners, tls>>

-----------------------------------------------------------------------------
(* lease_acquire                                                            *)
MayAcquire(t, s) == sess[s].active = None /\ ScratchLease(t) = None

Ranges(s) == {bases \in SUBSET {a \in Alloc : alloc[a] = [st |-> "live", session |-> s]} : bases # {}}

LeaseAcquire(t, s, l) ==
  /\ Serves(s, t) /\ MayAcquire(t, s) /\ lease[l].st = "none"
  /\ \E bases \in Ranges(s) :
       /\ sess[s].rt = "ready" /\ sess[s].ext = None
       /\ SetLease(l, [NewLease EXCEPT !.st = "armed", !.session = s, !.bases = bases])
       /\ Set(s, [sess[s] EXCEPT !.active = l, !.acquired = @ + 1, !.ext = l, !.extState = "armed"])
       /\ tls' = [tls EXCEPT ![t] = l]
  /\ UNCHANGED <<alloc, ticket, owners>>

\* The runtime fails half-way, or the lease cannot be registered and is rolled back: nobody
\* holds its handle, and the runtime may keep it in quarantine.
LeaseAcquireFails(t, s, l) ==
  /\ Serves(s, t) /\ MayAcquire(t, s) /\ lease[l].st = "none"
  /\ Ranges(s) # {} /\ sess[s].rt = "ready" /\ sess[s].ext = None
  /\ \E bases \in Ranges(s) :
       \/ Set(s, [sess[s] EXCEPT !.rt = "poisoned"]) /\ lease' = lease
       \/ \E x \in {"armed", "quarantined"} :
            /\ Set(s, [sess[s] EXCEPT !.rt = "poisoned", !.ext = l, !.extState = x, !.asyncQ = TRUE])
            /\ SetLease(l, [NewLease EXCEPT !.st = "lost", !.bases = bases])
  /\ UNCHANGED <<alloc, ticket, owners, tls>>

-----------------------------------------------------------------------------
(* lease_seal                                                               *)
Sealable(l) == lease[l].st = "armed" /\ ~lease[l].poisoned /\ lease[l].views = 0 /\ lease[l].scratch = {}

LeaseSeal(t, l, m) ==
  LET s == lease[l].session
      event == m # "cancelled" IN
  /\ lease[l].st # "none" /\ s # None /\ Serves(s, t) /\ Sealable(l)
  /\ sess[s].ext = l /\ sess[s].extState = "armed"
  /\ \/ /\ SetLease(l, [lease[l] EXCEPT !.st = "submitted", !.mode = m, !.recorded = event])
        /\ Set(s, [sess[s] EXCEPT !.extState = "submitted", !.sealed = @ + 1,
                                  !.recorded = @ + (IF event THEN 1 ELSE 0)])
        /\ tls' = [tls EXCEPT ![t] = None]
     \/ \* the completion event could not be recorded, or a chunk could not be marked dirty
        /\ \E x \in {"quarantined", "submitted"} :
             Set(s, [sess[s] EXCEPT !.rt = "poisoned", !.extState = x,
                                    !.asyncQ = @ \/ x = "quarantined"])
        /\ UNCHANGED <<lease, tls>>
  /\ UNCHANGED <<alloc, ticket, owners>>

-----------------------------------------------------------------------------
(* poll_external and wait_external, and what the control table makes of     *)
(* their answer.                                                            *)
Finished(m) == CASE m = "success" -> "completed" [] m = "cancelled" -> "cancelled" [] OTHER -> "failed"

Answer(st, rt, keep, q) == [st |-> st, rt |-> rt, keep |-> keep, asyncQ |-> q]
Poisoned(rt) == IF rt = "closed" THEN rt ELSE "poisoned"

\* every answer about lease l for a caller that polls or waits
Answers(s, l, how) ==
  LET rt == sess[s].rt IN
  IF how = "zero"
  THEN {Answer("armed", rt, TRUE, FALSE)}        \* refused, the answer is never filled in
  ELSE IF sess[s].extState = "quarantined"
  THEN {Answer("quarantined", rt, TRUE, FALSE)}
  ELSE {Answer(Finished(lease[l].mode),
               IF lease[l].mode = "failed_after" THEN Poisoned(rt) ELSE rt, FALSE, FALSE),
        Answer("quarantined", Poisoned(rt), TRUE, TRUE)}   \* query failed, or the wait expired
       \union (IF lease[l].mode = "cancelled"
               THEN {Answer("quarantined", Poisoned(rt), TRUE, FALSE)} ELSE {})  \* unmap failed
       \union (IF lease[l].mode = "success" /\ rt = "ready"
               THEN {Answer("failed", "blocked", FALSE, FALSE)} ELSE {})         \* over the duration guard
       \union (IF how = "poll" THEN {Answer("submitted", rt, TRUE, FALSE)} ELSE {})

\* note_retired
Retires(l, st) == st \in Terminal /\ ~lease[l].counted

\* the lease, its session (which goes to state next) and the thread after answer a
Observed(t, s, l, a, next) ==
  LET ends == Retires(l, a.st) IN
  /\ SetLease(l, [lease[l] EXCEPT !.st = a.st, !.counted = @ \/ ends])
  /\ Set(s, [sess[s] EXCEPT
       !.st = next, !.rt = a.rt, !.asyncQ = @ \/ a.asyncQ,
       !.ext = IF a.keep THEN @ ELSE None,
       !.extState = IF a.keep /\ a.st = "quarantined" THEN "quarantined" ELSE @,
       !.retired = @ + (IF ends THEN 1 ELSE 0),
       !.evRetired = @ + (IF ends /\ lease[l].recorded THEN 1 ELSE 0),
       !.active = IF ends /\ @ = l THEN None ELSE @])
  /\ tls' = [tls EXCEPT ![t] = IF ends /\ @ = l THEN None ELSE @]

\* lease_poll and lease_wait
Observe(t, l, how) ==
  LET s == lease[l].session IN
  /\ lease[l].st = "submitted" /\ Serves(s, t)
  /\ \E a \in Answers(s, l, how) : Observed(t, s, l, a, "open")
  /\ UNCHANGED <<alloc, ticket, owners>>

-----------------------------------------------------------------------------
(* prepare_view and the ticket's destructor, on any thread                  *)
LookUpView(v, l, a) ==
  /\ ticket[v].st = "none"
  /\ lease[l].st \notin {"none", "lost", "gone"}
  /\ alloc[a] = [st |-> "live", session |-> lease[l].session]
  /\ sess[lease[l].session].st \in {"open", "draining", "tearing"}
  /\ ticket' = [ticket EXCEPT ![v] = [st |-> "resolving", lease |-> l, alloc |-> a]]
  /\ UNCHANGED <<sess, lease, alloc, owners, tls>>

Resolves(l, a) == lease[l].st = "armed" /\ ~lease[l].poisoned /\ a \in lease[l].bases

TakeView(v) ==
  LET l == ticket[v].lease
      s == lease[l].session
      ok == Resolves(l, ticket[v].alloc) IN
  /\ ticket[v].st = "resolving"
  /\ ticket' = [ticket EXCEPT ![v].st = IF ok THEN "live" ELSE "dropped"]
  /\ IF ok THEN /\ SetLease(l, [lease[l] EXCEPT !.views = @ + 1])
                /\ Set(s, [sess[s] EXCEPT !.views = @ + 1])
           ELSE UNCHANGED <<sess, lease>>
  /\ UNCHANGED <<alloc, owners, tls>>

DropsOne(l) == lease[l].views - 1

DropView(v) ==
  LET l == ticket[v].lease
      s == lease[l].session IN
  /\ ticket[v].st = "live"
  /\ ticket' = [ticket EXCEPT ![v].st = "dropped"]
  /\ SetLease(l, [lease[l] EXCEPT !.views = DropsOne(l)])
  /\ Set(s, [sess[s] EXCEPT !.views = @ - 1])
  /\ UNCHANGED <<alloc, owners, tls>>

-----------------------------------------------------------------------------
(* scratch_alloc on the thread that holds the lease, scratch_free anywhere  *)
Aligned(n) == ((n + Alignment - 1) \div Alignment) * Alignment
Least(a, b) == IF a < b THEN a ELSE b
Fits(at, bytes) == bytes <= Arena - Least(at, Arena)

ScratchAlloc(t, bytes) ==
  LET l == ScratchLease(t)
      s == lease[l].session
      at == Aligned(lease[l].cursor)
      pointer == [session |-> s, at |-> at] IN
  /\ l # None /\ lease[l].st = "armed" /\ Fits(at, bytes)
  /\ pointer \notin {o.pointer : o \in owners}
  /\ SetLease(l, [lease[l] EXCEPT !.scratch = @ \union {[pointer |-> pointer, bytes |-> bytes]},
                                  !.cursor = at + bytes])
  /\ owners' = owners \union {[pointer |-> pointer, lease |-> l]}
  /\ Set(s, [sess[s] EXCEPT !.scratch = @ + bytes])
  /\ UNCHANGED <<alloc, ticket, tls>>

\* the registry's entry a free removes
Disowned(pointer) == {o \in owners : o.pointer = pointer}

ScratchFree(l, b) ==
  LET s == lease[l].session IN
  /\ b \in lease[l].scratch /\ [pointer |-> b.pointer, lease |-> l] \in owners
  /\ SetLease(l, [lease[l] EXCEPT !.scratch = @ \ {b}])
  /\ owners' = owners \ Disowned(b.pointer)
  /\ Set(s, [sess[s] EXCEPT !.scratch = @ - b.bytes])
  /\ UNCHANGED <<alloc, ticket, tls>>

\* the caller's size, device or stream is not the block's
ScratchFreeMismatch(l, b) ==
  /\ b \in lease[l].scratch /\ ~lease[l].poisoned
  /\ SetLease(l, [lease[l] EXCEPT !.poisoned = TRUE])
  /\ UNCHANGED <<sess, alloc, ticket, owners, tls>>

-----------------------------------------------------------------------------
(* gemm_execute: an idle session, cuBLAS on first use, the tiles' faults    *)
MayMultiply(s) == sess[s].active = None /\ sess[s].views = 0 /\ sess[s].scratch = 0

GemmExecute(t, s) ==
  /\ Serves(s, t) /\ MayMultiply(s)
  /\ \E out \in {<<sess[s].rt, FALSE>>} \union
        (IF sess[s].rt = "ready" THEN {<<"blocked", FALSE>>, <<"poisoned", FALSE>>, <<"poisoned", TRUE>>}
         ELSE {}) :
       Set(s, [sess[s] EXCEPT !.cublas = "held", !.rt = out[1], !.asyncQ = @ \/ out[2]])
  /\ UNCHANGED <<lease, alloc, ticket, owners, tls>>

-----------------------------------------------------------------------------
(* session_close: retire the active lease, drain, tear down                 *)
Mine(s) == {l \in Lease : lease[l].session = s}

CloseRefused(l) == lease[l].st = "armed" \/ lease[l].views # 0 \/ lease[l].scratch # {}

NoneInUse(s) == \A l \in Mine(s) : lease[l].views = 0 /\ lease[l].scratch = {}

\* callback_failed lets the close go on, every other error is returned
EndsWell(l, a) == \/ a.st \in {"completed", "cancelled"}
                  \/ a.st = "failed" /\ lease[l].mode = "failed_after"

CloseRetires(t, s, how) ==
  LET l == sess[s].active IN
  /\ Serves(s, t) /\ l # None /\ ~CloseRefused(l)
  /\ \E a \in Answers(s, l, how) :
       Observed(t, s, l, a, IF EndsWell(l, a) /\ NoneInUse(s) THEN "draining" ELSE "open")
  /\ UNCHANGED <<alloc, ticket, owners>>

CloseIdle(t, s) ==
  /\ Serves(s, t) /\ sess[s].active = None /\ NoneInUse(s)
  /\ Set(s, [sess[s] EXCEPT !.st = "draining"])
  /\ UNCHANGED <<lease, alloc, ticket, owners, tls>>

\* drain(true)
CloseDrains(s) ==
  /\ sess[s].st = "draining"
  /\ IF sess[s].rt = "closed" \/ sess[s].ext = None
     THEN \E d \in IF sess[s].rt = "closed" THEN {"success"} ELSE {"success", "failed", "poisoned"},
             q \in BOOLEAN :
            /\ q => d # "success"
            /\ Set(s, [sess[s] EXCEPT !.st = "tearing", !.drained = d, !.asyncQ = @ \/ q,
                                      !.rt = IF d = "success" THEN @ ELSE Poisoned(@)])
     ELSE Set(s, [sess[s] EXCEPT !.st = "tearing", !.drained = "failed"])
  /\ UNCHANGED <<lease, alloc, ticket, owners, tls>>

\* is it known that the device is done with cuBLAS' work
Abandons(s) == sess[s].drained = "poisoned" \/ sess[s].asyncQ

\* Runtime::close(), which answers a second call as it did the first
CloseAnswers(s) ==
  IF sess[s].rt = "closed" THEN {sess[s].closeOk}
  ELSE IF sess[s].asyncQ \/ sess[s].ext # None THEN {FALSE} ELSE BOOLEAN

Erased(s) == {l \in Mine(s) : lease[l].st # "none"}

CloseTearsDown(s) ==
  /\ sess[s].st = "tearing"
  /\ \E ok \in CloseAnswers(s), destroyed \in BOOLEAN :
       LET cublasOk == Abandons(s) \/ sess[s].cublas # "held" \/ destroyed
           closes == sess[s].drained = "success" /\ cublasOk /\ ok IN
       /\ Set(s, [sess[s] EXCEPT
            !.st = IF closes THEN "gone" ELSE "open",
            !.cublas = IF @ = "held" /\ Abandons(s) THEN "abandoned" ELSE "none",
            !.rt = "closed", !.closeOk = ok,
            !.asyncQ = @ \/ sess[s].ext # None,
            !.extState = IF sess[s].ext # None THEN "quarantined" ELSE @])
       /\ IF closes
          THEN /\ alloc' = [a \in Alloc |-> IF alloc[a] = [st |-> "live", session |-> s]
                                            THEN [alloc[a] EXCEPT !.st = "gone"] ELSE alloc[a]]
               /\ lease' = [l \in Lease |-> IF l \in Erased(s)
                                            THEN [lease[l] EXCEPT !.st = "gone"] ELSE lease[l]]
               /\ tls' = [tls EXCEPT ![Owner(s)] = None]
          ELSE UNCHANGED <<lease, alloc, tls>>
  /\ UNCHANGED <<ticket, owners>>

-----------------------------------------------------------------------------
TorchNext ==
  \/ \E t \in Thread, s \in Session : \/ CreateBegin(t, s) \/ Transfer(t, s) \/ GemmExecute(t, s)
                                      \/ CloseIdle(t, s)
                                      \/ \E h \in Timeouts : CloseRetires(t, s, h)
                                      \/ \E a \in Alloc : AllocationCreate(t, s, a)
                                      \/ \E l \in Lease : LeaseAcquire(t, s, l) \/ LeaseAcquireFails(t, s, l)
  \/ \E s \in Session : CreateEnds(s) \/ CloseDrains(s) \/ CloseTearsDown(s)
  \/ \E t \in Thread : \/ \E a \in Alloc : AllocationRemove(t, a)
                       \/ \E l \in Lease, m \in SealModes : LeaseSeal(t, l, m)
                       \/ \E l \in Lease, h \in Timeouts \union {"poll"} : Observe(t, l, h)
                       \/ \E b \in BlockSizes : ScratchAlloc(t, b)
  \/ \E v \in Ticket : TakeView(v) \/ DropView(v) \/ \E l \in Lease, a \in Alloc : LookUpView(v, l, a)
  \/ \E l \in Lease : \E b \in lease[l].scratch : ScratchFree(l, b) \/ ScratchFreeMismatch(l, b)

TorchSpec == TorchInit /\ [][TorchNext]_torchVars
-----------------------------------------------------------------------------
LiveTickets(l) == {v \in Ticket : ticket[v].st = "live" /\ ticket[v].lease = l}

\* The type invariant: the arena cursor stays inside the arena, no counter runs below zero.
TorchTypeOK ==
  /\ \A s \in Session :
       /\ sess[s].st \in {"none", "creating", "open", "draining", "tearing", "gone"}
       /\ sess[s].rt \in {"ready", "blocked", "poisoned", "closed"}
       /\ sess[s].active \in Lease \union {None} /\ sess[s].ext \in Lease \union {None}
       /\ sess[s].extState \in {"armed", "submitted", "quarantined"}
       /\ sess[s].cublas \in {"none", "held", "abandoned"}
       /\ sess[s].views \in 0..Cardinality(Ticket) /\ sess[s].scratch \in 0..(Arena * Cardinality(Lease))
  /\ \A l \in Lease :
       /\ lease[l].st \in Unsealed \union Terminal \union {"none", "lost", "gone"}
       /\ lease[l].cursor \in 0..Arena /\ lease[l].views \in 0..Cardinality(Ticket)
  /\ \A a \in Alloc : alloc[a].st \in {"none", "live", "released", "gone"}
  /\ tls \in [Thread -> Lease \union {None}]

\* While the runtime holds a lease as sealed (its completion event is recorded, its chunks retire
\* when the event does) no tensor and no scratch block of that lease is alive: a view resolved
\* from any thread can neither survive the seal nor be taken after it.
SealedHasNoViews ==
  \A s \in Session : (sess[s].ext # None /\ sess[s].extState = "submitted" /\ sess[s].rt = "ready")
    => LiveTickets(sess[s].ext) = {} /\ lease[sess[s].ext].scratch = {}

\* The counters seal and close rely on are the tensors that exist, however their creation and
\* destruction on other threads interleave with the owner's calls.
ViewsCounted ==
  /\ \A l \in Lease : lease[l].views = Cardinality(LiveTickets(l))
  /\ \A s \in Session :
       sess[s].views = Cardinality({v \in Ticket : ticket[v].st = "live" /\ lease[ticket[v].lease].session = s})

\* The registry of scratch pointers names exactly the blocks leases hold, so a free finds its
\* lease and a pointer is never refused because of a dead owner.
ScratchOwned ==
  owners = UNION {{[pointer |-> b.pointer, lease |-> l] : b \in lease[l].scratch} : l \in Lease}

\* A live tensor points into an allocation that still exists, in a session whose runtime has not
\* been torn down.
ViewsHaveMemory ==
  \A v \in Ticket : ticket[v].st = "live" =>
    LET s == lease[ticket[v].lease].session IN
    /\ alloc[ticket[v].alloc] = [st |-> "live", session |-> s]
    /\ sess[s].st = "open" /\ sess[s].rt # "closed"

\* The session's active lease is the one lease not yet retired, and it is the one the runtime
\* pins: the two ledgers never part, through failed seals, expired waits and refused closes.
ActiveLeaseIsTheRuntimes ==
  \A s \in Session, l \in Lease :
    /\ sess[s].active = l <=> lease[l].session = s /\ lease[l].st \in Unsealed
    /\ sess[s].active = l => sess[s].ext = l

\* Every recorded event is retired with its lease, once: what telemetry says is outstanding is
\* what is submitted.
EventsBalance ==
  \A s \in Session :
    /\ sess[s].acquired - sess[s].retired = Cardinality({l \in Mine(s) : lease[l].st \in Unsealed})
    /\ sess[s].recorded - sess[s].evRetired =
         Cardinality({l \in Mine(s) : lease[l].st = "submitted" /\ lease[l].recorded})
    /\ sess[s].retired <= sess[s].acquired /\ sess[s].sealed <= sess[s].acquired

\* A session that closed successfully leaves no lease, allocation, scratch pointer, cuBLAS handle
\* or thread-local lease behind, and its runtime closed cleanly.
CloseLeavesNothing ==
  \A s \in Session : sess[s].st = "gone" =>
    /\ sess[s].rt = "closed" /\ sess[s].closeOk /\ sess[s].ext = None /\ sess[s].cublas # "held"
    /\ \A l \in Mine(s) : lease[l].st = "gone" /\ LiveTickets(l) = {}
    /\ \A a \in Alloc : alloc[a].session = s => alloc[a].st # "live"
    /\ \A o \in owners : o.pointer.session # s
    /\ \A t \in Thread : tls[t] # None => lease[tls[t]].session # s

\* The cuBLAS handle is never destroyed while it is unknown whether the device still runs work.
CublasSurvivesUnknownWork ==
  \A s \in Session : sess[s].cublas = "held" /\ sess'[s].cublas = "none" => ~sess[s].asyncQ
=============================================================================
