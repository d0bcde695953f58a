--------------------------- MODULE SessionWorker ---------------------------
(***************************************************************************)
(* An SDK session (src/sdk/runtime.cpp behind src/sdk/api.cpp): client     *)
(* threads put operations on one queue, and one worker thread, the only    *)
(* one that touches CUDA, cuBLAS and the residency runtime, serves them.   *)
(*                                                                         *)
(* A step is what happens under one lock of queue_mutex_ or of an          *)
(* operation's mutex_, or one call of the worker into the runtime.  The    *)
(* runtime itself (module ResidencyRuntime) appears by its results only.   *)
(***************************************************************************)
EXTENDS Naturals, Sequences, FiniteSets

CONSTANTS
  Thread,      (* Client threads.                                            *)
  Alloc,       (* Allocations; one is created at most once.                  *)
  MaxOps,      (* Bound on next_operation_id_.                               *)
  AsyncKinds,  (* The asynchronous calls clients make,                       *)
  SyncKinds,   (* and the synchronous ones.                                  *)
  NoOp, NoThread, NoAlloc

Op == 1..MaxOps
Closing == 0             (* close_operation_ has identifier 0. *)
OpId == Op \union {Closing}

SessionAssumption ==
  /\ MaxOps \in Nat
  /\ AsyncKinds \subseteq {"prefetch", "transaction", "gemm"}
  /\ SyncKinds \subseteq {"allocate", "access", "release", "plan", "drain"}
  /\ NoOp \notin OpId /\ NoThread \notin Thread /\ NoAlloc \notin Alloc

VARIABLES
  op,      (* The operations created so far, and close_operation_.           *)
  queue,   (* queue_                                                         *)
  ses,     (* closing_, close_requested_, stop_worker_, worker_exited_,
              worker_join_claimed_, setup_error_, and SessionState::closed.  *)
  worker,  (* Where the worker is, the operation it serves and its result.   *)
  snap,    (* The operations whose effect telemetry_snapshot_ includes.      *)
  rt,      (* The runtime, its cuBLAS handle and the CUDA library.           *)
  alloc,   (* What the runtime and the RuntimeAllocation say of each.        *)
  th       (* The call each client thread is in.                             *)

vars == <<op, queue, ses, worker, snap, rt, alloc, th>>

Terminal == {"completed", "cancelled", "failed"}
Done(o) == op[o].state \in Terminal
Created == DOMAIN op \ {Closing}

(* The synchronous actions that point into the frame of their caller. *)
Borrowing == {"allocate", "access", "release", "plan"}

NewOp(kind, a, deadline, t) ==
  [kind |-> kind, alloc |-> a, state |-> "queued", cancel |-> FALSE,
   deadline |-> deadline, error |-> "none", ran |-> FALSE, caller |-> t]
With(o, new) == [x \in DOMAIN op \union {o} |-> IF x = o THEN new ELSE op[x]]
Idle == [pc |-> "idle", call |-> "none", alloc |-> NoAlloc, op |-> NoOp, timed |-> FALSE,
         cleanup |-> "none"]
Rest == [pc |-> "wait", op |-> NoOp, result |-> "none"]

Init ==
  /\ op = [o \in {Closing} |-> NewOp("close", NoAlloc, "none", NoThread)]
  /\ queue = << >>
  /\ ses = [setup |-> "pending", closing |-> FALSE, closeRequested |-> FALSE,
            stop |-> FALSE, exited |-> FALSE, joinClaimed |-> FALSE, apiClosed |-> FALSE]
  /\ worker = [Rest EXCEPT !.pc = "setup"]
  /\ snap = {}
  /\ rt = [state |-> "open", unknown |-> FALSE, cublas |-> "absent", cuda |-> "loaded"]
  /\ alloc = [a \in Alloc |-> [live |-> FALSE, made |-> FALSE, released |-> FALSE]]
  /\ th = [t \in Thread |-> Idle]

-----------------------------------------------------------------------------
(* Creation: start() waits for the setup of the worker; a session whose    *)
(* setup failed is destroyed by its creator, and is never seen by others.  *)

(* cuBLAS is optional. *)
InitializeCublas == \E c \in {"absent", "ready"} : rt' = [rt EXCEPT !.cublas = c]

SetupSucceeds ==
  /\ worker.pc = "setup"
  /\ InitializeCublas
  /\ ses' = [ses EXCEPT !.setup = "done"]
  /\ worker' = Rest
  /\ UNCHANGED <<op, queue, snap, alloc, th>>

SetupFails ==
  /\ worker.pc = "setup"
  /\ ses' = [ses EXCEPT !.setup = "failed"]
  /\ worker' = [worker EXCEPT !.pc = "undo"]
  /\ UNCHANGED <<op, queue, snap, rt, alloc, th>>

UndoSetup ==
  /\ worker.pc = "undo"
  /\ rt' = [rt EXCEPT !.state = "closed"]
  /\ worker' = [worker EXCEPT !.pc = "exit"]
  /\ UNCHANGED <<op, queue, ses, snap, alloc, th>>

(* The thread cannot be created: nobody else exists yet. *)
StartFails ==
  /\ worker.pc = "setup"
  /\ ses' = [ses EXCEPT !.setup = "failed", !.exited = TRUE]
  /\ worker' = [worker EXCEPT !.pc = "none"]
  /\ UNCHANGED <<op, queue, snap, rt, alloc, th>>

-----------------------------------------------------------------------------
(* The worker. *)

Serve(o) == worker' = [pc |-> "begin", op |-> o, result |-> "none"]

(* The queue first, the request to close when it is empty. *)
TakeCloseFirst ==   \* mutant
  /\ worker.pc = "wait" /\ ~(ses.stop /\ queue = << >>)
  /\ IF ses.closeRequested THEN Serve(Closing) /\ queue' = queue
                           ELSE queue # << >> /\ Serve(Head(queue)) /\ queue' = Tail(queue)
  /\ ses' = [ses EXCEPT !.closeRequested = FALSE]
  /\ UNCHANGED <<op, snap, rt, alloc, th>>
Take ==
  /\ worker.pc = "wait" /\ ~(ses.stop /\ queue = << >>)
  /\ \/ /\ queue # << >>
        /\ Serve(Head(queue)) /\ queue' = Tail(queue) /\ ses' = ses
     \/ /\ queue = << >> /\ ses.closeRequested
        /\ Serve(Closing) /\ queue' = queue
        /\ ses' = [ses EXCEPT !.closeRequested = FALSE]
  /\ UNCHANGED <<op, snap, rt, alloc, th>>

Refused(o, state, error) ==
  /\ op' = [op EXCEPT ![o].state = state, ![o].error = error]
  /\ worker' = Rest

(* RuntimeOperation::begin *)
BeginUnlessLate ==   \* mutant
  LET o == worker.op IN
  /\ worker.pc = "begin"
  /\ IF op[o].deadline = "past" THEN Refused(o, "failed", "timeout")
     ELSE /\ op' = [op EXCEPT ![o].state = "running"]
          /\ worker' = [worker EXCEPT !.pc = "launch"]
  /\ UNCHANGED <<queue, ses, snap, rt, alloc, th>>
Begin ==
  LET o == worker.op IN
  /\ worker.pc = "begin"
  /\ CASE op[o].cancel -> Refused(o, "cancelled", "cancelled")
       [] ~op[o].cancel /\ op[o].deadline = "past" -> Refused(o, "failed", "timeout")
       [] OTHER -> /\ op' = [op EXCEPT ![o].state = "running"]
                   /\ worker' = [worker EXCEPT !.pc = "launch"]
  /\ UNCHANGED <<queue, ses, snap, rt, alloc, th>>

(* pre_launch_deadline: the wrapper of enqueue and the action of           *)
(* submit_transaction ask again before the runtime is called.              *)
Launch ==
  LET o == worker.op IN
  /\ worker.pc = "launch" /\ o # Closing
  /\ worker' = IF op[o].deadline = "past"
               THEN [worker EXCEPT !.pc = "publish", !.result = "timeout"]
               ELSE [worker EXCEPT !.pc = "act"]
  /\ UNCHANGED <<op, queue, ses, snap, rt, alloc, th>>

(* An action that ran; the runtime may lose track of its copies meanwhile. *)
Ran(result) ==
  /\ worker' = [worker EXCEPT !.pc = "publish", !.result = result]
  /\ op' = [op EXCEPT ![worker.op].ran = TRUE]
  /\ \E u \in {rt.unknown, rt.unknown \/ result \in {"runtime", "callback", "timeout"}} : rt' = [rt EXCEPT !.unknown = u]

(* Making the ranges resident may fail; if it does not, the callback is    *)
(* skipped after the deadline, and otherwise succeeds or fails.            *)
RunTransaction ==
  /\ worker.pc = "act" /\ op[worker.op].kind = "transaction"
  /\ \/ Ran("runtime")
     \/ IF op[worker.op].deadline = "past" THEN Ran("timeout")
        ELSE Ran("callback") \/ Ran("none")
  /\ UNCHANGED <<queue, ses, snap, alloc, th>>

(* A tiled GEMM asks at every boundary. *)
RunGemm ==
  /\ worker.pc = "act" /\ op[worker.op].kind = "gemm"
  /\ \/ Ran("none") \/ Ran("runtime")
     \/ op[worker.op].deadline = "past" /\ Ran("timeout")
  /\ UNCHANGED <<queue, ses, snap, alloc, th>>

(* write, read, prefetch and drain; the runtime refuses a dead allocation. *)
RunAccess ==
  LET a == op[worker.op].alloc IN
  /\ worker.pc = "act" /\ op[worker.op].kind \in {"access", "prefetch", "drain"}
  /\ \/ Ran("runtime")
     \/ (a # NoAlloc => alloc[a].live) /\ Ran("none")
  /\ UNCHANGED <<queue, ses, snap, alloc, th>>

(* create_gemm_plan asks once more whether its matrices are released. *)
RunPlan ==
  LET a == op[worker.op].alloc IN
  /\ worker.pc = "act" /\ op[worker.op].kind = "plan"
  /\ IF alloc[a].released THEN Ran("invalid") ELSE Ran("invalid") \/ Ran("none")
  /\ UNCHANGED <<queue, ses, snap, alloc, th>>

(* The handle is made on the worker; if it cannot be, the runtime's        *)
(* allocation is released again, which may fail in turn.                   *)
RunAllocate ==
  LET a == op[worker.op].alloc IN
  /\ worker.pc = "act" /\ op[worker.op].kind = "allocate"
  /\ \/ Ran("none") /\ alloc' = [alloc EXCEPT ![a].live = TRUE, ![a].made = TRUE]
     \/ Ran("runtime") /\ alloc' = alloc
     \/ Ran("runtime") /\ alloc' = [alloc EXCEPT ![a].live = TRUE]
  /\ UNCHANGED <<queue, ses, snap, th>>

RunRelease ==
  LET a == op[worker.op].alloc IN
  /\ worker.pc = "act" /\ op[worker.op].kind = "release"
  /\ \/ Ran("runtime") /\ alloc' = alloc
     \/ Ran("none") /\ alloc' = [alloc EXCEPT ![a].live = FALSE]
  /\ UNCHANGED <<queue, ses, snap, th>>

CublasAfter(quarantine) ==
  IF rt.cublas = "absent" THEN "absent" ELSE IF quarantine THEN "abandoned" ELSE "destroyed"

(* The shutdown: cuBLAS is destroyed only when completion is known, the    *)
(* runtime is closed, and the library abandoned if it then is not known.   *)
ShutDown ==
  /\ worker.pc = "launch" /\ worker.op = Closing
  /\ \E unknown \in {rt.unknown, TRUE}, result \in {"none", "runtime", "cublas"} :
       /\ result = "none" => ~unknown
       /\ result = "cublas" => ~rt.unknown /\ rt.cublas = "ready"
       /\ rt' = [state |-> "closed", unknown |-> unknown,
                 cublas |-> CublasAfter(rt.unknown),
                 cuda |-> IF rt.unknown \/ unknown THEN "abandoned" ELSE "loaded"]
       /\ worker' = [worker EXCEPT !.pc = "publish", !.result = result]
  /\ op' = [op EXCEPT ![Closing].ran = TRUE]
  /\ alloc' = [a \in Alloc |-> [alloc[a] EXCEPT !.live = FALSE]]
  /\ UNCHANGED <<queue, ses, snap, th>>

(* refresh_telemetry, before the operation is finished. *)
Publish ==
  /\ worker.pc = "publish"
  /\ snap' = {o \in DOMAIN op : op[o].ran}
  /\ worker' = [worker EXCEPT !.pc = "finish"]
  /\ UNCHANGED <<op, queue, ses, rt, alloc, th>>

(* RuntimeOperation::finish *)
Finish ==
  LET o == worker.op IN
  /\ worker.pc = "finish"
  /\ op' = [op EXCEPT ![o].state = IF worker.result = "none" THEN "completed" ELSE "failed",
                      ![o].error = worker.result]
  /\ worker' = IF o = Closing THEN [worker EXCEPT !.pc = "stop"] ELSE Rest
  /\ UNCHANGED <<queue, ses, snap, rt, alloc, th>>

Stop ==
  /\ worker.pc = "stop"
  /\ ses' = [ses EXCEPT !.stop = TRUE]
  /\ worker' = Rest
  /\ UNCHANGED <<op, queue, snap, rt, alloc, th>>

LeaveLoop ==
  /\ worker.pc = "wait" /\ ses.stop /\ queue = << >>
  /\ worker' = [worker EXCEPT !.pc = "exit"]
  /\ UNCHANGED <<op, queue, ses, snap, rt, alloc, th>>

(* signal_worker_exit *)
SignalExit ==
  /\ worker.pc = "exit"
  /\ ses' = [ses EXCEPT !.exited = TRUE]
  /\ worker' = [worker EXCEPT !.pc = "none"]
  /\ UNCHANGED <<op, queue, snap, rt, alloc, th>>

WorkerStep ==
  \/ SetupSucceeds \/ SetupFails \/ UndoSetup \/ StartFails
  \/ Take \/ Begin \/ Launch
  \/ RunTransaction \/ RunGemm \/ RunAccess \/ RunPlan \/ RunAllocate \/ RunRelease
  \/ ShutDown \/ Publish \/ Finish \/ Stop \/ LeaveLoop \/ SignalExit

-----------------------------------------------------------------------------
(* Clients.  A call first looks at the allocation, without a lock, and     *)
(* then submits; other threads may act in between.                         *)

Room == Cardinality(Created) + Cardinality({s \in Thread : th[s].pc = "submit"}) < MaxOps
MayCall(t) == th[t].pc = "idle" /\ ses.setup = "done" /\ Room

(* A client has the handle once the call that made it returned. *)
Usable(a) ==
  /\ alloc[a].made /\ ~alloc[a].released
  /\ \A t \in Thread : th[t].alloc = a => th[t].call # "allocate"

Call(t, call, a) ==
  /\ MayCall(t)
  /\ call \in AsyncKinds \union (SyncKinds \intersect {"access", "plan"})
  /\ Usable(a)
  /\ th' = [th EXCEPT ![t] = [Idle EXCEPT !.pc = "submit", !.call = call, !.alloc = a]]
  /\ UNCHANGED <<op, queue, ses, worker, snap, rt, alloc>>

CallAllocate(t, a) ==
  /\ MayCall(t) /\ "allocate" \in SyncKinds
  /\ ~alloc[a].made /\ ~alloc[a].live /\ \A s \in Thread : th[s].alloc # a
  /\ th' = [th EXCEPT ![t] = [Idle EXCEPT !.pc = "submit", !.call = "allocate", !.alloc = a]]
  /\ UNCHANGED <<op, queue, ses, worker, snap, rt, alloc>>

(* Only drain waits with a limit. *)
CallDrain(t) ==
  /\ MayCall(t) /\ "drain" \in SyncKinds
  /\ \E timed \in BOOLEAN :
       th' = [th EXCEPT ![t] = [Idle EXCEPT !.pc = "submit", !.call = "drain", !.timed = timed]]
  /\ UNCHANGED <<op, queue, ses, worker, snap, rt, alloc>>

(* released_ is exchanged first; on a closed session that is all. *)
CallRelease(t, a) ==
  /\ MayCall(t) /\ "release" \in SyncKinds
  /\ ~ses.apiClosed
  /\ Usable(a)
  /\ alloc' = [alloc EXCEPT ![a].released = TRUE]
  /\ th' = [th EXCEPT ![t] = [Idle EXCEPT !.pc = "submit", !.call = "release", !.alloc = a]]
  /\ UNCHANGED <<op, queue, ses, worker, snap, rt>>

(* enqueue_progress: refused once closing_ is set, which for a release     *)
(* means the allocation is gone or soon will be.                           *)
Submit(t) ==
  LET o == Cardinality(Created) + 1 IN
  /\ th[t].pc = "submit" /\ ~ses.closing
  /\ \E d \in IF th[t].call \in AsyncKinds THEN {"none", "armed"} ELSE {"none"} :
       op' = With(o, NewOp(th[t].call, th[t].alloc, d, t))
  /\ queue' = Append(queue, o)
  /\ th' = [th EXCEPT ![t] = IF th[t].call \in AsyncKinds THEN Idle
                             ELSE [th[t] EXCEPT !.pc = "wait", !.op = o]]
  /\ UNCHANGED <<ses, worker, snap, rt, alloc>>

SubmitRefused(t) ==
  /\ th[t].pc = "submit" /\ ses.closing
  /\ th' = [th EXCEPT ![t] = Idle]
  /\ UNCHANGED <<op, queue, ses, worker, snap, rt, alloc>>

(* invoke_sync returns; a release that failed gives the handle back. *)
Return(t) ==
  LET o == th[t].op IN
  /\ th[t].pc = "wait" /\ Done(o)
  /\ alloc' = IF th[t].call = "release" /\ op[o].error \notin {"none", "closed"}
              THEN [alloc EXCEPT ![th[t].alloc].released = FALSE] ELSE alloc
  /\ th' = [th EXCEPT ![t] = Idle]
  /\ UNCHANGED <<op, queue, ses, worker, snap, rt>>

(* The handle of the C interface cannot be made: the allocation is released again. *)
HandleFails(t) ==
  LET a == th[t].alloc IN
  /\ th[t].pc = "wait" /\ th[t].call = "allocate" /\ Done(th[t].op)
  /\ op[th[t].op].error = "none" /\ Room
  /\ alloc' = [alloc EXCEPT ![a].released = TRUE]
  /\ th' = [th EXCEPT ![t] = [Idle EXCEPT !.pc = "submit", !.call = "release", !.alloc = a]]
  /\ UNCHANGED <<op, queue, ses, worker, snap, rt>>

(* A drain that timed out leaves its operation in the queue. *)
TimeOut(t) ==
  /\ th[t].pc = "wait" /\ th[t].timed /\ ~Done(th[t].op)
  /\ th' = [th EXCEPT ![t] = Idle]
  /\ UNCHANGED <<op, queue, ses, worker, snap, rt, alloc>>

(* Asynchronous operations have a handle to cancel; a submission whose     *)
(* handle cannot be allocated cancels its operation too.                   *)
Cancel(o) ==
  /\ o \in Created /\ op[o].kind \in AsyncKinds
  /\ op[o].state = "queued" /\ ~op[o].cancel
  /\ op' = [op EXCEPT ![o].cancel = TRUE]
  /\ UNCHANGED <<queue, ses, worker, snap, rt, alloc, th>>

DeadlinePasses(o) ==
  /\ o \in Created /\ op[o].deadline = "armed" /\ ~Done(o)
  /\ op' = [op EXCEPT ![o].deadline = "past"]
  /\ UNCHANGED <<queue, ses, worker, snap, rt, alloc, th>>

-----------------------------------------------------------------------------
(* Closing: any number of threads, each with or without a limit; the       *)
(* release of the session and its destructor wait without.                 *)

CallClose(t) ==
  /\ th[t].pc = "idle" /\ ses.setup # "pending" /\ ~ses.apiClosed
  /\ ses.setup = "failed" => ~ses.closing
  /\ ses' = IF ses.closing THEN ses
            ELSE [ses EXCEPT !.closing = TRUE, !.closeRequested = (ses.setup = "done")]
  /\ \E timed \in IF ses.setup = "done" THEN BOOLEAN ELSE {FALSE} :
       th' = [th EXCEPT ![t] = [Idle EXCEPT !.call = "close", !.timed = timed,
                                  !.pc = IF ses.setup = "done" THEN "closing" ELSE "exiting"]]
  /\ UNCHANGED <<op, queue, worker, snap, rt, alloc>>

CloseServed(t) ==
  /\ th[t].pc = "closing" /\ Done(Closing)
  /\ th' = [th EXCEPT ![t].pc = "exiting", ![t].cleanup = op[Closing].error]
  /\ UNCHANGED <<op, queue, ses, worker, snap, rt, alloc>>

CloseTimesOut(t) ==
  /\ th[t].timed
  /\ \/ th[t].pc = "closing" /\ ~Done(Closing)
     \/ th[t].pc = "exiting" /\ ~ses.exited
  /\ th' = [th EXCEPT ![t] = Idle]
  /\ UNCHANGED <<op, queue, ses, worker, snap, rt, alloc>>

(* wait_for_worker_exit, then join_worker_once claims the join. *)
ClaimJoin(t) ==
  /\ th[t].pc = "exiting" /\ ses.exited
  /\ th' = [th EXCEPT ![t].pc = IF ses.joinClaimed THEN "closed" ELSE "join"]
  /\ ses' = [ses EXCEPT !.joinClaimed = TRUE]
  /\ UNCHANGED <<op, queue, worker, snap, rt, alloc>>

Join(t) ==
  /\ th[t].pc = "join" /\ worker.pc = "none"
  /\ th' = [th EXCEPT ![t].pc = "closed"]
  /\ UNCHANGED <<op, queue, ses, worker, snap, rt, alloc>>

(* SessionState::closed is set by a close that succeeded. *)
CloseReturns(t) ==
  /\ th[t].pc = "closed"
  /\ ses' = [ses EXCEPT !.apiClosed = @ \/ (ses.setup = "done" /\ th[t].cleanup = "none")]
  /\ th' = [th EXCEPT ![t] = Idle]
  /\ UNCHANGED <<op, queue, worker, snap, rt, alloc>>

Waiting(t) ==
  \/ Submit(t) \/ SubmitRefused(t) \/ Return(t) \/ HandleFails(t)
  \/ CloseServed(t) \/ ClaimJoin(t) \/ Join(t) \/ CloseReturns(t)

Next ==
  \/ WorkerStep
  \/ \E t \in Thread :
       \/ Waiting(t) \/ TimeOut(t) \/ CloseTimesOut(t) \/ CallClose(t) \/ CallDrain(t)
       \/ \E a \in Alloc : CallAllocate(t, a) \/ CallRelease(t, a)
       \/ \E a \in Alloc, call \in AsyncKinds \union SyncKinds : Call(t, call, a)
  \/ \E o \in Op : Cancel(o) \/ DeadlinePasses(o)

Spec == Init /\ [][Next]_vars

-----------------------------------------------------------------------------
(* Properties. *)

Error == {"none", "cancelled", "timeout", "runtime", "callback", "invalid", "cublas"}
Kind == {"prefetch", "transaction", "gemm", "allocate", "access", "release", "plan", "drain"}

(* Every variable keeps its type; the operations have consecutive numbers. *)
TypeOK ==
  /\ DOMAIN op = 0..Cardinality(Created) /\ Created \subseteq Op
  /\ \A o \in DOMAIN op :
       /\ (op[o].kind = "close") = (o = Closing)
       /\ op[o] \in [kind : Kind \union {"close"}, alloc : Alloc \union {NoAlloc},
                 state : Terminal \union {"queued", "running"}, cancel : BOOLEAN,
                 deadline : {"none", "armed", "past"}, error : Error, ran : BOOLEAN,
                 caller : Thread \union {NoThread}]
  /\ queue \in Seq(Created)
  /\ ses \in [setup : {"pending", "done", "failed"}, closing : BOOLEAN,
             closeRequested : BOOLEAN, stop : BOOLEAN, exited : BOOLEAN,
             joinClaimed : BOOLEAN, apiClosed : BOOLEAN]
  /\ worker \in [pc : {"setup", "undo", "wait", "begin", "launch", "act", "publish",
                      "finish", "stop", "exit", "none"},
                op : DOMAIN op \union {NoOp}, result : Error]
  /\ snap \subseteq DOMAIN op
  /\ rt \in [state : {"open", "closed"}, unknown : BOOLEAN,
            cublas : {"absent", "ready", "destroyed", "abandoned"},
            cuda : {"loaded", "abandoned"}]
  /\ alloc \in [Alloc -> [live : BOOLEAN, made : BOOLEAN, released : BOOLEAN]]
  /\ th \in [Thread ->
             [pc : {"idle", "submit", "wait", "closing", "exiting", "join", "closed"},
              call : Kind \union {"none", "close"}, alloc : Alloc \union {NoAlloc},
              op : DOMAIN op \union {NoOp}, timed : BOOLEAN, cleanup : Error]]

(* While the worker executes an action that refers to variables of the     *)
(* calling thread (the buffers of read and write, the results of allocate  *)
(* and create_gemm_plan), that thread is still inside the call.            *)
BorrowedFramesLive ==
  worker.pc \in {"launch", "act"} /\ worker.op # Closing =>
    LET o == worker.op IN
    op[o].kind \in Borrowing => th[op[o].caller].pc = "wait" /\ th[op[o].caller].op = o

(* An operation whose cancellation was accepted never reaches the runtime, *)
(* whatever its deadline, and it does end as cancelled.                    *)
CancelledNeverRuns ==
  \A o \in Created : op[o].cancel =>
    /\ op[o].state \in {"queued", "cancelled"}
    /\ ~op[o].ran

(* A result, once a client can have seen it, stays. *)
TerminalIsFinal ==
  \A o \in DOMAIN op : Done(o) => op'[o].state = op[o].state /\ op'[o].error = op[o].error

(* A client that sees an operation finished reads telemetry that counts it. *)
TelemetryNotBehind ==
  \A o \in DOMAIN op : Done(o) /\ op[o].ran => o \in snap

(* An allocation whose handle says released is gone from the runtime,      *)
(* unless its release is still under way or its session is closing.        *)
ReleasedMeansGone ==
  \A a \in Alloc : alloc[a].released /\ alloc[a].live =>
    ses.closing \/ \E t \in Thread : th[t].call = "release" /\ th[t].alloc = a

(* When the runtime could not learn whether its copies finished, not even  *)
(* while it closed, the CUDA library is abandoned and never unloaded.      *)
UnknownIsAbandoned ==
  rt.state = "closed" /\ rt.unknown => rt.cuda = "abandoned"

(* The std::jthread is joined by one thread at most. *)
OneJoiner ==
  \A s, t \in Thread : th[s].pc = "join" /\ th[t].pc = "join" => s = t

(* After a successful close nothing is left: no thread, no operation, no   *)
(* allocation, and so handles may be released without asking the backend.  *)
SuccessfulCloseIsFinal ==
  ses.apiClosed =>
    /\ worker.pc = "none" /\ rt.state = "closed"
    /\ queue = << >> /\ \A o \in DOMAIN op : Done(o)
    /\ \A a \in Alloc : ~alloc[a].live

(* Whatever clients, timeouts, cancellations and a failing runtime do to   *)
(* each other.                                                             *)
SessionSafe ==
  /\ TypeOK /\ CancelledNeverRuns /\ ReleasedMeansGone /\ BorrowedFramesLive
  /\ TelemetryNotBehind /\ UnknownIsAbandoned /\ OneJoiner /\ SuccessfulCloseIsFinal

(* The queue serves one operation at a time, in the order of acceptance,   *)
(* accepts none once closing and closes when all are done.                 *)
Promise == INSTANCE SessionPromise WITH
  pending <- queue,
  serving <- IF worker.op \in Created THEN worker.op ELSE NoOp,
  done <- {o \in Created : Done(o)},
  state <- IF Done(Closing) THEN "closed" ELSE IF ses.closing THEN "closing" ELSE "open"
ServesInOrder == Promise!Step
=============================================================================
