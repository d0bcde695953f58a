--------------------------- MODULE SessionProofs ---------------------------
(***************************************************************************)
(* An SDK session is safe for any number of client threads, allocations    *)
(* and operations: what it has told a client stays true, and it serves as  *)
(* SessionPromise says.                                                    *)
(*                                                                         *)
(* An action is first put in a shape that says what it does to the one     *)
(* operation, call or allocation it is about (Runs, Begins, Submits,       *)
(* CloserMoves, ...); the invariant is then kept conjunct by conjunct.     *)
(* Steps of the worker (Serving) are told from those of the others.        *)
(***************************************************************************)
EXTENDS SessionWorker, FiniteSetTheorems, SequenceTheorems, TLAPS

-----------------------------------------------------------------------------
(* The invariant. *)

(* Every call that will submit finds an identifier. *)
Submitters == {t \in Thread : th[t].pc = "submit"}
Counted == IsFiniteSet(Submitters) /\ Cardinality(Created) + Cardinality(Submitters) <= MaxOps

(* Where the worker has no operation, and where it has begun one. *)
Away == {"setup", "undo", "wait", "exit", "none"}
Executing == {"launch", "act", "publish", "finish"}

(* The shutdown ran, and is about to be reported. *)
Ending == worker.op = Closing /\ worker.pc \in {"publish", "finish"}

(* The state of an operation says where the worker is with it. *)
Served ==
  /\ (worker.op = NoOp) <=> (worker.pc \in Away)
  /\ worker.pc = "begin" => op[worker.op].state = "queued"
  /\ worker.pc \in Executing => op[worker.op].state = "running"
  /\ worker.pc = "act" => worker.op # Closing
  /\ worker.pc = "stop" => worker.op = Closing /\ Done(Closing)

(* Whoever is queued is in the queue once, or in the worker's hand; nobody *)
(* but the operation in its hand runs.                                     *)
Queued ==
  /\ \A i \in DOMAIN queue : op[queue[i]].state = "queued" /\ queue[i] # worker.op
  /\ \A i, j \in DOMAIN queue : queue[i] = queue[j] => i = j
  /\ \A o \in Created : op[o].state = "queued" =>
       worker.op = o \/ \E i \in DOMAIN queue : queue[i] = o
  /\ \A o \in DOMAIN op : op[o].state = "running" => worker.op = o

(* What ran was not cancelled, and was counted before it ended. *)
Fates ==
  /\ \A o \in DOMAIN op :
       /\ op[o].state = "queued" => ~op[o].ran
       /\ op[o].cancel => op[o].state \in {"queued", "cancelled"} /\ ~op[o].ran
       /\ Done(o) /\ op[o].ran => o \in snap
  /\ worker.pc = "finish" /\ op[worker.op].ran => worker.op \in snap
  /\ ~op[Closing].cancel /\ op[Closing].deadline = "none"

(* The session closes after it was asked to, with an empty queue, and      *)
(* serves nobody afterwards.                                               *)
CloseOrder ==
  /\ ses.closeRequested => ses.closing /\ op[Closing].state = "queued" /\ worker.op # Closing
  /\ ~ses.closing => op[Closing].state = "queued" /\ worker.op # Closing
  /\ worker.op = Closing \/ Done(Closing) => queue = << >>
  /\ Done(Closing) => worker.op \in {NoOp, Closing}
  /\ ses.stop => Done(Closing)

(* The life of the worker: set up or not, at work, gone. *)
Phases ==
  /\ (ses.setup = "pending") <=> (worker.pc = "setup")
  /\ ses.setup = "failed" => worker.pc \in {"undo", "exit", "none"}
  /\ worker.pc = "undo" => ses.setup = "failed"
  /\ worker.pc \in {"exit", "none"} =>
       ses.setup = "failed" \/ (ses.stop /\ queue = << >>)
  /\ ses.exited => worker.pc = "none"
  /\ ses.setup # "done" => 
       queue = << >> /\ ~rt.unknown /\ ~ses.closeRequested /\ op[Closing].state = "queued"
  /\ ses.setup = "pending" => rt.state = "open"

(* The runtime is closed by the shutdown, or by a setup that failed. *)
ShutDownOnce ==
  /\ rt.state = "closed" => ses.setup = "failed" \/ Done(Closing) \/ Ending
  /\ Done(Closing) \/ Ending => rt.state = "closed"
  /\ rt.state = "closed" /\ rt.unknown => rt.cuda = "abandoned"
  /\ rt.state = "closed" \/ ses.setup # "done" => \A a \in Alloc : ~alloc[a].live

(* What the phase of a call says about it. *)
CallsTyped ==
  \A t \in Thread :
    /\ th[t].pc \in {"submit", "wait", "closing"} => ses.setup = "done"
    /\ th[t].pc = "idle" => th[t] = Idle
    /\ th[t].timed => th[t].call \in {"drain", "close"}
    /\ th[t].pc \in {"submit", "wait"} => th[t].call \in Kind
    /\ th[t].call \in Borrowing => th[t].alloc \in Alloc
    /\ th[t].pc \in {"closing", "exiting", "join", "closed"} => th[t].call = "close" /\ th[t].alloc = NoAlloc
    /\ th[t].pc = "wait" =>
         /\ th[t].op \in Created
         /\ op[th[t].op].kind = th[t].call /\ op[th[t].op].alloc = th[t].alloc

(* Whose frame an unfinished operation borrows still waits for it. *)
CallersWait ==
  \A o \in Created : op[o].kind \in Borrowing /\ ~Done(o) =>
    op[o].caller \in Thread /\ th[op[o].caller].pc = "wait" /\ th[op[o].caller].op = o

Finishing(kind) ==
  worker.pc \in {"publish", "finish"} /\ op[worker.op].kind = kind /\ worker.result = "none"
Succeeded(o, kind) == op[o].kind = kind /\ op[o].error = "none" /\ Done(o)

(* An allocation belongs to the call that makes it; it has been made when  *)
(* that call succeeds and is gone when its release does.                   *)
Handles ==
  /\ \A t \in Thread : th[t].call = "allocate" =>
       ~alloc[th[t].alloc].released /\ \A s \in Thread \ {t} : th[s].alloc # th[t].alloc
  /\ \A a \in Alloc : alloc[a].released => alloc[a].made
  /\ Finishing("allocate") => alloc[op[worker.op].alloc].made
  /\ \A o \in Created :
       Succeeded(o, "allocate") /\ op[o].alloc \in Alloc => alloc[op[o].alloc].made
  /\ Finishing("release") => ~alloc[op[worker.op].alloc].live
  /\ \A t \in Thread : th[t].pc = "wait" /\ Succeeded(th[t].op, "release") =>
       ~alloc[th[t].alloc].live
  /\ ReleasedMeansGone

(* Who joins has claimed it, and the worker had left. *)
Joining ==
  /\ OneJoiner
  /\ \A t \in Thread : th[t].pc = "join" => ses.joinClaimed
  /\ \A t \in Thread : th[t].pc \in {"join", "closed"} => ses.exited
  /\ ses.apiClosed => ses.setup = "done" /\ ses.exited

SessInv ==
  /\ TypeOK /\ Counted /\ Served /\ Queued /\ Fates /\ CloseOrder /\ Phases /\ ShutDownOnce
  /\ CallsTyped /\ CallersWait /\ Handles /\ Joining

-----------------------------------------------------------------------------
(* The parts of the type invariant. *)
OpRec == [kind : Kind \union {"close"}, alloc : Alloc \union {NoAlloc},
          state : Terminal \union {"queued", "running"}, cancel : BOOLEAN,
          deadline : {"none", "armed", "past"}, error : Error, ran : BOOLEAN,
          caller : Thread \union {NoThread}]
SesRec == [setup : {"pending", "done", "failed"}, closing : BOOLEAN,
           closeRequested : BOOLEAN, stop : BOOLEAN, exited : BOOLEAN,
           joinClaimed : BOOLEAN, apiClosed : BOOLEAN]
RtRec == [state : {"open", "closed"}, unknown : BOOLEAN,
          cublas : {"absent", "ready", "destroyed", "abandoned"},
          cuda : {"loaded", "abandoned"}]
AllocRec == [live : BOOLEAN, made : BOOLEAN, released : BOOLEAN]

WorkerOK ==
  worker \in [pc : {"setup", "undo", "wait", "begin", "launch", "act", "publish",
                   "finish", "stop", "exit", "none"},
             op : DOMAIN op \union {NoOp}, result : Error]
CallsOK ==
  th \in [Thread ->
         [pc : {"idle", "submit", "wait", "closing", "exiting", "join", "closed"},
          call : Kind \union {"none", "close"}, alloc : Alloc \union {NoAlloc},
          op : DOMAIN op \union {NoOp}, timed : BOOLEAN, cleanup : Error]]
OpsOK ==
  /\ DOMAIN op = 0..Cardinality(Created) /\ Created \subseteq Op
  /\ \A o \in DOMAIN op : (op[o].kind = "close") = (o = Closing) /\ op[o] \in OpRec

LEMMA TypeParts ==
  TypeOK <=> /\ OpsOK /\ queue \in Seq(Created) /\ ses \in SesRec /\ WorkerOK
             /\ snap \subseteq DOMAIN op /\ rt \in RtRec /\ alloc \in [Alloc -> AllocRec]
             /\ CallsOK
BY DEF TypeOK, OpsOK, OpRec, SesRec, WorkerOK, RtRec, AllocRec, CallsOK

LEMMA TypePartsNext ==
  ASSUME OpsOK', queue' \in Seq(Created'), ses' \in SesRec, WorkerOK', snap' \subseteq DOMAIN op',
         rt' \in RtRec, alloc' \in [Alloc -> AllocRec], CallsOK'
  PROVE  TypeOK'
BY DEF TypeOK, OpsOK, OpRec, SesRec, WorkerOK, RtRec, AllocRec, CallsOK

(* Operations are numbered as they come. *)
LEMMA Numbers ==
  ASSUME SessionAssumption, OpsOK
  PROVE  /\ Cardinality(Created) \in Nat /\ Created = 1..Cardinality(Created)
         /\ IsFiniteSet(Created) /\ Closing \in DOMAIN op /\ NoOp \notin DOMAIN op
<1>1. IsFiniteSet(Op)
    BY FS_Interval DEF SessionAssumption, Op
<1>2. IsFiniteSet(Created) /\ Cardinality(Created) \in Nat
    BY <1>1, FS_Subset, FS_CardinalityType DEF OpsOK
<1>3. Created = (0..Cardinality(Created)) \ {0}
    BY DEF OpsOK, Created, Closing
<1>4. (0..Cardinality(Created)) \ {0} = 1..Cardinality(Created)
    BY <1>2
<1>5. DOMAIN op \subseteq OpId
    BY DEF OpsOK, OpId, Created
<1>6. Closing \in DOMAIN op
    BY <1>2 DEF OpsOK, Closing
<1> QED BY <1>1, <1>2, <1>3, <1>4, <1>5, <1>6 DEF SessionAssumption

-----------------------------------------------------------------------------
(* What a step does to one operation. *)
Becomes(o, state, error, cancel, deadline, ran) ==
  /\ DOMAIN op' = DOMAIN op
  /\ \A x \in DOMAIN op : x # o => op'[x] = op[x]
  /\ op'[o].kind = op[o].kind /\ op'[o].alloc = op[o].alloc /\ op'[o].caller = op[o].caller
  /\ op'[o].state = state /\ op'[o].error = error /\ op'[o].cancel = cancel
  /\ op'[o].deadline = deadline /\ op'[o].ran = ran
  /\ op'[o] = [kind |-> op[o].kind, alloc |-> op[o].alloc, state |-> state, cancel |-> cancel,
              deadline |-> deadline, error |-> error, ran |-> ran, caller |-> op[o].caller]

LEMMA SetOutcome ==
  ASSUME NEW o \in DOMAIN op, op[o] \in OpRec, NEW state, NEW error,
         op' = [op EXCEPT ![o].state = state, ![o].error = error]
  PROVE  Becomes(o, state, error, op[o].cancel, op[o].deadline, op[o].ran)
BY DEF Becomes, OpRec

LEMMA SetState ==
  ASSUME NEW o \in DOMAIN op, op[o] \in OpRec, NEW state,
         op' = [op EXCEPT ![o].state = state]
  PROVE  Becomes(o, state, op[o].error, op[o].cancel, op[o].deadline, op[o].ran)
BY DEF Becomes, OpRec

LEMMA SetRan ==
  ASSUME NEW o \in DOMAIN op, op[o] \in OpRec, op' = [op EXCEPT ![o].ran = TRUE]
  PROVE  Becomes(o, op[o].state, op[o].error, op[o].cancel, op[o].deadline, TRUE)
BY DEF Becomes, OpRec

LEMMA SetCancel ==
  ASSUME NEW o \in DOMAIN op, op[o] \in OpRec, op' = [op EXCEPT ![o].cancel = TRUE]
  PROVE  Becomes(o, op[o].state, op[o].error, TRUE, op[o].deadline, op[o].ran)
BY DEF Becomes, OpRec

LEMMA SetDeadline ==
  ASSUME NEW o \in DOMAIN op, op[o] \in OpRec, op' = [op EXCEPT ![o].deadline = "past"]
  PROVE  Becomes(o, op[o].state, op[o].error, op[o].cancel, "past", op[o].ran)
BY DEF Becomes, OpRec

-----------------------------------------------------------------------------
(* The steps that run an operation differ in its result and in what        *)
(* becomes of the allocation.                                              *)
Run == RunTransaction \/ RunGemm \/ RunAccess \/ RunPlan \/ RunAllocate \/ RunRelease

Runs ==
  /\ worker.pc = "act" /\ worker'.pc = "publish" /\ worker'.op = worker.op
  /\ \E r \in Error : worker' = [pc |-> "publish", op |-> worker.op, result |-> r]
  /\ LET o == worker.op IN
       Becomes(o, op[o].state, op[o].error, op[o].cancel, op[o].deadline, TRUE)
  /\ rt' \in RtRec /\ rt'.state = rt.state /\ rt'.cuda = rt.cuda
  /\ UNCHANGED <<queue, ses, snap, th>>
SetAlloc(a, live, made, released) ==
  /\ alloc' \in [Alloc -> AllocRec]
  /\ \A b \in Alloc : b # a => alloc'[b] = alloc[b]
  /\ a \in Alloc =>
       alloc'[a].live = live /\ alloc'[a].made = made /\ alloc'[a].released = released
RunsOn ==
  LET a == op[worker.op].alloc
      kind == op[worker.op].kind
  IN
  \/ alloc' = alloc /\ ~(kind \in {"allocate", "release"} /\ worker'.result = "none")
  \/ /\ kind = "allocate"
     /\ \/ SetAlloc(a, TRUE, TRUE, alloc[a].released)
        \/ worker'.result # "none" /\ SetAlloc(a, TRUE, alloc[a].made, alloc[a].released)
  \/ /\ kind = "release" /\ worker'.result = "none"
     /\ SetAlloc(a, FALSE, alloc[a].made, alloc[a].released)

LEMMA SetLive ==
  ASSUME alloc \in [Alloc -> AllocRec], NEW a, NEW live \in BOOLEAN,
         alloc' = [alloc EXCEPT ![a].live = live]
  PROVE  SetAlloc(a, live, alloc[a].made, alloc[a].released)
BY DEF SetAlloc, AllocRec

LEMMA SetMade ==
  ASSUME alloc \in [Alloc -> AllocRec], NEW a,
         alloc' = [alloc EXCEPT ![a].live = TRUE, ![a].made = TRUE]
  PROVE  SetAlloc(a, TRUE, TRUE, alloc[a].released)
BY DEF SetAlloc, AllocRec

LEMMA SetReleased ==
  ASSUME alloc \in [Alloc -> AllocRec], NEW a, NEW released \in BOOLEAN,
         alloc' = [alloc EXCEPT ![a].released = released]
  PROVE  SetAlloc(a, alloc[a].live, alloc[a].made, released)
BY DEF SetAlloc, AllocRec

LEMMA RanShape ==
  ASSUME WorkerOK, rt \in RtRec, worker.op \in DOMAIN op, op[worker.op] \in OpRec,
         NEW result \in Error, Ran(result)
  PROVE  /\ worker'.pc = "publish" /\ worker'.op = worker.op /\ worker'.result = result
         /\ worker' = [pc |-> "publish", op |-> worker.op, result |-> result]
         /\ Becomes(worker.op, op[worker.op].state, op[worker.op].error, op[worker.op].cancel,
                    op[worker.op].deadline, TRUE)
         /\ rt' \in RtRec /\ rt'.state = rt.state /\ rt'.cuda = rt.cuda
<1>1. worker' = [pc |-> "publish", op |-> worker.op, result |-> result]
    BY DEF Ran, WorkerOK
<1>2. op' = [op EXCEPT ![worker.op].ran = TRUE]
    BY DEF Ran
<1>3. rt' \in RtRec /\ rt'.state = rt.state /\ rt'.cuda = rt.cuda
  <2>1. PICK u \in {rt.unknown, rt.unknown \/ result \in {"runtime", "callback", "timeout"}} :
          rt' = [rt EXCEPT !.unknown = u]
      BY DEF Ran
  <2>2. rt.unknown \in BOOLEAN
      BY DEF RtRec
  <2>3. u \in BOOLEAN
      BY <2>2
  <2> QED BY <2>1, <2>3 DEF RtRec
<1> QED BY <1>1, <1>2, <1>3, SetRan

LEMMA RunShape ==
  ASSUME WorkerOK, rt \in RtRec, worker.op \in DOMAIN op, op[worker.op] \in OpRec,
         alloc \in [Alloc -> AllocRec], Run
  PROVE  Runs /\ RunsOn
<1> DEFINE a == op[worker.op].alloc
<1>1. /\ worker.pc = "act" /\ UNCHANGED <<queue, ses, snap, th>>
      /\ \E r \in Error : Ran(r)
  <2>1. {"none", "runtime", "callback", "timeout", "invalid"} \subseteq Error
      BY DEF Error
  <2> QED BY <2>1 DEF Run, RunTransaction, RunGemm, RunAccess, RunPlan, RunAllocate, RunRelease
<1>2. ASSUME NEW r \in Error, Ran(r) PROVE worker'.result = r
    BY <1>2, RanShape
<1>3. Runs
  <2>1. PICK r \in Error : Ran(r)
      BY <1>1
  <2>2. /\ worker'.pc = "publish" /\ worker'.op = worker.op
        /\ worker' = [pc |-> "publish", op |-> worker.op, result |-> r]
        /\ Becomes(worker.op, op[worker.op].state, op[worker.op].error, op[worker.op].cancel,
                   op[worker.op].deadline, TRUE)
        /\ rt' \in RtRec /\ rt'.state = rt.state /\ rt'.cuda = rt.cuda
      BY <2>1, RanShape
  <2> QED BY <1>1, <2>2 DEF Runs
<1> SUFFICES RunsOn
    BY <1>3
<1>4. Ran("none") => worker'.result = "none"
    BY <1>2 DEF Error
<1>5. Ran("runtime") => worker'.result = "runtime"
    BY <1>2 DEF Error
<1>6. CASE RunTransaction \/ RunGemm \/ RunAccess \/ RunPlan
  <2>1. alloc' = alloc /\ op[worker.op].kind \notin {"allocate", "release"}
      BY <1>6 DEF RunTransaction, RunGemm, RunAccess, RunPlan
  <2> QED BY <2>1 DEF RunsOn
<1>7. CASE RunAllocate
  <2>1. CASE Ran("none") /\ alloc' = [alloc EXCEPT ![a].live = TRUE, ![a].made = TRUE]
    <3>1. SetAlloc(a, TRUE, TRUE, alloc[a].released)
        BY <2>1, SetMade
    <3> QED BY <3>1, <1>7 DEF RunsOn, RunAllocate
  <2>2. CASE Ran("runtime") /\ alloc' = alloc
    <3>1. worker'.result # "none"
        BY <2>2, <1>5
    <3> QED BY <2>2, <3>1 DEF RunsOn
  <2>3. CASE Ran("runtime") /\ alloc' = [alloc EXCEPT ![a].live = TRUE]
    <3>1. worker'.result # "none"
        BY <2>3, <1>5
    <3>2. SetAlloc(a, TRUE, alloc[a].made, alloc[a].released)
        BY <2>3, SetLive
    <3> QED BY <3>1, <3>2, <1>7 DEF RunsOn, RunAllocate
  <2> QED BY <1>7, <2>1, <2>2, <2>3 DEF RunAllocate
<1>8. CASE RunRelease
  <2>1. CASE Ran("runtime") /\ alloc' = alloc
    <3>1. worker'.result # "none"
        BY <2>1, <1>5
    <3> QED BY <2>1, <3>1 DEF RunsOn
  <2>2. CASE Ran("none") /\ alloc' = [alloc EXCEPT ![a].live = FALSE]
    <3>1. worker'.result = "none"
        BY <2>2, <1>4
    <3>2. SetAlloc(a, FALSE, alloc[a].made, alloc[a].released)
        BY <2>2, SetLive
    <3> QED BY <3>1, <3>2, <1>8 DEF RunsOn, RunRelease
  <2> QED BY <1>8, <2>1, <2>2 DEF RunRelease
<1> QED BY <1>6, <1>7, <1>8 DEF Run

LEMMA BecomesTyped ==
  ASSUME OpsOK, NEW o \in DOMAIN op, NEW state \in Terminal \union {"queued", "running"},
         NEW error \in Error, NEW cancel \in BOOLEAN, NEW deadline \in {"none", "armed", "past"},
         NEW ran \in BOOLEAN, Becomes(o, state, error, cancel, deadline, ran)
  PROVE  OpsOK' /\ Created' = Created
<1>1. Created' = Created
    BY DEF Becomes, Created
<1>2. op'[o] \in OpRec /\ (op'[o].kind = "close") = (op[o].kind = "close")
    BY DEF Becomes, OpsOK, OpRec
<1>3. ASSUME NEW x \in DOMAIN op'
      PROVE  (op'[x].kind = "close") = (x = Closing) /\ op'[x] \in OpRec
  <2>1. CASE x = o
      BY <2>1, <1>2 DEF OpsOK
  <2>2. CASE x # o
      BY <2>2 DEF Becomes, OpsOK
  <2> QED BY <2>1, <2>2
<1>4. DOMAIN op' = 0..Cardinality(Created') /\ Created' \subseteq Op
    BY <1>1 DEF OpsOK, Becomes
<1> QED BY <1>1, <1>3, <1>4 DEF OpsOK

-----------------------------------------------------------------------------
(* The other steps that change an operation. *)
Begins ==
  LET o == worker.op IN
  /\ worker.pc = "begin" /\ UNCHANGED <<queue, ses, snap, rt, alloc, th>>
  /\ \/ /\ op[o].cancel /\ worker' = Rest
        /\ Becomes(o, "cancelled", "cancelled", op[o].cancel, op[o].deadline, op[o].ran)
     \/ /\ ~op[o].cancel /\ op[o].deadline = "past" /\ worker' = Rest
        /\ Becomes(o, "failed", "timeout", op[o].cancel, op[o].deadline, op[o].ran)
     \/ /\ ~op[o].cancel /\ worker' = [pc |-> "launch", op |-> o, result |-> worker.result]
        /\ Becomes(o, "running", op[o].error, op[o].cancel, op[o].deadline, op[o].ran)

LEMMA BeginShape ==
  ASSUME WorkerOK, worker.op \in DOMAIN op, op[worker.op] \in OpRec, Begin
  PROVE  Begins
<1> DEFINE o == worker.op
<1>1. worker.pc = "begin" /\ UNCHANGED <<queue, ses, snap, rt, alloc, th>>
    BY DEF Begin
<1>2. op[o].cancel \in BOOLEAN
    BY DEF OpRec
<1>3. CASE op[o].cancel
  <2>1. Refused(o, "cancelled", "cancelled")
      BY <1>3 DEF Begin
  <2>2. Becomes(o, "cancelled", "cancelled", op[o].cancel, op[o].deadline, op[o].ran)
      BY <2>1, SetOutcome DEF Refused
  <2> QED BY <2>1, <2>2, <1>1, <1>3 DEF Begins, Refused
<1>4. CASE ~op[o].cancel /\ op[o].deadline = "past"
  <2>1. Refused(o, "failed", "timeout")
      BY <1>4 DEF Begin
  <2>2. Becomes(o, "failed", "timeout", op[o].cancel, op[o].deadline, op[o].ran)
      BY <2>1, SetOutcome DEF Refused
  <2> QED BY <2>1, <2>2, <1>1, <1>4 DEF Begins, Refused
<1>5. CASE ~op[o].cancel /\ op[o].deadline # "past"
  <2>1. /\ op' = [op EXCEPT ![o].state = "running"]
        /\ worker' = [worker EXCEPT !.pc = "launch"]
      BY <1>5 DEF Begin
  <2>2. Becomes(o, "running", op[o].error, op[o].cancel, op[o].deadline, op[o].ran)
      BY <2>1, SetState
  <2>3. worker' = [pc |-> "launch", op |-> o, result |-> worker.result]
      BY <2>1 DEF WorkerOK
  <2> QED BY <2>2, <2>3, <1>1, <1>5 DEF Begins
<1> QED BY <1>2, <1>3, <1>4, <1>5

Finishes ==
  LET o == worker.op IN
  /\ worker.pc = "finish" /\ UNCHANGED <<queue, ses, snap, rt, alloc, th>>
  /\ Becomes(o, IF worker.result = "none" THEN "completed" ELSE "failed", worker.result,
             op[o].cancel, op[o].deadline, op[o].ran)
  /\ worker' = IF o = Closing THEN [pc |-> "stop", op |-> o, result |-> worker.result] ELSE Rest

LEMMA FinishShape ==
  ASSUME WorkerOK, worker.op \in DOMAIN op, op[worker.op] \in OpRec, Finish
  PROVE  Finishes
<1> DEFINE o == worker.op
           state == IF worker.result = "none" THEN "completed" ELSE "failed"
<1>1. op' = [op EXCEPT ![o].state = state, ![o].error = worker.result]
    BY DEF Finish
<1> HIDE DEF state
<1>2. Becomes(o, state, worker.result, op[o].cancel, op[o].deadline, op[o].ran)
    BY <1>1, SetOutcome
<1>3. worker' = IF o = Closing THEN [pc |-> "stop", op |-> o, result |-> worker.result] ELSE Rest
    BY DEF Finish, WorkerOK
<1>4. worker.pc = "finish" /\ UNCHANGED <<queue, ses, snap, rt, alloc, th>>
    BY DEF Finish
<1> QED BY <1>2, <1>3, <1>4 DEF Finishes, state

Shuts ==
  /\ worker.pc = "launch" /\ worker.op = Closing /\ UNCHANGED <<queue, ses, snap, th>>
  /\ Becomes(Closing, op[Closing].state, op[Closing].error, op[Closing].cancel,
             op[Closing].deadline, TRUE)
  /\ rt' \in RtRec /\ rt'.state = "closed" /\ (rt'.unknown => rt'.cuda = "abandoned")
  /\ \E r \in Error : worker' = [pc |-> "publish", op |-> Closing, result |-> r]
  /\ alloc' \in [Alloc -> AllocRec]
  /\ \A a \in Alloc : /\ ~alloc'[a].live /\ alloc'[a].made = alloc[a].made
                      /\ alloc'[a].released = alloc[a].released

LEMMA ShutDownShape ==
  ASSUME WorkerOK, rt \in RtRec, alloc \in [Alloc -> AllocRec], Closing \in DOMAIN op,
         op[Closing] \in OpRec, ShutDown
  PROVE  Shuts
<1>1. Becomes(Closing, op[Closing].state, op[Closing].error, op[Closing].cancel,
              op[Closing].deadline, TRUE)
    BY SetRan DEF ShutDown
<1>2. PICK unknown \in {rt.unknown, TRUE}, result \in {"none", "runtime", "cublas"} :
        /\ rt' = [state |-> "closed", unknown |-> unknown,
                  cublas |-> CublasAfter(rt.unknown),
                  cuda |-> IF rt.unknown \/ unknown THEN "abandoned" ELSE "loaded"]
        /\ worker' = [worker EXCEPT !.pc = "publish", !.result = result]
    BY DEF ShutDown
<1>3. /\ worker.pc = "launch" /\ worker.op = Closing /\ UNCHANGED <<queue, ses, snap, th>>
      /\ alloc' = [a \in Alloc |-> [alloc[a] EXCEPT !.live = FALSE]]
    BY DEF ShutDown
<1>4. worker' = [pc |-> "publish", op |-> Closing, result |-> result] /\ result \in Error
    BY <1>2, <1>3 DEF WorkerOK, Error
<1>5. rt' \in RtRec /\ rt'.state = "closed" /\ (rt'.unknown => rt'.cuda = "abandoned")
  <2>1. rt.unknown \in BOOLEAN /\ unknown \in BOOLEAN
      BY <1>2 DEF RtRec
  <2>2. CublasAfter(rt.unknown) \in {"absent", "ready", "destroyed", "abandoned"}
      BY DEF CublasAfter
  <2> HIDE DEF CublasAfter
  <2> QED BY <1>2, <2>1, <2>2 DEF RtRec
<1>6. /\ alloc' \in [Alloc -> AllocRec]
      /\ \A a \in Alloc : /\ ~alloc'[a].live /\ alloc'[a].made = alloc[a].made
                          /\ alloc'[a].released = alloc[a].released
    BY <1>3 DEF AllocRec
<1> QED BY <1>1, <1>3, <1>4, <1>5, <1>6 DEF Shuts
Submits(t) ==
  LET o == Cardinality(Created) + 1 IN
  /\ th[t].pc = "submit" /\ ~ses.closing
  /\ o \notin DOMAIN op /\ o \in Op /\ DOMAIN op' = DOMAIN op \union {o}
  /\ Created' = Created \union {o}
  /\ \A x \in DOMAIN op : op'[x] = op[x]
  /\ op'[o] \in OpRec /\ op'[o].kind = th[t].call /\ op'[o].alloc = th[t].alloc
  /\ op'[o].state = "queued" /\ ~op'[o].cancel /\ ~op'[o].ran /\ op'[o].error = "none"
  /\ op'[o].caller = t
  /\ queue' = Append(queue, o)
  /\ th' = [th EXCEPT ![t] = IF th[t].call \in AsyncKinds THEN Idle
                             ELSE [th[t] EXCEPT !.pc = "wait", !.op = o]]
  /\ UNCHANGED <<ses, worker, snap, rt, alloc>>

LEMMA SubmitShape ==
  ASSUME SessionAssumption, TypeOK, Counted, CallsTyped, NEW t \in Thread, Submit(t)
  PROVE  Submits(t) /\ OpsOK'
<1> DEFINE n == Cardinality(Created)
           o == n + 1
<1>1. /\ OpsOK /\ CallsOK /\ n \in Nat /\ Created = 1..n /\ DOMAIN op = 0..n
    BY TypeParts, Numbers DEF OpsOK
<1>2. PICK d \in {"none", "armed"} : op' = With(o, NewOp(th[t].call, th[t].alloc, d, t))
    BY DEF Submit
<1>3. /\ th[t].pc = "submit" /\ ~ses.closing /\ queue' = Append(queue, o)
      /\ th' = [th EXCEPT ![t] = IF th[t].call \in AsyncKinds THEN Idle
                                 ELSE [th[t] EXCEPT !.pc = "wait", !.op = o]]
      /\ UNCHANGED <<ses, worker, snap, rt, alloc>>
    BY DEF Submit
<1>4. o \in Op /\ o \notin DOMAIN op
  <2>1. t \in Submitters
      BY <1>3 DEF Submitters
  <2>2. Cardinality(Submitters) \in Nat /\ Cardinality(Submitters) # 0
      BY <2>1, FS_CardinalityType, FS_EmptySet DEF Counted
  <2>3. n + Cardinality(Submitters) <= MaxOps /\ MaxOps \in Nat
      BY DEF Counted, SessionAssumption
  <2> QED BY <2>2, <2>3, <1>1 DEF Op
<1> DEFINE new == NewOp(th[t].call, th[t].alloc, d, t)
<1>5. th[t].call \in Kind /\ th[t].alloc \in Alloc \union {NoAlloc}
    BY <1>3, <1>1 DEF CallsTyped, CallsOK, SessionAssumption, Kind
<1>6. /\ new \in OpRec /\ new.kind = th[t].call /\ new.alloc = th[t].alloc
      /\ new.state = "queued" /\ ~new.cancel /\ ~new.ran /\ new.error = "none"
      /\ new.caller = t
    BY <1>5 DEF NewOp, OpRec, Error
<1> HIDE DEF new
<1>7. /\ DOMAIN op' = DOMAIN op \union {o} /\ op'[o] = new
      /\ \A x \in DOMAIN op : op'[x] = op[x]
    BY <1>2, <1>4 DEF With, new
<1>8. Created' = Created \union {o}
    BY <1>7, <1>4 DEF Created, Op, Closing
<1>9. Submits(t)
    BY <1>3, <1>4, <1>6, <1>7, <1>8 DEF Submits
<1>10. DOMAIN op' = 0..Cardinality(Created') /\ Created' \subseteq Op
  <2>1. IsFiniteSet(Created) /\ o \notin Created
      BY <1>1, <1>4, Numbers DEF Created
  <2>2. Cardinality(Created') = n + 1
      BY <2>1, <1>8, FS_AddElement
  <2>3. DOMAIN op' = 0..n + 1
      BY <1>1, <1>7
  <2> QED BY <2>2, <2>3, <1>8, <1>4, <1>1 DEF OpsOK
<1>11. ASSUME NEW x \in DOMAIN op'
       PROVE  (op'[x].kind = "close") = (x = Closing) /\ op'[x] \in OpRec
  <2>1. CASE x = o
    <3>1. th[t].call # "close" /\ o # Closing
        BY <1>5, <1>4 DEF Kind, Op, Closing
    <3> QED BY <3>1, <2>1, <1>6, <1>7
  <2>2. CASE x # o
      BY <2>2, <1>7, <1>1 DEF OpsOK
  <2> QED BY <2>1, <2>2
<1> QED BY <1>9, <1>10, <1>11 DEF OpsOK

Quiet == UNCHANGED op

LEMMA QuietTyped ==
  ASSUME OpsOK, Quiet
  PROVE  OpsOK' /\ Created' = Created /\ DOMAIN op' = DOMAIN op
BY DEF OpsOK, Quiet, Created
(* A client begins a call. *)
Fresh(t, call, a, timed) ==
  th' = [th EXCEPT ![t] = [pc |-> "submit", call |-> call, alloc |-> a, op |-> NoOp,
                           timed |-> timed, cleanup |-> "none"]]
Ask(t) ==
  \/ CallDrain(t)
  \/ \E a \in Alloc : CallAllocate(t, a) \/ CallRelease(t, a)
  \/ \E a \in Alloc, call \in AsyncKinds \union SyncKinds : Call(t, call, a)
AsksFor(t, call, a, timed) ==
  /\ Fresh(t, call, a, timed) /\ (timed => call = "drain") /\ (call \in Borrowing => a \in Alloc)
  /\ IF call = "allocate"
     THEN ~alloc[a].made /\ ~alloc[a].live /\ \A s \in Thread : th[s].alloc # a
     ELSE a \in Alloc => /\ alloc[a].made
                        /\ \A s \in Thread : th[s].alloc = a => th[s].call # "allocate"
  /\ IF call = "release" THEN SetAlloc(a, alloc[a].live, alloc[a].made, TRUE) ELSE alloc' = alloc
Asks(t) ==
  /\ MayCall(t) /\ UNCHANGED <<op, queue, ses, worker, snap, rt>>
  /\ \E call \in AsyncKinds \union SyncKinds, a \in Alloc \union {NoAlloc}, timed \in BOOLEAN :
       AsksFor(t, call, a, timed)

LEMMA IdleRecord ==
  Idle \in [pc : {"idle"}, call : {"none"}, alloc : {NoAlloc}, op : {NoOp}, timed : BOOLEAN,
           cleanup : {"none"}]
BY DEF Idle

LEMMA AskRecord ==
  ASSUME NEW t \in Thread, NEW call \in AsyncKinds \union SyncKinds, NEW a \in Alloc,
         th' = [th EXCEPT ![t] = [Idle EXCEPT !.pc = "submit", !.call = call, !.alloc = a]]
  PROVE  Fresh(t, call, a, FALSE)
<1>1. PICK r : r = [Idle EXCEPT !.pc = "submit", !.call = call, !.alloc = a]
    OBVIOUS
<1>2. r = [pc |-> "submit", call |-> call, alloc |-> a, op |-> NoOp,
           timed |-> FALSE, cleanup |-> "none"]
    BY <1>1, IdleRecord DEF Idle
<1>3. th' = [th EXCEPT ![t] = r]
    BY <1>1
<1> QED BY <1>2, <1>3 DEF Fresh

LEMMA AskShape ==
  ASSUME SessionAssumption, alloc \in [Alloc -> AllocRec], NEW t \in Thread, Ask(t)
  PROVE  Asks(t)
<1>1. MayCall(t) /\ UNCHANGED <<op, queue, ses, worker, snap, rt>>
    BY DEF Ask, CallDrain, CallAllocate, CallRelease, Call
<1> SUFFICES \E call \in AsyncKinds \union SyncKinds, a \in Alloc \union {NoAlloc},
                timed \in BOOLEAN : AsksFor(t, call, a, timed)
    BY <1>1 DEF Asks
<1>2. CASE CallDrain(t)
  <2>1. PICK timed \in BOOLEAN :
          th' = [th EXCEPT ![t] = [Idle EXCEPT !.pc = "submit", !.call = "drain", !.timed = timed]]
      BY <1>2 DEF CallDrain
  <2>2. Fresh(t, "drain", NoAlloc, timed) /\ "drain" \in SyncKinds /\ alloc' = alloc
      BY <1>2, <2>1 DEF Fresh, Idle, CallDrain
  <2>3. NoAlloc \notin Alloc
      BY DEF SessionAssumption
  <2>4. AsksFor(t, "drain", NoAlloc, timed)
      BY <2>2, <2>3 DEF AsksFor, Borrowing
  <2> QED BY <2>2, <2>4
<1>3. ASSUME NEW a \in Alloc, CallAllocate(t, a)
      PROVE  \E call \in AsyncKinds \union SyncKinds, timed \in BOOLEAN : AsksFor(t, call, a, timed)
  <2>1. Fresh(t, "allocate", a, FALSE) /\ "allocate" \in SyncKinds /\ alloc' = alloc
    <3>1. /\ th' = [th EXCEPT ![t] = [Idle EXCEPT !.pc = "submit", !.call = "allocate", !.alloc = a]]
          /\ "allocate" \in SyncKinds /\ alloc' = alloc
        BY <1>3 DEF CallAllocate
    <3> QED BY <3>1, AskRecord
  <2>2. ~alloc[a].made /\ ~alloc[a].live /\ \A s \in Thread : th[s].alloc # a
      BY <1>3 DEF CallAllocate
  <2>3. AsksFor(t, "allocate", a, FALSE)
      BY <2>1, <2>2 DEF AsksFor
  <2> QED BY <2>1, <2>3
<1>4. ASSUME NEW a \in Alloc, CallRelease(t, a)
      PROVE  \E call \in AsyncKinds \union SyncKinds, timed \in BOOLEAN : AsksFor(t, call, a, timed)
  <2>1. Fresh(t, "release", a, FALSE) /\ "release" \in SyncKinds
    <3>1. /\ th' = [th EXCEPT ![t] = [Idle EXCEPT !.pc = "submit", !.call = "release", !.alloc = a]]
          /\ "release" \in SyncKinds
        BY <1>4 DEF CallRelease
    <3> QED BY <3>1, AskRecord
  <2>2. alloc[a].made /\ \A s \in Thread : th[s].alloc = a => th[s].call # "allocate"
      BY <1>4 DEF CallRelease, Usable
  <2>3. SetAlloc(a, alloc[a].live, alloc[a].made, TRUE)
      BY <1>4, SetReleased DEF CallRelease
  <2>4. AsksFor(t, "release", a, FALSE)
      BY <2>1, <2>2, <2>3 DEF AsksFor
  <2> QED BY <2>1, <2>4
<1>5. ASSUME NEW a \in Alloc, NEW call \in AsyncKinds \union SyncKinds, Call(t, call, a)
      PROVE  AsksFor(t, call, a, FALSE)
  <2>1. /\ call \in AsyncKinds \union (SyncKinds \intersect {"access", "plan"})
        /\ Usable(a) /\ alloc' = alloc
        /\ th' = [th EXCEPT ![t] = [Idle EXCEPT !.pc = "submit", !.call = call, !.alloc = a]]
      BY <1>5 DEF Call
  <2>2. Fresh(t, call, a, FALSE)
      BY <2>1, AskRecord
  <2>3. call \notin {"allocate", "release"}
      BY <2>1 DEF SessionAssumption
  <2>4. alloc[a].made /\ \A s \in Thread : th[s].alloc = a => th[s].call # "allocate"
      BY <2>1 DEF Usable
  <2> QED BY <2>1, <2>2, <2>3, <2>4 DEF AsksFor
<1> QED BY <1>2, <1>3, <1>4, <1>5 DEF Ask

-----------------------------------------------------------------------------
Setup == SetupSucceeds \/ SetupFails \/ UndoSetup \/ StartFails
Leave == Stop \/ LeaveLoop \/ SignalExit
Client(t) ==
  \/ Submit(t) \/ SubmitRefused(t) \/ Return(t) \/ HandleFails(t) \/ TimeOut(t) \/ Ask(t)
Closer(t) ==
  \/ CallClose(t) \/ CloseServed(t) \/ CloseTimesOut(t) \/ ClaimJoin(t) \/ Join(t)
  \/ CloseReturns(t)

LEMMA Cases ==
  ASSUME Next
  PROVE  \/ Setup \/ Take \/ Begin \/ Launch \/ Run \/ ShutDown \/ Publish \/ Finish \/ Leave
         \/ \E t \in Thread : Client(t) \/ Closer(t)
         \/ \E o \in Op : Cancel(o) \/ DeadlinePasses(o)
<1>1. CASE WorkerStep
    BY <1>1 DEF WorkerStep, Setup, Leave, Run
<1>2. ASSUME NEW t \in Thread,
             \/ Waiting(t) \/ TimeOut(t) \/ CloseTimesOut(t) \/ CallClose(t) \/ CallDrain(t)
             \/ \E a \in Alloc : CallAllocate(t, a) \/ CallRelease(t, a)
             \/ \E a \in Alloc, call \in AsyncKinds \union SyncKinds : Call(t, call, a)
      PROVE  Client(t) \/ Closer(t)
    BY <1>2 DEF Waiting, Client, Closer, Ask
<1> QED BY <1>1, <1>2 DEF Next

-----------------------------------------------------------------------------
(* Types. *)
ThRec(ops) ==
  [pc : {"idle", "submit", "wait", "closing", "exiting", "join", "closed"},
   call : Kind \union {"none", "close"}, alloc : Alloc \union {NoAlloc},
   op : ops \union {NoOp}, timed : BOOLEAN, cleanup : Error]

LEMMA CallsTypedAs == CallsOK <=> th \in [Thread -> ThRec(DOMAIN op)]
BY DEF CallsOK, ThRec

LEMMA SetCall ==
  ASSUME CallsOK, DOMAIN op \subseteq DOMAIN op', NEW t \in Thread, NEW new \in ThRec(DOMAIN op'),
         th' = [th EXCEPT ![t] = new]
  PROVE  CallsOK'
<1>1. th \in [Thread -> ThRec(DOMAIN op')]
    BY DEF CallsOK, ThRec
<1>2. th' \in [Thread -> ThRec(DOMAIN op')]
    BY <1>1
<1> QED BY <1>2 DEF CallsOK, ThRec

LEMMA IdleTyped == Idle \in ThRec(DOMAIN op)
BY DEF Idle, ThRec, Error

LEMMA RestTyped == NoOp \in DOMAIN op \union {NoOp} /\ Rest = [pc |-> "wait", op |-> NoOp, result |-> "none"]
BY DEF Rest

LEMMA SetupTyped ==
  ASSUME TypeOK, Setup
  PROVE  TypeOK'
<1> USE TypeParts
<1>1. OpsOK' /\ Created' = Created /\ DOMAIN op' = DOMAIN op /\ UNCHANGED <<queue, snap, alloc, th>>
    BY QuietTyped DEF Setup, SetupSucceeds, SetupFails, UndoSetup, StartFails, Quiet
<1>2. CallsOK' /\ queue' \in Seq(Created') /\ snap' \subseteq DOMAIN op'
      /\ alloc' \in [Alloc -> AllocRec]
    BY <1>1 DEF CallsOK
<1>3. ses' \in SesRec
    BY DEF Setup, SetupSucceeds, SetupFails, UndoSetup, StartFails, SesRec
<1>4. WorkerOK'
    BY <1>1 DEF Setup, SetupSucceeds, SetupFails, UndoSetup, StartFails, WorkerOK, Rest, Error
<1>5. rt' \in RtRec
    BY DEF Setup, SetupSucceeds, SetupFails, UndoSetup, StartFails, RtRec, InitializeCublas
<1> QED BY <1>1, <1>2, <1>3, <1>4, <1>5, TypePartsNext

LEMMA ServeTyped ==
  ASSUME TypeOK, Served, SessionAssumption,
         Take \/ Begin \/ Launch \/ Run \/ ShutDown \/ Publish \/ Finish \/ Leave
  PROVE  TypeOK'
<1> USE TypeParts
<1>1. worker.pc \notin Away => worker.op \in DOMAIN op /\ op[worker.op] \in OpRec
    BY DEF Served, WorkerOK, OpsOK
<1>2. Closing \in DOMAIN op /\ op[Closing] \in OpRec
    BY Numbers DEF OpsOK
<1>3. CASE Take
  <2>1. OpsOK' /\ Created' = Created /\ DOMAIN op' = DOMAIN op /\ UNCHANGED <<snap, rt, alloc, th>>
      BY <1>3, QuietTyped DEF Take, Quiet
  <2>2. /\ queue' \in Seq(Created) /\ ses' \in SesRec
        /\ \E o \in DOMAIN op : worker' = [pc |-> "begin", op |-> o, result |-> "none"]
    <3>1. CASE /\ queue # << >> /\ Serve(Head(queue)) /\ queue' = Tail(queue) /\ ses' = ses
      <4>1. Head(queue) \in Created /\ Tail(queue) \in Seq(Created)
          BY <3>1
      <4>2. Head(queue) \in DOMAIN op
          BY <4>1 DEF Created
      <4> QED BY <3>1, <4>1, <4>2 DEF Serve
    <3>2. CASE /\ Serve(Closing) /\ queue' = queue /\ ses' = [ses EXCEPT !.closeRequested = FALSE]
        BY <3>2, <1>2 DEF Serve, SesRec
    <3> QED BY <1>3, <3>1, <3>2 DEF Take
  <2>3. WorkerOK'
      BY <2>1, <2>2 DEF WorkerOK, Error
  <2>4. CallsOK' /\ queue' \in Seq(Created') /\ snap' \subseteq DOMAIN op'
        /\ alloc' \in [Alloc -> AllocRec] /\ rt' \in RtRec
      BY <2>1, <2>2 DEF CallsOK
  <2> QED BY <2>1, <2>2, <2>3, <2>4, TypePartsNext
<1>4. CASE Begin
  <2>1. worker.pc = "begin" /\ worker.op \in DOMAIN op /\ op[worker.op] \in OpRec
      BY <1>4, <1>1 DEF Begin, Away
  <2>2. Begins
      BY <1>4, <2>1, BeginShape
  <2>3. PICK state \in {"cancelled", "failed", "running"}, error \in Error :
          Becomes(worker.op, state, error, op[worker.op].cancel, op[worker.op].deadline, op[worker.op].ran)
      BY <2>1, <2>2 DEF Begins, OpRec, Error
  <2>4. OpsOK' /\ Created' = Created /\ DOMAIN op' = DOMAIN op
      BY <2>1, <2>3, BecomesTyped DEF Becomes, OpRec, Terminal
  <2>5. UNCHANGED <<queue, ses, snap, rt, alloc, th>>
      BY <2>2 DEF Begins
  <2>6. WorkerOK'
      BY <2>2, <2>4, <2>1 DEF Begins, WorkerOK, Rest, Error
  <2>7. CallsOK' /\ queue' \in Seq(Created') /\ snap' \subseteq DOMAIN op'
      BY <2>4, <2>5 DEF CallsOK
  <2> QED BY <2>4, <2>5, <2>6, <2>7, TypePartsNext
<1>5. CASE Launch
  <2>1. OpsOK' /\ Created' = Created /\ DOMAIN op' = DOMAIN op
        /\ UNCHANGED <<queue, ses, snap, rt, alloc, th>>
      BY <1>5, QuietTyped DEF Launch, Quiet
  <2>2. WorkerOK'
      BY <1>5, <2>1 DEF Launch, WorkerOK, Error
  <2>3. CallsOK' /\ queue' \in Seq(Created') /\ snap' \subseteq DOMAIN op'
      BY <2>1 DEF CallsOK
  <2> QED BY <2>1, <2>2, <2>3, TypePartsNext
<1>6. CASE Run
  <2>1. worker.pc = "act"
      BY <1>6 DEF Run, RunTransaction, RunGemm, RunAccess, RunPlan, RunAllocate, RunRelease
  <2>2. worker.op \in DOMAIN op /\ op[worker.op] \in OpRec
      BY <2>1, <1>1 DEF Away
  <2>3. Runs /\ RunsOn
      BY <1>6, <2>2, RunShape
  <2>4. Becomes(worker.op, op[worker.op].state, op[worker.op].error, op[worker.op].cancel,
                op[worker.op].deadline, TRUE)
      BY <2>3 DEF Runs
  <2>5. OpsOK' /\ Created' = Created /\ DOMAIN op' = DOMAIN op
      BY <2>2, <2>4, BecomesTyped DEF Becomes, OpRec
  <2>6. rt' \in RtRec /\ UNCHANGED <<queue, ses, snap, th>>
      BY <2>3 DEF Runs
  <2>7. alloc' \in [Alloc -> AllocRec]
      BY <2>3 DEF RunsOn, SetAlloc
  <2>8. WorkerOK'
      BY <2>2, <2>3, <2>5 DEF Runs, WorkerOK
  <2>9. CallsOK' /\ queue' \in Seq(Created') /\ snap' \subseteq DOMAIN op'
      BY <2>5, <2>6 DEF CallsOK
  <2> QED BY <2>5, <2>6, <2>7, <2>8, <2>9, TypePartsNext
<1>7. CASE ShutDown
  <2>1. Shuts
      BY <1>7, <1>2, ShutDownShape
  <2>2. OpsOK' /\ Created' = Created /\ DOMAIN op' = DOMAIN op
    <3>1. Becomes(Closing, op[Closing].state, op[Closing].error, op[Closing].cancel,
                  op[Closing].deadline, TRUE)
        BY <2>1 DEF Shuts
    <3> QED BY <3>1, <1>2, BecomesTyped DEF Becomes, OpRec
  <2>3. WorkerOK'
      BY <2>1, <2>2, <1>2 DEF Shuts, WorkerOK
  <2>4. /\ CallsOK' /\ queue' \in Seq(Created') /\ snap' \subseteq DOMAIN op' /\ ses' \in SesRec
        /\ rt' \in RtRec /\ alloc' \in [Alloc -> AllocRec]
      BY <2>1, <2>2 DEF CallsOK, Shuts
  <2> QED BY <2>2, <2>3, <2>4, TypePartsNext
<1>8. CASE Publish
  <2>1. OpsOK' /\ Created' = Created /\ DOMAIN op' = DOMAIN op
        /\ UNCHANGED <<queue, ses, rt, alloc, th>>
      BY <1>8, QuietTyped DEF Publish, Quiet
  <2>2. WorkerOK' /\ snap' \subseteq DOMAIN op'
      BY <1>8, <2>1 DEF Publish, WorkerOK
  <2>3. CallsOK' /\ queue' \in Seq(Created')
      BY <2>1 DEF CallsOK
  <2> QED BY <2>1, <2>2, <2>3, TypePartsNext
<1>9. CASE Finish
  <2>1. worker.pc = "finish" /\ worker.op \in DOMAIN op /\ op[worker.op] \in OpRec
      BY <1>9, <1>1 DEF Finish, Away
  <2>2. Finishes
      BY <1>9, <2>1, FinishShape
  <2>3. PICK state \in {"completed", "failed"} :
          Becomes(worker.op, state, worker.result, op[worker.op].cancel, op[worker.op].deadline,
                  op[worker.op].ran)
      BY <2>2 DEF Finishes
  <2>4. worker.result \in Error
      BY DEF WorkerOK
  <2>5. OpsOK' /\ Created' = Created /\ DOMAIN op' = DOMAIN op
      BY <2>1, <2>3, <2>4, BecomesTyped DEF Becomes, OpRec, Terminal
  <2>6. UNCHANGED <<queue, ses, snap, rt, alloc, th>>
      BY <2>2 DEF Finishes
  <2>7. WorkerOK'
      BY <2>2, <2>4, <2>5, <2>1 DEF Finishes, WorkerOK, Rest, Error
  <2>8. CallsOK' /\ queue' \in Seq(Created') /\ snap' \subseteq DOMAIN op'
      BY <2>5, <2>6 DEF CallsOK
  <2> QED BY <2>5, <2>6, <2>7, <2>8, TypePartsNext
<1>10. CASE Leave
  <2>1. OpsOK' /\ Created' = Created /\ DOMAIN op' = DOMAIN op
        /\ UNCHANGED <<queue, snap, rt, alloc, th>>
      BY <1>10, QuietTyped DEF Leave, Stop, LeaveLoop, SignalExit, Quiet
  <2>2. WorkerOK' /\ ses' \in SesRec
    <3>1. CASE Stop
        BY <3>1, <2>1 DEF Stop, WorkerOK, Rest, Error, SesRec
    <3>2. CASE LeaveLoop
        BY <3>2, <2>1 DEF LeaveLoop, WorkerOK
    <3>3. CASE SignalExit
        BY <3>3, <2>1 DEF SignalExit, WorkerOK, SesRec
    <3> QED BY <1>10, <3>1, <3>2, <3>3 DEF Leave
  <2>3. CallsOK' /\ queue' \in Seq(Created') /\ snap' \subseteq DOMAIN op'
      BY <2>1 DEF CallsOK
  <2> QED BY <2>1, <2>2, <2>3, TypePartsNext
<1> QED BY <1>3, <1>4, <1>5, <1>6, <1>7, <1>8, <1>9, <1>10

LEMMA ClientTyped ==
  ASSUME SessionAssumption, TypeOK, Counted, CallsTyped, NEW t \in Thread, Client(t)
  PROVE  TypeOK'
<1> USE TypeParts
<1>1. th[t] \in ThRec(DOMAIN op) /\ Idle \in ThRec(DOMAIN op)
    BY IdleTyped DEF CallsOK, ThRec
<1>2. ASSUME UNCHANGED <<op, queue, ses, worker, snap, rt>>, alloc' \in [Alloc -> AllocRec],
             NEW new \in ThRec(DOMAIN op), th' = [th EXCEPT ![t] = new]
      PROVE  TypeOK'
  <2>1. OpsOK' /\ Created' = Created /\ DOMAIN op' = DOMAIN op
      BY <1>2, QuietTyped DEF Quiet
  <2>2. CallsOK'
      BY <1>2, <2>1, SetCall
  <2>3. WorkerOK' /\ queue' \in Seq(Created') /\ snap' \subseteq DOMAIN op'
      BY <1>2, <2>1 DEF WorkerOK
  <2> QED BY <1>2, <2>1, <2>2, <2>3, TypePartsNext
<1>3. CASE Submit(t)
  <2>1. Submits(t) /\ OpsOK'
      BY <1>3, SubmitShape
  <2> DEFINE o == Cardinality(Created) + 1
  <2>2. /\ o \in Created' /\ Created \subseteq Created' /\ DOMAIN op \subseteq DOMAIN op'
        /\ o \in DOMAIN op' /\ queue' = Append(queue, o)
      BY <2>1 DEF Submits
  <2>3. UNCHANGED <<ses, worker, snap, rt, alloc>>
      BY <2>1 DEF Submits
  <2>4. th' = [th EXCEPT ![t] = IF th[t].call \in AsyncKinds THEN Idle
                               ELSE [th[t] EXCEPT !.pc = "wait", !.op = o]]
      BY <2>1 DEF Submits
  <2> HIDE DEF o
  <2>5. queue' \in Seq(Created')
    <3>1. queue \in Seq(Created')
        BY <2>2
    <3> QED BY <2>2, <3>1
  <2>6. CallsOK'
    <3>1. Idle \in ThRec(DOMAIN op')
        BY <1>1, <2>2 DEF ThRec
    <3>2. [th[t] EXCEPT !.pc = "wait", !.op = o] \in ThRec(DOMAIN op')
        BY <1>1, <2>2 DEF ThRec
    <3> QED BY <2>2, <2>4, <3>1, <3>2, SetCall
  <2>7. WorkerOK' /\ snap' \subseteq DOMAIN op'
      BY <2>2, <2>3 DEF WorkerOK
  <2> QED BY <2>1, <2>3, <2>5, <2>6, <2>7, TypePartsNext
<1>4. CASE SubmitRefused(t)
    BY <1>1, <1>2, <1>4 DEF SubmitRefused
<1>5. CASE Return(t)
  <2>1. alloc' \in [Alloc -> AllocRec]
      BY <1>5 DEF Return, AllocRec
  <2> QED BY <1>1, <1>2, <1>5, <2>1 DEF Return
<1>6. CASE HandleFails(t)
  <2>1. alloc' \in [Alloc -> AllocRec]
      BY <1>6 DEF HandleFails, AllocRec
  <2>2. PICK r : r = [Idle EXCEPT !.pc = "submit", !.call = "release", !.alloc = th[t].alloc]
      OBVIOUS
  <2>3. r \in ThRec(DOMAIN op)
      BY <1>1, <2>2 DEF ThRec, Kind
  <2> QED BY <1>2, <1>6, <2>1, <2>2, <2>3 DEF HandleFails
<1>7. CASE TimeOut(t)
    BY <1>1, <1>2, <1>7 DEF TimeOut
<1>8. CASE Ask(t)
  <2>1. Asks(t)
      BY <1>8, AskShape
  <2>2. PICK call \in AsyncKinds \union SyncKinds, a \in Alloc \union {NoAlloc}, timed \in BOOLEAN :
          AsksFor(t, call, a, timed)
      BY <2>1 DEF Asks
  <2>3. UNCHANGED <<op, queue, ses, worker, snap, rt>>
      BY <2>1 DEF Asks
  <2>4. alloc' \in [Alloc -> AllocRec]
      BY <2>2 DEF AsksFor, SetAlloc
  <2>5. [pc |-> "submit", call |-> call, alloc |-> a, op |-> NoOp,
         timed |-> timed, cleanup |-> "none"] \in ThRec(DOMAIN op)
      BY DEF ThRec, SessionAssumption, Kind, Error
  <2> QED BY <1>2, <2>2, <2>3, <2>4, <2>5 DEF AsksFor, Fresh
<1> QED BY <1>3, <1>4, <1>5, <1>6, <1>7, <1>8 DEF Client

LEMMA CloserTyped ==
  ASSUME SessionAssumption, TypeOK, NEW t \in Thread, Closer(t)
  PROVE  TypeOK'
<1> USE TypeParts
<1>1. th[t] \in ThRec(DOMAIN op) /\ Idle \in ThRec(DOMAIN op)
    BY IdleTyped DEF CallsOK, ThRec
<1>2. /\ UNCHANGED <<op, queue, worker, snap, rt, alloc>> /\ ses' \in SesRec
      /\ \E new \in ThRec(DOMAIN op) : th' = [th EXCEPT ![t] = new]
  <2>1. CASE CallClose(t)
    <3>1. PICK timed \in BOOLEAN :
            th' = [th EXCEPT ![t] = [Idle EXCEPT !.call = "close", !.timed = timed,
                                       !.pc = IF ses.setup = "done" THEN "closing" ELSE "exiting"]]
        BY <2>1 DEF CallClose
    <3>2. PICK r : r = [Idle EXCEPT !.call = "close", !.timed = timed,
                                       !.pc = IF ses.setup = "done" THEN "closing" ELSE "exiting"]
        OBVIOUS
    <3>3. r \in ThRec(DOMAIN op)
        BY <1>1, <3>2 DEF ThRec
    <3>4. ses' \in SesRec
        BY <2>1 DEF CallClose, SesRec
    <3> QED BY <2>1, <3>1, <3>2, <3>3, <3>4 DEF CallClose
  <2>2. CASE CloseServed(t)
    <3>1. Closing \in DOMAIN op /\ op[Closing].error \in Error
        BY Numbers DEF OpsOK, OpRec
    <3>2. PICK r : r = [th[t] EXCEPT !.pc = "exiting", !.cleanup = op[Closing].error]
        OBVIOUS
    <3>3. r \in ThRec(DOMAIN op)
        BY <1>1, <3>1, <3>2 DEF ThRec
    <3>4. th' = [th EXCEPT ![t] = r]
        BY <2>2, <3>2 DEF CloseServed, CallsOK
    <3> QED BY <2>2, <3>3, <3>4 DEF CloseServed
  <2>3. CASE CloseTimesOut(t)
      BY <2>3, <1>1 DEF CloseTimesOut
  <2>4. CASE ClaimJoin(t)
    <3>1. PICK r : r = [th[t] EXCEPT !.pc = IF ses.joinClaimed THEN "closed" ELSE "join"]
        OBVIOUS
    <3>2. r \in ThRec(DOMAIN op)
        BY <1>1, <3>1 DEF ThRec
    <3>3. ses' \in SesRec
        BY <2>4 DEF ClaimJoin, SesRec
    <3> QED BY <2>4, <3>1, <3>2, <3>3 DEF ClaimJoin
  <2>5. CASE Join(t)
    <3>1. PICK r : r = [th[t] EXCEPT !.pc = "closed"]
        OBVIOUS
    <3>2. r \in ThRec(DOMAIN op)
        BY <1>1, <3>1 DEF ThRec
    <3> QED BY <2>5, <3>1, <3>2 DEF Join
  <2>6. CASE CloseReturns(t)
    <3>1. ses' \in SesRec
        BY <2>6 DEF CloseReturns, SesRec
    <3> QED BY <2>6, <1>1, <3>1 DEF CloseReturns
  <2> QED BY <2>1, <2>2, <2>3, <2>4, <2>5, <2>6 DEF Closer
<1>3. OpsOK' /\ Created' = Created /\ DOMAIN op' = DOMAIN op
    BY <1>2, QuietTyped DEF Quiet
<1>4. CallsOK'
    BY <1>2, <1>3, SetCall
<1>5. /\ WorkerOK' /\ queue' \in Seq(Created') /\ snap' \subseteq DOMAIN op'
      /\ rt' \in RtRec /\ alloc' \in [Alloc -> AllocRec]
    BY <1>2, <1>3 DEF WorkerOK
<1> QED BY <1>2, <1>3, <1>4, <1>5, TypePartsNext

LEMMA HolderTyped ==
  ASSUME SessionAssumption, TypeOK, NEW o \in Op, Cancel(o) \/ DeadlinePasses(o)
  PROVE  TypeOK'
<1> USE TypeParts
<1>1. o \in DOMAIN op /\ op[o] \in OpRec /\ UNCHANGED <<queue, ses, worker, snap, rt, alloc, th>>
    BY DEF Cancel, DeadlinePasses, Created, OpsOK
<1>2. PICK cancel \in BOOLEAN, deadline \in {"none", "armed", "past"} :
        Becomes(o, op[o].state, op[o].error, cancel, deadline, op[o].ran)
    BY <1>1, SetCancel, SetDeadline DEF Cancel, DeadlinePasses, OpRec
<1>3. OpsOK' /\ Created' = Created /\ DOMAIN op' = DOMAIN op
    BY <1>1, <1>2, BecomesTyped DEF Becomes, OpRec
<1>4. /\ WorkerOK' /\ CallsOK' /\ queue' \in Seq(Created') /\ snap' \subseteq DOMAIN op'
    BY <1>1, <1>3 DEF WorkerOK, CallsOK
<1> QED BY <1>1, <1>3, <1>4, TypePartsNext

LEMMA TypeStep ==
  ASSUME SessionAssumption, TypeOK, Counted, Served, CallsTyped, Next
  PROVE  TypeOK'
BY Cases, SetupTyped, ServeTyped, ClientTyped, CloserTyped, HolderTyped

-----------------------------------------------------------------------------
(* The worker and the others. *)
SameFate(x) ==
  /\ op'[x].state = op[x].state /\ op'[x].error = op[x].error /\ op'[x].ran = op[x].ran
  /\ op'[x].kind = op[x].kind /\ op'[x].alloc = op[x].alloc /\ op'[x].caller = op[x].caller
  /\ (op'[x].cancel => op[x].cancel \/ op[x].state = "queued")
Outside ==
  /\ UNCHANGED <<worker, snap, rt>>
  /\ DOMAIN op \subseteq DOMAIN op' /\ Created \subseteq Created'
  /\ op'[Closing] = op[Closing] /\ \A x \in DOMAIN op : SameFate(x)
  /\ \A x \in DOMAIN op' \ DOMAIN op :
       op'[x].state = "queued" /\ ~op'[x].cancel /\ ~op'[x].ran /\ op'[x].error = "none"
Others ==
  \/ \E t \in Thread : Client(t) \/ Closer(t)
  \/ \E o \in Op : Cancel(o) \/ DeadlinePasses(o)
Serving ==
  Setup \/ Take \/ Begin \/ Launch \/ Run \/ ShutDown \/ Publish \/ Finish \/ Leave

LEMMA OutsideShape ==
  ASSUME SessionAssumption, TypeOK, Counted, CallsTyped, Others
  PROVE  Outside
<1>0. OpsOK /\ Closing \in DOMAIN op
    BY TypeParts, Numbers
<1>1. CASE UNCHANGED <<op, worker, snap, rt>>
    BY <1>1 DEF Outside, SameFate, Created
<1>2. ASSUME NEW t \in Thread, Submit(t) PROVE Outside
  <2>1. Submits(t)
      BY <1>2, SubmitShape
  <2>2. op'[Closing] = op[Closing]
      BY <1>0, <2>1 DEF Submits
  <2>3. \A x \in DOMAIN op : SameFate(x)
      BY <2>1 DEF Submits, SameFate
  <2>4. \A x \in DOMAIN op' \ DOMAIN op : x = Cardinality(Created) + 1
      BY <2>1 DEF Submits
  <2> QED BY <2>1, <2>2, <2>3, <2>4 DEF Outside, Submits
<1>3. ASSUME NEW t \in Thread, Client(t), ~Submit(t) PROVE UNCHANGED <<op, worker, snap, rt>>
    BY <1>3 DEF Client, SubmitRefused, Return, HandleFails, TimeOut, Ask, CallDrain,
                CallAllocate, CallRelease, Call
<1>4. ASSUME NEW t \in Thread, Closer(t) PROVE UNCHANGED <<op, worker, snap, rt>>
    BY <1>4 DEF Closer, CallClose, CloseServed, CloseTimesOut, ClaimJoin, Join, CloseReturns
<1>5. ASSUME NEW o \in Op, Cancel(o) \/ DeadlinePasses(o) PROVE Outside
  <2>1. /\ o \in Created /\ o \in DOMAIN op /\ op[o] \in OpRec /\ o # Closing
        /\ UNCHANGED <<worker, snap, rt>>
      BY <1>5, <1>0 DEF Cancel, DeadlinePasses, Created, OpsOK
  <2>2. CASE Cancel(o)
    <3>1. Becomes(o, op[o].state, op[o].error, TRUE, op[o].deadline, op[o].ran)
        BY <2>1, <2>2, SetCancel DEF Cancel
    <3>2. op[o].state = "queued"
        BY <2>2 DEF Cancel
    <3> QED BY <1>0, <2>1, <3>1, <3>2 DEF Outside, SameFate, Becomes, Created
  <2>3. CASE DeadlinePasses(o)
    <3>1. Becomes(o, op[o].state, op[o].error, op[o].cancel, "past", op[o].ran)
        BY <2>1, <2>3, SetDeadline DEF DeadlinePasses
    <3> QED BY <1>0, <2>1, <3>1 DEF Outside, SameFate, Becomes, Created
  <2> QED BY <1>5, <2>2, <2>3
<1> QED BY <1>1, <1>2, <1>3, <1>4, <1>5 DEF Others

(* The worker has an operation whenever it does something for one. *)
LEMMA Holds ==
  ASSUME SessionAssumption, TypeOK, Served
  PROVE  /\ worker.pc \notin Away => worker.op \in DOMAIN op /\ op[worker.op] \in OpRec
         /\ worker.op \in DOMAIN op => worker.pc \notin Away
         /\ worker.pc \in Away => worker.op = NoOp
         /\ NoOp \notin DOMAIN op /\ Closing \in DOMAIN op /\ op[Closing] \in OpRec
         /\ OpsOK /\ WorkerOK
<1>1. OpsOK /\ WorkerOK
    BY TypeParts
<1>2. NoOp \notin DOMAIN op /\ Closing \in DOMAIN op
    BY <1>1, Numbers
<1> QED BY <1>1, <1>2 DEF Served, WorkerOK, OpsOK

(* The shapes of the steps of the worker. *)
LEMMA ServingShape ==
  ASSUME SessionAssumption, TypeOK, Served, Serving
  PROVE  \/ Setup \/ Take \/ Begins \/ Launch \/ (Runs /\ RunsOn) \/ Shuts \/ Publish \/ Finishes
         \/ Leave
<1>1. CASE Begin
    BY <1>1, BeginShape, Holds DEF Begin, Away
<1>2. CASE Run
  <2>1. worker.pc = "act"
      BY <1>2 DEF Run, RunTransaction, RunGemm, RunAccess, RunPlan, RunAllocate, RunRelease
  <2> QED BY <1>2, <2>1, RunShape, Holds, TypeParts DEF Away
<1>3. CASE ShutDown
    BY <1>3, ShutDownShape, Holds, TypeParts
<1>4. CASE Finish
    BY <1>4, FinishShape, Holds DEF Finish, Away
<1> QED BY <1>1, <1>2, <1>3, <1>4 DEF Serving

LEMMA NextShape ==
  ASSUME Next
  PROVE  Serving \/ Others
BY Cases DEF Serving, Others

-----------------------------------------------------------------------------
LEMMA ServedStep ==
  ASSUME SessionAssumption, SessInv, Next
  PROVE  Served'
<1> USE DEF SessInv
<1>1. CASE Others
  <2>1. Outside
      BY <1>1, OutsideShape
  <2>2. worker.op \in DOMAIN op => op'[worker.op].state = op[worker.op].state
      BY <2>1 DEF Outside, SameFate
  <2>3. op'[Closing].state = op[Closing].state
      BY <2>1 DEF Outside
  <2> QED BY <2>1, <2>2, <2>3, Holds DEF Served, Outside, Away, Executing, Done
<1>2. CASE Setup
    BY <1>2, Holds DEF Setup, SetupSucceeds, SetupFails, UndoSetup, StartFails, Served, Rest, Away,
                       Executing, WorkerOK, Done
<1>3. CASE Take
  <2>1. op' = op /\ \E o \in DOMAIN op :
          /\ worker' = [pc |-> "begin", op |-> o, result |-> "none"]
          /\ op[o].state = "queued"
    <3>1. CASE queue # << >> /\ Serve(Head(queue))
      <4>1. 1 \in DOMAIN queue /\ Head(queue) = queue[1] /\ queue[1] \in Created
          BY <3>1, TypeParts
      <4>2. Head(queue) \in DOMAIN op /\ op[Head(queue)].state = "queued"
          BY <4>1 DEF Queued, Created
      <4> QED BY <1>3, <3>1, <4>2 DEF Serve, Take
    <3>2. CASE ses.closeRequested /\ Serve(Closing)
        BY <1>3, <3>2, Holds DEF Serve, Take, CloseOrder
    <3> QED BY <1>3, <3>1, <3>2 DEF Take
  <2> QED BY <2>1, Holds DEF Served, Away, Executing
<1>4. CASE Begins
  <2>1. worker.pc = "begin" /\ worker.op \in DOMAIN op
      BY <1>4, Holds DEF Begins, Away
  <2>2. CASE worker' = Rest
      BY <2>2, Holds DEF Rest, Served, Away, Executing
  <2>3. CASE worker' # Rest
    <3>1. /\ worker' = [pc |-> "launch", op |-> worker.op, result |-> worker.result]
          /\ op'[worker.op].state = "running"
        BY <1>4, <2>3 DEF Begins, Becomes
    <3> QED BY <2>1, <3>1, Holds DEF Served, Away, Executing
  <2> QED BY <2>2, <2>3
<1>5. CASE Launch
    BY <1>5, Holds DEF Launch, Served, Away, Executing, WorkerOK, Done
<1>6. CASE Runs
  <2>1. /\ worker.pc = "act" /\ worker'.pc = "publish" /\ worker'.op = worker.op
        /\ op'[worker.op].state = op[worker.op].state
      BY <1>6 DEF Runs, Becomes
  <2> QED BY <2>1, Holds DEF Served, Away, Executing
<1>7. CASE Shuts
  <2>1. /\ worker.pc = "launch" /\ worker.op = Closing /\ worker'.pc = "publish" /\ worker'.op = Closing
        /\ op'[Closing].state = op[Closing].state
      BY <1>7 DEF Shuts, Becomes
  <2> QED BY <2>1, Holds DEF Served, Away, Executing
<1>8. CASE Publish
    BY <1>8, Holds DEF Publish, Served, Away, Executing, WorkerOK, Done
<1>9. CASE Finishes
  <2>1. CASE worker.op # Closing
      BY <1>9, <2>1, Holds DEF Finishes, Rest, Served, Away, Executing
  <2>2. CASE worker.op = Closing
    <3>1. worker'.pc = "stop" /\ worker'.op = Closing /\ op'[Closing].state \in {"completed", "failed"}
        BY <1>9, <2>2 DEF Finishes, Becomes
    <3> QED BY <3>1, Holds DEF Served, Away, Executing, Done, Terminal
  <2> QED BY <2>1, <2>2
<1>10. CASE Leave
    BY <1>10, Holds DEF Leave, Stop, LeaveLoop, SignalExit, Served, Rest, Away, Executing, WorkerOK, Done
<1> QED BY <1>1, <1>2, <1>3, <1>4, <1>5, <1>6, <1>7, <1>8, <1>9, <1>10, NextShape, ServingShape

LEMMA QueuedStep ==
  ASSUME SessionAssumption, SessInv, Next
  PROVE  Queued'
<1> USE DEF SessInv
<1>0. /\ queue \in Seq(Created) /\ \A i \in DOMAIN queue : queue[i] \in DOMAIN op /\ queue[i] \in Created
      /\ Created \subseteq DOMAIN op
    BY TypeParts DEF Created
<1>1. ASSUME UNCHANGED <<op, queue>>, worker'.op = worker.op \/ worker'.op = NoOp,
             \/ worker'.op = worker.op
             \/ \A o \in DOMAIN op : worker.op = o => op[o].state \notin {"queued", "running"}
      PROVE  Queued'
    BY <1>0, <1>1, Holds DEF Queued, Created
<1>2. CASE Others
  <2>1. Outside
      BY <1>2, OutsideShape
  <2>2. CASE \E t \in Thread : Submit(t)
    <3>1. PICK t \in Thread : Submits(t)
        BY <2>2, SubmitShape
    <3> DEFINE o == Cardinality(Created) + 1
               n == Len(queue)
    <3>2. /\ queue' = Append(queue, o) /\ o \notin DOMAIN op /\ o \in Op /\ op'[o].state = "queued"
          /\ Created' = Created \union {o} /\ DOMAIN op' = DOMAIN op \union {o} /\ worker' = worker
          /\ \A x \in DOMAIN op : op'[x] = op[x]
        BY <3>1 DEF Submits
    <3> HIDE DEF o
    <3>3. /\ n \in Nat /\ DOMAIN queue = 1..n /\ DOMAIN queue' = 1..(n + 1)
          /\ queue'[n + 1] = o /\ \A i \in 1..n : queue'[i] = queue[i]
        BY <1>0, <3>2
    <3> HIDE DEF n
    <3>4. DOMAIN queue' = DOMAIN queue \union {n + 1} /\ n + 1 \notin DOMAIN queue
        BY <3>3
    <3>5. worker.op # o
        BY <3>2, Holds DEF WorkerOK, SessionAssumption, OpId
    <3>6. \A i \in DOMAIN queue' : op'[queue'[i]].state = "queued" /\ queue'[i] # worker'.op
        BY <1>0, <3>2, <3>3, <3>4, <3>5 DEF Queued
    <3>7. \A i, j \in DOMAIN queue' : queue'[i] = queue'[j] => i = j
        BY <1>0, <3>2, <3>3, <3>4 DEF Queued
    <3>8. \A x \in Created' : op'[x].state = "queued" =>
            worker'.op = x \/ \E i \in DOMAIN queue' : queue'[i] = x
      <4>1. ASSUME NEW x \in Created, op'[x].state = "queued", worker'.op # x
            PROVE  \E i \in DOMAIN queue' : queue'[i] = x
          BY <1>0, <3>2, <3>3, <3>4, <4>1 DEF Queued
      <4> QED BY <3>2, <3>3, <3>4, <4>1
    <3>9. \A x \in DOMAIN op' : op'[x].state = "running" => worker'.op = x
        BY <3>2 DEF Queued
    <3> QED BY <3>6, <3>7, <3>8, <3>9 DEF Queued
  <2>3. CASE ~\E t \in Thread : Submit(t)
    <3>1. queue' = queue /\ DOMAIN op' = DOMAIN op
        BY <1>2, <2>3 DEF Others, Client, SubmitRefused, Return, HandleFails, TimeOut, Ask, CallDrain,
                CallAllocate, CallRelease, Call, Closer, CallClose, CloseServed, CloseTimesOut,
                ClaimJoin, Join, CloseReturns, Cancel, DeadlinePasses
    <3> QED BY <1>0, <2>1, <3>1 DEF Queued, Outside, SameFate, Created
  <2> QED BY <2>2, <2>3
<1>3. CASE Setup
    BY <1>1, <1>3, Holds DEF Setup, SetupSucceeds, SetupFails, UndoSetup, StartFails, Rest, Away, WorkerOK
<1>4. CASE Take
  <2>1. worker.op \notin DOMAIN op /\ op' = op
      BY <1>4, Holds DEF Take, Away
  <2>2. CASE queue # << >> /\ Serve(Head(queue)) /\ queue' = Tail(queue)
    <3> DEFINE n == Len(queue)
    <3>1. /\ n \in Nat /\ n # 0 /\ DOMAIN queue = 1..n /\ DOMAIN queue' = 1..(n - 1)
          /\ Head(queue) = queue[1] /\ \A i \in 1..(n - 1) : queue'[i] = queue[i + 1]
        BY <1>0, <2>2
    <3> HIDE DEF n
    <3>2. worker'.op = queue[1] /\ 1 \in DOMAIN queue
        BY <2>2, <3>1 DEF Serve
    <3>3. \A i \in DOMAIN queue' : i + 1 \in DOMAIN queue /\ i + 1 # 1 /\ queue'[i] = queue[i + 1]
        BY <3>1
    <3>4. \A i \in DOMAIN queue : i = 1 \/ (i - 1 \in DOMAIN queue' /\ queue'[i - 1] = queue[i])
      <4>1. ASSUME NEW i \in DOMAIN queue, i # 1
            PROVE  i - 1 \in 1..(n - 1) /\ (i - 1) + 1 = i
          BY <3>1, <4>1
      <4> QED BY <4>1, <3>1
    <3>5. \A i \in DOMAIN queue' : op'[queue'[i]].state = "queued" /\ queue'[i] # worker'.op
        BY <2>1, <3>2, <3>3 DEF Queued
    <3>6. \A i, j \in DOMAIN queue' : queue'[i] = queue'[j] => i = j
      <4>1. ASSUME NEW i \in DOMAIN queue', NEW j \in DOMAIN queue', queue'[i] = queue'[j]
            PROVE  i + 1 = j + 1
          BY <3>3, <4>1 DEF Queued
      <4> QED BY <4>1, <3>1
    <3>7. \A x \in Created' : op'[x].state = "queued" =>
            worker'.op = x \/ \E i \in DOMAIN queue' : queue'[i] = x
      <4>1. ASSUME NEW x \in Created, op[x].state = "queued", queue[1] # x
            PROVE  \E i \in DOMAIN queue' : queue'[i] = x
        <5>1. PICK i \in DOMAIN queue : queue[i] = x
            BY <1>0, <2>1, <4>1 DEF Queued
        <5> QED BY <3>4, <4>1, <5>1
      <4> QED BY <2>1, <3>2, <4>1 DEF Created
    <3>8. \A x \in DOMAIN op' : op'[x].state = "running" => worker'.op = x
        BY <2>1 DEF Queued
    <3> QED BY <3>5, <3>6, <3>7, <3>8 DEF Queued
  <2>3. CASE queue = << >> /\ Serve(Closing) /\ queue' = queue
    <3>1. DOMAIN queue = {} /\ DOMAIN queue' = {} /\ worker'.op = Closing
        BY <2>3 DEF Serve
    <3> QED BY <1>0, <2>1, <3>1 DEF Queued, Created
  <2> QED BY <1>4, <2>2, <2>3 DEF Take
<1>5. CASE Begins \/ Finishes
  <2>1. /\ worker.op \in DOMAIN op /\ queue' = queue /\ DOMAIN op' = DOMAIN op
        /\ \A x \in DOMAIN op : x # worker.op => op'[x] = op[x]
      BY <1>5, Holds DEF Begins, Finishes, Becomes, Away
  <2>2. \/ worker'.op = worker.op /\ op'[worker.op].state # "queued"
        \/ worker'.op = NoOp /\ op'[worker.op].state \notin {"queued", "running"}
    <3>1. CASE Begins
        BY <3>1 DEF Begins, Becomes, Rest
    <3>2. CASE Finishes
        BY <3>2 DEF Finishes, Becomes, Rest
    <3> QED BY <1>5, <3>1, <3>2
  <2>3. Created' = Created
      BY <2>1 DEF Created
  <2> QED BY <1>0, <2>1, <2>2, <2>3, Holds DEF Queued
<1>6. CASE Runs \/ Shuts
  <2>1. /\ worker.op \in DOMAIN op /\ queue' = queue /\ DOMAIN op' = DOMAIN op
        /\ worker'.op = worker.op /\ op'[worker.op].state = op[worker.op].state
        /\ \A x \in DOMAIN op : x # worker.op => op'[x] = op[x]
    <3>1. CASE Runs
        BY <3>1, Holds DEF Runs, Becomes, Away
    <3>2. CASE Shuts
        BY <3>2, Holds DEF Shuts, Becomes, Away
    <3> QED BY <1>6, <3>1, <3>2
  <2>2. Created' = Created
      BY <2>1 DEF Created
  <2> QED BY <1>0, <2>1, <2>2, Holds DEF Queued
<1>7. CASE Launch \/ Publish
    BY <1>1, <1>7, Holds DEF Launch, Publish, WorkerOK
<1>8. CASE Leave
  <2>1. CASE Stop
    <3>1. worker.op = Closing /\ Done(Closing) /\ worker'.op = NoOp /\ UNCHANGED <<op, queue>>
        BY <2>1 DEF Stop, Served, Rest
    <3> QED BY <1>1, <3>1 DEF Done, Terminal
  <2>2. CASE LeaveLoop \/ SignalExit
      BY <1>1, <2>2, Holds DEF LeaveLoop, SignalExit, WorkerOK
  <2> QED BY <1>8, <2>1, <2>2 DEF Leave
<1> QED BY <1>2, <1>3, <1>4, <1>5, <1>6, <1>7, <1>8, NextShape, ServingShape

LEMMA FatesStep ==
  ASSUME SessionAssumption, SessInv, Next
  PROVE  Fates'
<1> USE DEF SessInv
<1>0. Done(worker.op) = (op[worker.op].state \in Terminal)
    BY DEF Done
<1>1. CASE Others
  <2>1. Outside
      BY <1>1, OutsideShape
  <2>2. ASSUME NEW o \in DOMAIN op'
        PROVE  /\ op'[o].state = "queued" => ~op'[o].ran
               /\ op'[o].cancel => op'[o].state \in {"queued", "cancelled"} /\ ~op'[o].ran
               /\ op'[o].state \in Terminal /\ op'[o].ran => o \in snap'
    <3>1. CASE o \in DOMAIN op
        BY <2>1, <3>1 DEF Outside, SameFate, Fates, Done
    <3>2. CASE o \notin DOMAIN op
        BY <2>1, <3>2 DEF Outside
    <3> QED BY <3>1, <3>2
  <2>3. ~op'[Closing].cancel /\ op'[Closing].deadline = "none"
      BY <2>1 DEF Outside, Fates
  <2>4. worker'.pc = "finish" /\ op'[worker'.op].ran => worker'.op \in snap'
      BY <2>1, Holds DEF Outside, SameFate, Fates, Away
  <2> QED BY <2>2, <2>3, <2>4 DEF Fates, Done
<1>2. CASE Setup
  <2>1. worker'.pc # "finish" /\ UNCHANGED <<op, snap>>
      BY <1>2, Holds DEF Setup, SetupSucceeds, SetupFails, UndoSetup, StartFails, Rest, WorkerOK
  <2> QED BY <2>1 DEF Fates, Done
<1>3. CASE Take
  <2>1. worker'.pc # "finish" /\ UNCHANGED <<op, snap>>
      BY <1>3 DEF Take, Serve
  <2> QED BY <2>1 DEF Fates, Done
<1>4. CASE Begins
  <2>1. /\ worker.op \in DOMAIN op /\ op[worker.op].state = "queued" /\ ~op[worker.op].ran
        /\ DOMAIN op' = DOMAIN op /\ snap' = snap /\ ~op'[worker.op].ran
        /\ \A x \in DOMAIN op : x # worker.op => op'[x] = op[x]
        /\ worker'.pc # "finish"
      BY <1>4, Holds DEF Begins, Becomes, Away, Served, Fates, Rest
  <2>2. op'[worker.op].cancel => op'[worker.op].state = "cancelled"
      BY <1>4 DEF Begins, Becomes
  <2>3. op'[worker.op].state # "queued"
      BY <1>4 DEF Begins, Becomes
  <2>4. ~op'[Closing].cancel /\ op'[Closing].deadline = "none"
      BY <1>4, Holds DEF Begins, Becomes, Fates
  <2> QED BY <2>1, <2>2, <2>3, <2>4 DEF Fates, Done
<1>5. CASE Launch
  <2>1. worker'.pc # "finish" /\ UNCHANGED <<op, snap>>
      BY <1>5, Holds DEF Launch, WorkerOK
  <2> QED BY <2>1 DEF Fates, Done
<1>6. CASE Runs \/ Shuts
  <2>1. /\ worker.op \in DOMAIN op /\ op[worker.op].state = "running"
        /\ DOMAIN op' = DOMAIN op /\ snap' = snap /\ op'[worker.op].state = op[worker.op].state
        /\ op'[worker.op].cancel = op[worker.op].cancel /\ op'[worker.op].deadline = op[worker.op].deadline
        /\ \A x \in DOMAIN op : x # worker.op => op'[x] = op[x]
        /\ worker'.pc = "publish"
    <3>1. CASE Runs
        BY <3>1, Holds DEF Runs, Becomes, Away, Executing, Served
    <3>2. CASE Shuts
        BY <3>2, Holds DEF Shuts, Becomes, Away, Executing, Served
    <3> QED BY <1>6, <3>1, <3>2
  <2>2. ~op[worker.op].cancel
      BY <2>1 DEF Fates
  <2>3. ~op'[Closing].cancel /\ op'[Closing].deadline = "none"
      BY <2>1, Holds DEF Fates
  <2> QED BY <2>1, <2>2, <2>3 DEF Fates, Done, Terminal
<1>7. CASE Publish
  <2>1. /\ op' = op /\ snap' = {o \in DOMAIN op : op[o].ran} /\ worker'.op = worker.op
        /\ worker.op \in DOMAIN op
      BY <1>7, Holds DEF Publish, WorkerOK, Away
  <2> QED BY <2>1 DEF Fates, Done
<1>8. CASE Finishes
  <2>1. /\ worker.op \in DOMAIN op /\ op[worker.op].state = "running"
        /\ DOMAIN op' = DOMAIN op /\ snap' = snap /\ op'[worker.op].state \in {"completed", "failed"}
        /\ op'[worker.op].cancel = op[worker.op].cancel /\ op'[worker.op].deadline = op[worker.op].deadline
        /\ op'[worker.op].ran = op[worker.op].ran
        /\ \A x \in DOMAIN op : x # worker.op => op'[x] = op[x]
        /\ worker'.pc # "finish" /\ (op[worker.op].ran => worker.op \in snap)
      BY <1>8, Holds DEF Finishes, Becomes, Away, Executing, Served, Fates, Rest
  <2>2. ~op[worker.op].cancel
      BY <2>1 DEF Fates
  <2>3. ~op'[Closing].cancel /\ op'[Closing].deadline = "none"
      BY <2>1, Holds DEF Fates
  <2> QED BY <2>1, <2>2, <2>3 DEF Fates, Done
<1>9. CASE Leave
  <2>1. worker'.pc # "finish" /\ UNCHANGED <<op, snap>>
      BY <1>9, Holds DEF Leave, Stop, LeaveLoop, SignalExit, Rest, WorkerOK
  <2> QED BY <2>1 DEF Fates, Done
<1> QED BY <1>1, <1>2, <1>3, <1>4, <1>5, <1>6, <1>7, <1>8, <1>9, NextShape, ServingShape

(* What becomes of the calls. *)
Moves(t) == th' \in [Thread -> ThRec(DOMAIN op')] /\ \A s \in Thread : s # t => th'[s] = th[s]

LEMMA Moved ==
  ASSUME TypeOK', NEW t \in Thread, NEW new, th' = [th EXCEPT ![t] = new],
         CallsOK
  PROVE  Moves(t) /\ th'[t] = new
<1>1. th \in [Thread -> ThRec(DOMAIN op)]
    BY CallsTypedAs
<1>2. th' \in [Thread -> ThRec(DOMAIN op')]
    BY DEF TypeOK, ThRec
<1> QED BY <1>1, <1>2 DEF Moves

CloserMoves(t) ==
  /\ Moves(t) /\ UNCHANGED <<op, queue, worker, snap, rt, alloc>>
  /\ th[t].pc \in {"idle", "closing", "exiting", "join", "closed"}
  /\ \/ th'[t] = Idle
     \/ /\ th'[t].pc \in {"closing", "exiting", "join", "closed"}
        /\ th'[t].call = "close" /\ th'[t].alloc = NoAlloc
        /\ th'[t].pc = "closing" => ses.setup = "done"

LEMMA CloserShape ==
  ASSUME SessionAssumption, TypeOK, TypeOK', CallsTyped, NEW t \in Thread, Closer(t)
  PROVE  CloserMoves(t)
<1>1. CallsOK /\ th \in [Thread -> ThRec(DOMAIN op)] /\ Idle \in ThRec(DOMAIN op)
    BY TypeParts, CallsTypedAs, IdleTyped
<1>2. ASSUME NEW new, th' = [th EXCEPT ![t] = new] PROVE Moves(t) /\ th'[t] = new
    BY <1>1, <1>2, Moved
<1>3. /\ UNCHANGED <<op, queue, worker, snap, rt, alloc>>
      /\ th[t].pc \in {"idle", "closing", "exiting", "join", "closed"}
    BY DEF Closer, CallClose, CloseServed, CloseTimesOut, ClaimJoin, Join, CloseReturns
<1>4. CASE CallClose(t)
  <2>1. PICK timed \in BOOLEAN :
          th' = [th EXCEPT ![t] = [Idle EXCEPT !.call = "close", !.timed = timed,
                                     !.pc = IF ses.setup = "done" THEN "closing" ELSE "exiting"]]
      BY <1>4 DEF CallClose
  <2>2. PICK r : r = [Idle EXCEPT !.call = "close", !.timed = timed,
                                     !.pc = IF ses.setup = "done" THEN "closing" ELSE "exiting"]
      OBVIOUS
  <2>3. /\ r.pc \in {"closing", "exiting"} /\ r.call = "close" /\ r.alloc = NoAlloc
        /\ r.pc = "closing" => ses.setup = "done"
      BY <2>2 DEF Idle
  <2>4. th' = [th EXCEPT ![t] = r]
      BY <2>1, <2>2
  <2> QED BY <1>2, <1>3, <2>3, <2>4 DEF CloserMoves
<1>5. CASE CloseServed(t)
  <2>1. PICK r : r = [th[t] EXCEPT !.pc = "exiting", !.cleanup = op[Closing].error]
      OBVIOUS
  <2>2. r.pc = "exiting" /\ r.call = "close" /\ r.alloc = NoAlloc
      BY <1>1, <1>5, <2>1 DEF CloseServed, ThRec, CallsTyped
  <2>3. th' = [th EXCEPT ![t] = r]
      BY <1>1, <1>5, <2>1 DEF CloseServed
  <2> QED BY <1>2, <1>3, <2>2, <2>3 DEF CloserMoves
<1>6. CASE CloseTimesOut(t) \/ CloseReturns(t)
  <2>1. th' = [th EXCEPT ![t] = Idle]
      BY <1>6 DEF CloseTimesOut, CloseReturns
  <2> QED BY <1>2, <1>3, <2>1 DEF CloserMoves
<1>7. CASE ClaimJoin(t)
  <2>1. PICK r : r = [th[t] EXCEPT !.pc = IF ses.joinClaimed THEN "closed" ELSE "join"]
      OBVIOUS
  <2>2. r.pc \in {"closed", "join"} /\ r.call = "close" /\ r.alloc = NoAlloc
      BY <1>1, <1>7, <2>1 DEF ClaimJoin, ThRec, CallsTyped
  <2>3. th' = [th EXCEPT ![t] = r]
      BY <1>1, <1>7, <2>1 DEF ClaimJoin
  <2> QED BY <1>2, <1>3, <2>2, <2>3 DEF CloserMoves
<1>8. CASE Join(t)
  <2>1. PICK r : r = [th[t] EXCEPT !.pc = "closed"]
      OBVIOUS
  <2>2. r.pc = "closed" /\ r.call = "close" /\ r.alloc = NoAlloc
      BY <1>1, <1>8, <2>1 DEF Join, ThRec, CallsTyped
  <2>3. th' = [th EXCEPT ![t] = r]
      BY <1>1, <1>8, <2>1 DEF Join
  <2> QED BY <1>2, <1>3, <2>2, <2>3 DEF CloserMoves
<1> QED BY <1>4, <1>5, <1>6, <1>7, <1>8 DEF Closer

(* The call of a client begins, begins another, or ends. *)
AskMoves(t) ==
  /\ Moves(t) /\ UNCHANGED <<op, queue, ses, worker, snap, rt>> /\ Room
  /\ th[t].pc = "idle" /\ th'[t].pc = "submit" /\ ses.setup = "done"
  /\ th'[t].call \in AsyncKinds \union SyncKinds
  /\ AsksFor(t, th'[t].call, th'[t].alloc, th'[t].timed)
FailMoves(t) ==
  /\ Moves(t) /\ UNCHANGED <<op, queue, ses, worker, snap, rt>> /\ Room
  /\ th[t].pc = "wait" /\ th[t].call = "allocate" /\ Succeeded(th[t].op, "allocate")
  /\ th'[t].pc = "submit" /\ th'[t].call = "release" /\ th'[t].alloc = th[t].alloc /\ ~th'[t].timed
  /\ LET a == th[t].alloc IN SetAlloc(a, alloc[a].live, alloc[a].made, TRUE)
EndMoves(t) ==
  /\ Moves(t) /\ UNCHANGED <<op, queue, ses, worker, snap, rt>> /\ th'[t] = Idle

LEMMA AskMove ==
  ASSUME SessionAssumption, TypeOK, TypeOK', NEW t \in Thread, Ask(t)
  PROVE  AskMoves(t)
<1>1. CallsOK /\ Asks(t)
    BY TypeParts, AskShape
<1>2. PICK call \in AsyncKinds \union SyncKinds, a \in Alloc \union {NoAlloc}, timed \in BOOLEAN :
        AsksFor(t, call, a, timed)
    BY <1>1 DEF Asks
<1>3. PICK r : r = [pc |-> "submit", call |-> call, alloc |-> a, op |-> NoOp,
                    timed |-> timed, cleanup |-> "none"]
    OBVIOUS
<1>4. r.pc = "submit" /\ r.call = call /\ r.alloc = a /\ r.timed = timed
    BY <1>3
<1>5. th' = [th EXCEPT ![t] = r]
    BY <1>2, <1>3 DEF AsksFor, Fresh
<1>6. Moves(t) /\ th'[t] = r
    BY <1>1, <1>5, Moved
<1>7. UNCHANGED <<op, queue, ses, worker, snap, rt>> /\ Room /\ th[t].pc = "idle" /\ ses.setup = "done"
    BY <1>1 DEF Asks, MayCall
<1> HIDE DEF AsksFor
<1>8. AsksFor(t, th'[t].call, th'[t].alloc, th'[t].timed)
    BY <1>2, <1>4, <1>6
<1> QED BY <1>4, <1>6, <1>7, <1>8 DEF AskMoves

LEMMA FailMove ==
  ASSUME SessionAssumption, TypeOK, TypeOK', CallsTyped, NEW t \in Thread, HandleFails(t)
  PROVE  FailMoves(t)
<1> DEFINE a == th[t].alloc
<1>1. CallsOK /\ alloc \in [Alloc -> AllocRec]
    BY TypeParts
<1>2. PICK r : r = [Idle EXCEPT !.pc = "submit", !.call = "release", !.alloc = a]
    OBVIOUS
<1>3. r.pc = "submit" /\ r.call = "release" /\ r.alloc = a /\ ~r.timed
    BY <1>2, IdleRecord DEF Idle
<1>4. th' = [th EXCEPT ![t] = r] /\ alloc' = [alloc EXCEPT ![a].released = TRUE]
    BY <1>2 DEF HandleFails
<1>5. Moves(t) /\ th'[t] = r
    BY <1>1, <1>4, Moved
<1>6. SetAlloc(a, alloc[a].live, alloc[a].made, TRUE)
    BY <1>1, <1>4, SetReleased
<1>7. /\ UNCHANGED <<op, queue, ses, worker, snap, rt>> /\ Room
      /\ th[t].pc = "wait" /\ th[t].call = "allocate" /\ Done(th[t].op)
      /\ op[th[t].op].error = "none"
    BY DEF HandleFails
<1>8. Succeeded(th[t].op, "allocate")
    BY <1>7 DEF Succeeded, CallsTyped
<1> QED BY <1>3, <1>5, <1>6, <1>7, <1>8 DEF FailMoves

LEMMA EndMove ==
  ASSUME TypeOK, TypeOK', NEW t \in Thread, SubmitRefused(t) \/ Return(t) \/ TimeOut(t)
  PROVE  EndMoves(t)
<1>1. CallsOK /\ th' = [th EXCEPT ![t] = Idle] /\ UNCHANGED <<op, queue, ses, worker, snap, rt>>
    BY TypeParts DEF SubmitRefused, Return, TimeOut
<1> QED BY <1>1, Moved DEF EndMoves

(* The end of an asynchronous submission, the wait of a synchronous one. *)
SubmitMoves(t) ==
  /\ Moves(t) /\ Submits(t)
  /\ IF th[t].call \in AsyncKinds THEN th'[t] = Idle
     ELSE /\ th'[t].pc = "wait" /\ th'[t].op = Cardinality(Created) + 1
          /\ th'[t].call = th[t].call /\ th'[t].alloc = th[t].alloc /\ th'[t].timed = th[t].timed

LEMMA SubmitMove ==
  ASSUME SessionAssumption, TypeOK, TypeOK', Counted, CallsTyped, NEW t \in Thread, Submit(t)
  PROVE  SubmitMoves(t)
<1>1. CallsOK /\ Submits(t) /\ th[t] \in ThRec(DOMAIN op)
    BY TypeParts, CallsTypedAs, SubmitShape
<1>2. th' = [th EXCEPT ![t] = IF th[t].call \in AsyncKinds THEN Idle
                             ELSE [th[t] EXCEPT !.pc = "wait", !.op = Cardinality(Created) + 1]]
    BY <1>1 DEF Submits
<1>3. /\ Moves(t)
      /\ th'[t] = IF th[t].call \in AsyncKinds THEN Idle
                  ELSE [th[t] EXCEPT !.pc = "wait", !.op = Cardinality(Created) + 1]
    BY <1>1, <1>2, Moved
<1>4. CASE th[t].call \in AsyncKinds
    BY <1>1, <1>3, <1>4 DEF SubmitMoves
<1>5. CASE th[t].call \notin AsyncKinds
  <2>1. th'[t] = [th[t] EXCEPT !.pc = "wait", !.op = Cardinality(Created) + 1]
      BY <1>3, <1>5
  <2>2. /\ th'[t].pc = "wait" /\ th'[t].op = Cardinality(Created) + 1
        /\ th'[t].call = th[t].call /\ th'[t].alloc = th[t].alloc /\ th'[t].timed = th[t].timed
      BY <1>1, <2>1 DEF ThRec
  <2> QED BY <1>1, <1>3, <1>5, <2>2 DEF SubmitMoves
<1> QED BY <1>4, <1>5

LEMMA CountedStep ==
  ASSUME SessionAssumption, SessInv, Next
  PROVE  Counted'
<1> USE DEF SessInv
<1> DEFINE n == Cardinality(Created)
           k == Cardinality(Submitters)
<1>0. /\ OpsOK /\ th \in [Thread -> ThRec(DOMAIN op)] /\ n \in Nat /\ IsFiniteSet(Created)
      /\ IsFiniteSet(Submitters) /\ k \in Nat /\ MaxOps \in Nat /\ n + k <= MaxOps
    BY TypeParts, Numbers, CallsTypedAs, FS_CardinalityType DEF Counted, SessionAssumption
<1>1. ASSUME Created' = Created, Submitters' \subseteq Submitters PROVE Counted'
  <2>1. IsFiniteSet(Submitters') /\ Cardinality(Submitters') <= k /\ Cardinality(Submitters') \in Nat
      BY <1>0, <1>1, FS_Subset, FS_CardinalityType
  <2> QED BY <1>0, <1>1, <2>1 DEF Counted
<1>2. ASSUME NEW t \in Thread, Created' = Created, Room, Submitters' = Submitters \union {t} PROVE Counted'
  <2>1. IsFiniteSet(Submitters') /\ Cardinality(Submitters') <= k + 1 /\ Cardinality(Submitters') \in Nat
    <3>1. IsFiniteSet(Submitters')
        BY <1>0, <1>2, FS_AddElement
    <3>2. Cardinality(Submitters') = IF t \in Submitters THEN k ELSE k + 1
        BY <1>0, <1>2, FS_AddElement
    <3> QED BY <1>0, <3>1, <3>2, FS_CardinalityType
  <2>2. n + k < MaxOps
      BY <1>2 DEF Room, Submitters
  <2> QED BY <1>0, <1>2, <2>1, <2>2 DEF Counted
<1>3. CASE Serving
  <2>1. th' = th
      BY <1>3 DEF Serving, Setup, SetupSucceeds, SetupFails, UndoSetup, StartFails, Take, Begin, Launch,
                  Run, RunTransaction, RunGemm, RunAccess, RunPlan, RunAllocate, RunRelease, ShutDown,
                  Publish, Finish, Leave, Stop, LeaveLoop, SignalExit
  <2>2. DOMAIN op' = DOMAIN op
      BY <1>3 DEF Serving, Setup, SetupSucceeds, SetupFails, UndoSetup, StartFails, Take, Begin, Launch,
                  Run, RunTransaction, RunGemm, RunAccess, RunPlan, RunAllocate, RunRelease, ShutDown,
                  Publish, Finish, Leave, Stop, LeaveLoop, SignalExit, Ran, Refused
  <2> QED BY <1>1, <2>1, <2>2 DEF Created, Submitters
<1>4. ASSUME NEW o \in Op, Cancel(o) \/ DeadlinePasses(o) PROVE Counted'
    BY <1>1, <1>4 DEF Cancel, DeadlinePasses, Created, Submitters
<1>5. Idle.pc = "idle"
    BY DEF Idle
<1>6. ASSUME NEW t \in Thread, CloserMoves(t) \/ EndMoves(t) PROVE Counted'
  <2>1. /\ op' = op /\ DOMAIN th' = Thread /\ th'[t].pc # "submit"
        /\ \A s \in Thread : s # t => th'[s] = th[s]
      BY <1>5, <1>6 DEF CloserMoves, EndMoves, Moves
  <2> QED BY <1>1, <2>1 DEF Created, Submitters
<1>7. ASSUME NEW t \in Thread, SubmitMoves(t) PROVE Counted'
  <2> DEFINE o == n + 1
  <2>1. /\ o \notin Created /\ Created' = Created \union {o}
        /\ th[t].pc = "submit" /\ th'[t].pc # "submit" /\ \A s \in Thread : s # t => th'[s] = th[s]
      BY <1>5, <1>7 DEF SubmitMoves, Submits, Moves, Created
  <2>2. Submitters' = Submitters \ {t} /\ t \in Submitters
      BY <2>1 DEF Submitters
  <2>3. Cardinality(Created') = n + 1
      BY <1>0, <2>1, FS_AddElement
  <2>4. IsFiniteSet(Submitters') /\ Cardinality(Submitters') = k - 1
      BY <1>0, <2>2, FS_RemoveElement
  <2> QED BY <1>0, <2>3, <2>4 DEF Counted
<1>8. ASSUME NEW t \in Thread, AskMoves(t) \/ FailMoves(t) PROVE Counted'
  <2>1. op' = op /\ Room /\ th'[t].pc = "submit" /\ \A s \in Thread : s # t => th'[s] = th[s]
      BY <1>8 DEF AskMoves, FailMoves, Moves
  <2>2. Submitters' = Submitters \union {t}
      BY <2>1 DEF Submitters
  <2> QED BY <1>2, <2>1, <2>2 DEF Created
<1>9. TypeOK'
    BY TypeStep
<1>10. ASSUME NEW t \in Thread, Client(t) \/ Closer(t) PROVE Counted'
  <2>1. CASE Closer(t)
      BY <1>6, <1>9, <2>1, CloserShape
  <2>2. CASE Submit(t)
      BY <1>7, <1>9, <2>2, SubmitMove
  <2>3. CASE SubmitRefused(t) \/ Return(t) \/ TimeOut(t)
      BY <1>6, <1>9, <2>3, EndMove
  <2>4. CASE HandleFails(t)
      BY <1>8, <1>9, <2>4, FailMove
  <2>5. CASE Ask(t)
      BY <1>8, <1>9, <2>5, AskMove
  <2> QED BY <1>10, <2>1, <2>2, <2>3, <2>4, <2>5 DEF Client
<1> QED BY <1>3, <1>4, <1>10, NextShape DEF Others

-----------------------------------------------------------------------------
(* The flags of the session. *)
CloseAsked ==
  /\ ~ses.closing /\ ses'.closing /\ ses'.closeRequested = (ses.setup = "done")
  /\ ses.setup # "pending"
OthersKeep ==
  /\ ses'.setup = ses.setup /\ ses'.stop = ses.stop /\ ses'.exited = ses.exited
  /\ \/ CloseAsked
     \/ ses'.closing = ses.closing /\ ses'.closeRequested = ses.closeRequested
  /\ queue' # queue => ~ses.closing /\ ses.setup = "done" /\ ses' = ses

LEMMA OthersShape ==
  ASSUME SessionAssumption, TypeOK, CallsTyped, Others
  PROVE  OthersKeep
<1>0. ses \in SesRec
    BY TypeParts
<1>1. ASSUME NEW t \in Thread, Submit(t) PROVE OthersKeep
  <2>1. th[t].pc = "submit" /\ ~ses.closing /\ ses' = ses
      BY <1>1 DEF Submit
  <2>2. ses.setup = "done"
      BY <2>1 DEF CallsTyped
  <2> QED BY <2>1, <2>2 DEF OthersKeep
<1>2. ASSUME NEW t \in Thread, Client(t), ~Submit(t) PROVE UNCHANGED <<queue, ses>>
    BY <1>2 DEF Client, SubmitRefused, Return, HandleFails, TimeOut, Ask, CallDrain,
                CallAllocate, CallRelease, Call
<1>3. ASSUME NEW t \in Thread, CallClose(t) PROVE OthersKeep
  <2>1. queue' = queue /\ ses.setup # "pending"
      BY <1>3 DEF CallClose
  <2>2. CASE ses.closing
    <3>1. ses' = ses
        BY <1>3, <2>2 DEF CallClose
    <3> QED BY <2>1, <3>1 DEF OthersKeep
  <2>3. CASE ~ses.closing
    <3> DEFINE asked == (ses.setup = "done")
    <3>1. ses' = [ses EXCEPT !.closing = TRUE, !.closeRequested = asked]
        BY <1>3, <2>3 DEF CallClose
    <3>2. asked \in BOOLEAN
        OBVIOUS
    <3> HIDE DEF asked
    <3>3. /\ ses'.setup = ses.setup /\ ses'.stop = ses.stop /\ ses'.exited = ses.exited /\ ses'.closing
          /\ ses'.closeRequested = asked
        BY <1>0, <3>1, <3>2 DEF SesRec
    <3> QED BY <2>1, <2>3, <3>3 DEF OthersKeep, CloseAsked, asked
  <2> QED BY <2>2, <2>3
<1>4. ASSUME NEW t \in Thread, Closer(t), ~CallClose(t) PROVE OthersKeep
  <2>1. queue' = queue
      BY <1>4 DEF Closer, CloseServed, CloseTimesOut, ClaimJoin, Join, CloseReturns
  <2>2. CASE ses' = ses
      BY <2>1, <2>2 DEF OthersKeep
  <2>3. CASE ClaimJoin(t)
    <3>1. /\ ses'.setup = ses.setup /\ ses'.stop = ses.stop /\ ses'.exited = ses.exited
          /\ ses'.closing = ses.closing /\ ses'.closeRequested = ses.closeRequested
        BY <1>0, <2>3 DEF ClaimJoin, SesRec
    <3> QED BY <2>1, <3>1 DEF OthersKeep
  <2>4. CASE CloseReturns(t)
    <3>1. /\ ses'.setup = ses.setup /\ ses'.stop = ses.stop /\ ses'.exited = ses.exited
          /\ ses'.closing = ses.closing /\ ses'.closeRequested = ses.closeRequested
        BY <1>0, <2>4 DEF CloseReturns, SesRec
    <3> QED BY <2>1, <3>1 DEF OthersKeep
  <2> QED BY <1>4, <2>2, <2>3, <2>4 DEF Closer, CloseServed, CloseTimesOut, Join
<1>5. ASSUME NEW o \in Op, Cancel(o) \/ DeadlinePasses(o) PROVE UNCHANGED <<queue, ses>>
    BY <1>5 DEF Cancel, DeadlinePasses
<1>6. ASSUME UNCHANGED <<queue, ses>> PROVE OthersKeep
    BY <1>6 DEF OthersKeep
<1> QED BY <1>1, <1>2, <1>3, <1>4, <1>5, <1>6 DEF Others, Closer

SetupMoves ==
  /\ UNCHANGED <<op, queue, snap, alloc, th>>
  /\ worker.op = NoOp /\ worker'.op = NoOp /\ rt'.unknown = rt.unknown
  /\ ses'.closing = ses.closing /\ ses'.closeRequested = ses.closeRequested
  /\ ses'.stop = ses.stop /\ ses'.joinClaimed = ses.joinClaimed /\ ses'.apiClosed = ses.apiClosed
  /\ \/ /\ worker.pc = "setup" /\ worker'.pc = "wait" /\ ses'.setup = "done"
        /\ ses'.exited = ses.exited /\ rt'.state = rt.state
     \/ /\ worker.pc = "setup" /\ worker'.pc = "undo" /\ ses'.setup = "failed"
        /\ ses'.exited = ses.exited /\ rt' = rt
     \/ worker.pc = "undo" /\ worker'.pc = "exit" /\ ses' = ses /\ rt'.state = "closed"
     \/ worker.pc = "setup" /\ worker'.pc = "none" /\ ses'.setup = "failed" /\ rt' = rt

LEMMA SetupShape ==
  ASSUME SessionAssumption, TypeOK, Served, Setup
  PROVE  SetupMoves
<1>0. ses \in SesRec /\ rt \in RtRec /\ WorkerOK
    BY TypeParts
<1>1. CASE SetupSucceeds
  <2>1. worker.op = NoOp
      BY <1>1, Holds DEF SetupSucceeds, Away
  <2>2. worker' = Rest /\ ses' = [ses EXCEPT !.setup = "done"]
        /\ UNCHANGED <<op, queue, snap, alloc, th>> /\ worker.pc = "setup"
        /\ \E c \in {"absent", "ready"} : rt' = [rt EXCEPT !.cublas = c]
      BY <1>1 DEF SetupSucceeds, InitializeCublas
  <2> QED BY <1>0, <2>1, <2>2 DEF SetupMoves, SesRec, RtRec, Rest
<1>2. CASE SetupFails
  <2>1. worker.op = NoOp
      BY <1>2, Holds DEF SetupFails, Away
  <2> QED BY <1>0, <1>2, <2>1 DEF SetupFails, SetupMoves, SesRec, WorkerOK
<1>3. CASE UndoSetup
  <2>1. worker.op = NoOp
      BY <1>3, Holds DEF UndoSetup, Away
  <2> QED BY <1>0, <1>3, <2>1 DEF UndoSetup, SetupMoves, RtRec, WorkerOK
<1>4. CASE StartFails
  <2>1. worker.op = NoOp
      BY <1>4, Holds DEF StartFails, Away
  <2> QED BY <1>0, <1>4, <2>1 DEF StartFails, SetupMoves, SesRec, WorkerOK
<1> QED BY <1>1, <1>2, <1>3, <1>4 DEF Setup

LEMMA CloseOrderStep ==
  ASSUME SessionAssumption, SessInv, Next
  PROVE  CloseOrder'
<1> USE DEF SessInv
<1>0. ses \in SesRec /\ queue \in Seq(Created) /\ Closing \notin Created
    BY TypeParts DEF Created
<1>1. CASE Others
  <2>1. Outside /\ OthersKeep
      BY <1>1, OutsideShape, OthersShape
  <2>2. worker' = worker /\ op'[Closing] = op[Closing]
      BY <2>1 DEF Outside
  <2>3. CASE CloseAsked /\ queue' = queue
      BY <1>0, <2>1, <2>2, <2>3 DEF OthersKeep, CloseAsked, CloseOrder, Done
  <2>4. CASE ses'.closing = ses.closing /\ ses'.closeRequested = ses.closeRequested
      BY <1>0, <2>1, <2>2, <2>4 DEF OthersKeep, CloseOrder, Done, Terminal
  <2> QED BY <2>1, <2>3, <2>4 DEF OthersKeep, CloseAsked
<1>2. CASE Setup
  <2>1. SetupMoves
      BY <1>2, SetupShape
  <2> QED BY <2>1, Holds DEF SetupMoves, CloseOrder, Done
<1>3. CASE Take
  <2>1. op' = op /\ ses'.closing = ses.closing /\ ses'.stop = ses.stop
        /\ (ses'.closeRequested => ses.closeRequested)
      BY <1>0, <1>3 DEF Take, SesRec
  <2>2. CASE queue # << >> /\ Serve(Head(queue)) /\ queue' = Tail(queue)
    <3>1. worker'.op # Closing
        BY <1>0, <2>2 DEF Serve
    <3> QED BY <1>0, <2>1, <2>2, <3>1 DEF CloseOrder, Done
  <2>3. CASE queue = << >> /\ ses.closeRequested /\ Serve(Closing) /\ queue' = queue
             /\ ses' = [ses EXCEPT !.closeRequested = FALSE]
    <3>1. ~ses'.closeRequested /\ worker'.op = Closing
        BY <1>0, <2>3 DEF SesRec, Serve
    <3> QED BY <2>1, <2>3, <3>1 DEF CloseOrder, Done
  <2> QED BY <1>3, <2>2, <2>3 DEF Take
<1>4. CASE Begins \/ Finishes
  <2>1. /\ UNCHANGED <<ses, queue>> /\ worker'.op \in {worker.op, NoOp}
        /\ \A x \in DOMAIN op : x # worker.op => op'[x] = op[x]
      BY <1>4 DEF Begins, Finishes, Becomes, Rest
  <2>2. CASE worker.op = Closing
    <3>1. ~ses.closeRequested /\ ses.closing /\ queue = << >> /\ ~ses.stop
      <4>1. worker.pc \in {"begin", "finish"}
          BY <1>4 DEF Begins, Finishes
      <4>2. ~Done(Closing)
          BY <2>2, <4>1 DEF Served, Executing, Done, Terminal
      <4> QED BY <1>0, <2>2, <4>2 DEF CloseOrder
    <3> QED BY <2>1, <2>2, <3>1 DEF CloseOrder
  <2>3. CASE worker.op # Closing
    <3>1. op'[Closing] = op[Closing] /\ worker'.op # Closing
        BY <2>1, <2>3, Holds
    <3> QED BY <2>1, <3>1 DEF CloseOrder, Done
  <2> QED BY <2>2, <2>3
<1>5. CASE Runs \/ Shuts
  <2>1. UNCHANGED <<ses, queue>> /\ worker'.op = worker.op
    <3>1. CASE Runs
        BY <3>1 DEF Runs
    <3>2. CASE Shuts
        BY <3>2 DEF Shuts
    <3> QED BY <1>5, <3>1, <3>2
  <2>2. op'[Closing].state = op[Closing].state
      BY <1>5, Holds DEF Runs, Shuts, Becomes
  <2> QED BY <2>1, <2>2 DEF CloseOrder, Done
<1>6. CASE Launch \/ Publish
  <2>1. UNCHANGED <<op, ses, queue>> /\ worker'.op = worker.op
      BY <1>6, Holds DEF Launch, Publish, WorkerOK
  <2> QED BY <2>1 DEF CloseOrder, Done
<1>7. CASE Leave
  <2>1. /\ UNCHANGED <<op, queue>> /\ worker'.op \in {NoOp, worker.op}
        /\ ses'.closing = ses.closing /\ ses'.closeRequested = ses.closeRequested
        /\ (ses'.stop => ses.stop \/ worker.pc = "stop")
      BY <1>0, <1>7, Holds DEF Leave, Stop, LeaveLoop, SignalExit, Rest, WorkerOK, SesRec
  <2>2. worker.pc = "stop" => Done(Closing)
      BY DEF Served
  <2>3. worker'.op = Closing => worker.op = Closing
      BY <2>1, Holds
  <2> QED BY <2>1, <2>2, <2>3 DEF CloseOrder, Done
<1> QED BY <1>1, <1>2, <1>3, <1>4, <1>5, <1>6, <1>7, NextShape, ServingShape

LEMMA PhasesStep ==
  ASSUME SessionAssumption, SessInv, Next
  PROVE  Phases'
<1> USE DEF SessInv
<1>0. ses \in SesRec /\ rt \in RtRec
    BY TypeParts
<1>1. CASE Others
  <2>1. Outside /\ OthersKeep
      BY <1>1, OutsideShape, OthersShape
  <2>2. queue' # queue => ses.setup = "done" /\ ses' = ses
      BY <2>1 DEF OthersKeep
  <2>3. worker' = worker /\ rt' = rt
      BY <2>1 DEF Outside
  <2>4. ses.setup # "done" => ~ses'.closeRequested
      BY <1>0, <2>1 DEF OthersKeep, CloseAsked, Phases
  <2>5. worker.pc \in {"exit", "none"} /\ ses.setup # "failed" => queue' = <<>>
    <3>1. ses.stop => ses.closing
        BY DEF CloseOrder, Done, Terminal
    <3> QED BY <2>1, <3>1 DEF OthersKeep, Phases
  <2>6. op'[Closing] = op[Closing]
      BY <2>1 DEF Outside
  <2> QED BY <2>1, <2>2, <2>3, <2>4, <2>5, <2>6 DEF OthersKeep, Phases
<1>2. CASE Setup
  <2>1. SetupMoves
      BY <1>2, SetupShape
  <2>2. ~ses.closeRequested /\ op[Closing].state = "queued" /\ queue = << >> /\ ~rt.unknown
        /\ ~ses.exited
      BY <1>0, <2>1 DEF SetupMoves, Phases, CloseOrder, SesRec
  <2>3. (ses.setup = "pending") = (worker.pc = "setup")
      BY DEF Phases
  <2>4. worker.pc = "undo" => ses.setup = "failed"
      BY DEF Phases
  <2> QED BY <2>1, <2>2, <2>3, <2>4 DEF SetupMoves, Phases
<1>3. CASE Take
  <2>1. /\ UNCHANGED <<op, rt>> /\ worker.pc = "wait" /\ worker'.pc = "begin"
        /\ ses'.setup = ses.setup /\ ses'.exited = ses.exited
      BY <1>0, <1>3 DEF Take, Serve, SesRec
  <2>2. ses.setup = "done"
      BY <1>0, <2>1 DEF Phases, SesRec
  <2> QED BY <2>1, <2>2 DEF Phases
<1>4. ASSUME UNCHANGED <<ses, queue>>, worker.pc \notin Away, worker'.pc \notin {"setup", "undo", "exit", "none"}
      PROVE  Phases'
  <2>1. ses.setup = "done"
      BY <1>0, <1>4 DEF Phases, SesRec, Away
  <2> QED BY <1>4, <2>1 DEF Phases, Away
<1>5. CASE Begins \/ Finishes
    BY <1>4, <1>5 DEF Begins, Finishes, Rest, Away
<1>6. CASE Runs \/ Shuts
  <2>1. /\ UNCHANGED <<ses, queue>> /\ worker.pc \in {"act", "launch"} /\ worker'.pc = "publish"
    <3>1. CASE Runs
        BY <3>1 DEF Runs
    <3>2. CASE Shuts
        BY <3>2 DEF Shuts
    <3> QED BY <1>6, <3>1, <3>2
  <2> QED BY <1>4, <2>1 DEF Away
<1>7. CASE Launch \/ Publish
  <2>1. UNCHANGED <<rt, ses, queue>> /\ worker.pc \in {"launch", "publish"}
        /\ worker'.pc \in {"publish", "act", "finish"}
      BY <1>7, Holds DEF Launch, Publish, WorkerOK
  <2> QED BY <1>4, <2>1 DEF Away
<1>8. CASE Leave
  <2>1. UNCHANGED <<op, rt, queue>> /\ ses'.setup = ses.setup /\ ses'.closeRequested = ses.closeRequested
      BY <1>0, <1>8 DEF Leave, Stop, LeaveLoop, SignalExit, SesRec
  <2>2. CASE Stop
    <3>1. worker.pc = "stop" /\ worker'.pc = "wait" /\ ses'.exited = ses.exited
        BY <1>0, <2>2 DEF Stop, Rest, SesRec
    <3> QED BY <2>1, <3>1 DEF Phases
  <2>3. CASE LeaveLoop
    <3>1. worker.pc = "wait" /\ worker'.pc = "exit" /\ ses' = ses /\ ses.stop /\ queue = << >>
        BY <2>3, Holds DEF LeaveLoop, WorkerOK
    <3> QED BY <2>1, <3>1 DEF Phases
  <2>4. CASE SignalExit
    <3>1. worker.pc = "exit" /\ worker'.pc = "none" /\ ses'.stop = ses.stop
        BY <1>0, <2>4, Holds DEF SignalExit, WorkerOK, SesRec
    <3> QED BY <2>1, <3>1 DEF Phases
  <2> QED BY <1>8, <2>2, <2>3, <2>4 DEF Leave
<1> QED BY <1>1, <1>2, <1>3, <1>5, <1>6, <1>7, <1>8, NextShape, ServingShape

LEMMA ShutDownOnceStep ==
  ASSUME SessionAssumption, SessInv, Next
  PROVE  ShutDownOnce'
<1> USE DEF SessInv
<1>0. ses \in SesRec /\ rt \in RtRec /\ alloc \in [Alloc -> AllocRec] /\ TypeOK'
    BY TypeParts, TypeStep
<1>1. CASE Others
  <2>1. Outside /\ OthersKeep
      BY <1>1, OutsideShape, OthersShape
  <2>2. UNCHANGED <<worker, rt>> /\ op'[Closing] = op[Closing] /\ ses'.setup = ses.setup
      BY <2>1 DEF Outside, OthersKeep
  <2>3. \A a \in Alloc : alloc'[a].live = alloc[a].live
    <3>1. CASE alloc' = alloc
        BY <3>1
    <3>2. ASSUME NEW t \in Thread, Return(t) PROVE \A a \in Alloc : alloc'[a].live = alloc[a].live
        BY <1>0, <3>2 DEF Return, AllocRec
    <3>3. ASSUME NEW t \in Thread, HandleFails(t) PROVE \A a \in Alloc : alloc'[a].live = alloc[a].live
        BY <1>0, <3>3 DEF HandleFails, AllocRec
    <3>4. ASSUME NEW t \in Thread, NEW a \in Alloc, CallRelease(t, a)
          PROVE  \A b \in Alloc : alloc'[b].live = alloc[b].live
        BY <1>0, <3>4 DEF CallRelease, AllocRec
    <3> QED BY <1>1, <3>1, <3>2, <3>3, <3>4 DEF Others, Client, Submit, SubmitRefused, TimeOut, Ask,
                CallDrain, CallAllocate, Call, Closer, CallClose, CloseServed, CloseTimesOut,
                ClaimJoin, Join, CloseReturns, Cancel, DeadlinePasses
  <2> QED BY <2>2, <2>3 DEF ShutDownOnce, Ending, Done
<1>2. CASE Setup
  <2>0. SetupMoves
      BY <1>2, SetupShape
  <2>1. /\ UNCHANGED <<op, alloc>> /\ worker'.op # Closing /\ worker.op # Closing
      BY <2>0, Holds DEF SetupMoves
  <2>2. ses.setup # "done" /\ ~rt.unknown /\ (rt'.state = "closed" => ses'.setup = "failed")
        /\ ~rt'.unknown
      BY <1>0, <2>0 DEF SetupMoves, SesRec, RtRec, Phases
  <2>3. ~Done(Closing)
      BY <2>2 DEF Phases, Done, Terminal
  <2> QED BY <2>1, <2>2, <2>3 DEF ShutDownOnce, Ending, Done
<1>3. CASE Begins
  <2>1. /\ UNCHANGED <<ses, rt, alloc>> /\ worker.pc = "begin" /\ worker'.pc \in {"wait", "launch"}
        /\ \A x \in DOMAIN op : x # worker.op => op'[x] = op[x]
      BY <1>3 DEF Begins, Becomes, Rest
  <2>2. worker.op = Closing => op'[Closing].state = "running" /\ op[Closing].state = "queued"
      BY <1>3 DEF Begins, Becomes, Fates, Served
  <2>3. op'[Closing].state \in Terminal <=> op[Closing].state \in Terminal
      BY <2>1, <2>2, Holds DEF Terminal
  <2> QED BY <2>1, <2>3 DEF ShutDownOnce, Ending, Done
<1>4. CASE Runs /\ RunsOn
  <2>1. /\ worker.pc = "act" /\ worker.op # Closing /\ worker'.op = worker.op /\ ses' = ses
        /\ op'[Closing] = op[Closing] /\ rt'.state = rt.state
      BY <1>4, Holds DEF Runs, Becomes, Served
  <2>2. rt.state = "open"
    <3>1. ~Done(Closing)
        BY <2>1, Holds DEF CloseOrder, Away
    <3>2. ses.setup # "failed"
        BY <2>1 DEF Phases
    <3> QED BY <1>0, <2>1, <3>1, <3>2 DEF ShutDownOnce, Ending, RtRec
  <2>3. ses.setup = "done"
      BY <1>0, <2>1 DEF Phases, SesRec
  <2> QED BY <2>1, <2>2, <2>3 DEF ShutDownOnce, Ending, Done
<1>5. CASE Shuts
  <2>1. /\ worker'.op = Closing /\ worker'.pc = "publish" /\ rt'.state = "closed"
        /\ (rt'.unknown => rt'.cuda = "abandoned") /\ \A a \in Alloc : ~alloc'[a].live
        /\ op'[Closing].state = op[Closing].state
      BY <1>5 DEF Shuts, Becomes
  <2> QED BY <2>1 DEF ShutDownOnce, Ending, Done
<1>6. CASE Finishes
  <2>1. /\ UNCHANGED <<ses, rt, alloc>> /\ worker.pc = "finish" /\ worker'.pc \in {"wait", "stop"}
        /\ \A x \in DOMAIN op : x # worker.op => op'[x] = op[x]
      BY <1>6 DEF Finishes, Becomes, Rest
  <2>2. CASE worker.op = Closing
    <3>1. rt.state = "closed" /\ op'[Closing].state \in Terminal
        BY <1>6, <2>1, <2>2 DEF Finishes, Becomes, Ending, ShutDownOnce, Terminal
    <3> QED BY <2>1, <3>1 DEF ShutDownOnce, Done
  <2>3. CASE worker.op # Closing
    <3>1. op'[Closing] = op[Closing]
        BY <2>1, <2>3, Holds
    <3> QED BY <2>1, <2>3, <3>1 DEF ShutDownOnce, Ending, Done
  <2> QED BY <2>2, <2>3
<1>7. CASE Take
  <2>1. /\ UNCHANGED <<op, rt, alloc>> /\ worker.pc = "wait" /\ worker'.pc = "begin"
        /\ ses'.setup = ses.setup
      BY <1>0, <1>7 DEF Take, Serve, SesRec
  <2> QED BY <2>1 DEF ShutDownOnce, Ending, Done
<1>8. CASE Launch
  <2>1. UNCHANGED <<op, ses, rt, alloc>> /\ worker'.op = worker.op /\ worker.op # Closing
      BY <1>8, Holds DEF Launch, WorkerOK
  <2> QED BY <2>1 DEF ShutDownOnce, Ending, Done
<1>9. CASE Publish
  <2>1. /\ UNCHANGED <<op, ses, rt, alloc>> /\ worker'.op = worker.op
        /\ worker.pc = "publish" /\ worker'.pc = "finish"
      BY <1>9, Holds DEF Publish, WorkerOK
  <2> QED BY <2>1 DEF ShutDownOnce, Ending, Done
<1>10. CASE Leave
  <2>1. /\ UNCHANGED <<op, rt, alloc>> /\ ses'.setup = ses.setup
        /\ worker.pc \in {"stop", "wait", "exit"} /\ worker'.pc \in {"wait", "exit", "none"}
      BY <1>0, <1>10, Holds DEF Leave, Stop, LeaveLoop, SignalExit, Rest, WorkerOK, SesRec
  <2> QED BY <2>1 DEF ShutDownOnce, Ending, Done
<1> QED BY <1>1, <1>2, <1>3, <1>4, <1>5, <1>6, <1>7, <1>8, <1>9, <1>10, NextShape, ServingShape

-----------------------------------------------------------------------------
(* What no step changes: what an operation is, and how it has ended. *)
Lasting ==
  /\ DOMAIN op \subseteq DOMAIN op' /\ Created \subseteq Created'
  /\ \A x \in DOMAIN op :
       /\ op'[x].kind = op[x].kind /\ op'[x].alloc = op[x].alloc /\ op'[x].caller = op[x].caller
       /\ Done(x) => op'[x].state = op[x].state /\ op'[x].error = op[x].error
  /\ ses.setup = "done" => ses'.setup = "done"
  /\ ses.closing => ses'.closing

LEMMA ServingLasts ==
  ASSUME SessionAssumption, SessInv, Serving
  PROVE  Lasting /\ th' = th /\ DOMAIN op' = DOMAIN op /\ Created' = Created
<1> USE DEF SessInv
<1>0. ses \in SesRec
    BY TypeParts
<1>1. th' = th
    BY DEF Serving, Setup, SetupSucceeds, SetupFails, UndoSetup, StartFails, Take, Begin, Launch,
           Run, RunTransaction, RunGemm, RunAccess, RunPlan, RunAllocate, RunRelease, ShutDown,
           Publish, Finish, Leave, Stop, LeaveLoop, SignalExit
<1>2. CASE op' = op
  <2>1. (ses.setup = "done" => ses'.setup = "done") /\ (ses.closing => ses'.closing)
    <3>1. CASE Setup
        BY <3>1, SetupShape DEF SetupMoves, Phases
    <3>2. CASE Take \/ Leave
        BY <1>0, <3>2 DEF Take, Leave, Stop, LeaveLoop, SignalExit, SesRec
    <3>3. CASE ses' = ses
        BY <3>3
    <3> QED BY <3>1, <3>2, <3>3 DEF Serving, Begin, Launch, Run, RunTransaction, RunGemm, RunAccess, RunPlan,
              RunAllocate, RunRelease, ShutDown, Publish, Finish
  <2> QED BY <1>1, <1>2, <2>1 DEF Lasting, Created, Done
<1>3. ASSUME Begins \/ Finishes \/ Runs \/ Shuts
      PROVE  Lasting /\ DOMAIN op' = DOMAIN op /\ Created' = Created
  <2>1. /\ DOMAIN op' = DOMAIN op /\ ses' = ses /\ worker.op \in DOMAIN op
        /\ \A x \in DOMAIN op : x # worker.op => op'[x] = op[x]
        /\ op'[worker.op].kind = op[worker.op].kind /\ op'[worker.op].alloc = op[worker.op].alloc
        /\ op'[worker.op].caller = op[worker.op].caller
        /\ worker.pc \in Executing \union {"begin"}
    <3>1. CASE Begins
        BY <3>1, Holds DEF Begins, Becomes, Away, Executing
    <3>2. CASE Finishes
        BY <3>2, Holds DEF Finishes, Becomes, Away, Executing
    <3>3. CASE Runs
        BY <3>3, Holds DEF Runs, Becomes, Away, Executing
    <3>4. CASE Shuts
        BY <3>4, Holds DEF Shuts, Becomes, Away, Executing
    <3> QED BY <1>3, <3>1, <3>2, <3>3, <3>4
  <2>2. ~Done(worker.op)
      BY <2>1 DEF Served, Done, Terminal
  <2> QED BY <2>1, <2>2 DEF Lasting, Created, Done
<1>4. Setup \/ Take \/ Launch \/ Publish \/ Leave => op' = op
    BY DEF Setup, SetupSucceeds, SetupFails, UndoSetup, StartFails, Take, Launch, Publish, Leave, Stop,
           LeaveLoop, SignalExit
<1> QED BY <1>1, <1>2, <1>3, <1>4, ServingShape DEF Lasting, Created

LEMMA OthersLast ==
  ASSUME SessionAssumption, SessInv, Others
  PROVE  Lasting
<1> USE DEF SessInv
<1>1. Outside /\ OthersKeep
    BY OutsideShape, OthersShape
<1> QED BY <1>1 DEF Outside, OthersKeep, SameFate, Lasting, CloseAsked

LEMMA NextLasts ==
  ASSUME SessionAssumption, SessInv, Next
  PROVE  Lasting
BY NextShape, ServingLasts, OthersLast

(* How the calls move. *)
LEMMA CallsMove ==
  ASSUME SessionAssumption, SessInv, Next
  PROVE  \/ th' = th /\ Created' = Created
         \/ \E t \in Thread : SubmitMoves(t)
         \/ \E t \in Thread : EndMoves(t) /\ (SubmitRefused(t) \/ Return(t) \/ TimeOut(t))
         \/ \E t \in Thread : AskMoves(t) \/ FailMoves(t) \/ CloserMoves(t)
<1> USE DEF SessInv
<1>1. TypeOK'
    BY TypeStep
<1>2. CASE Serving
    BY <1>2, ServingLasts
<1>3. ASSUME NEW o \in Op, Cancel(o) \/ DeadlinePasses(o) PROVE th' = th /\ Created' = Created
    BY <1>3 DEF Cancel, DeadlinePasses, Created
<1>4. ASSUME NEW t \in Thread, Submit(t) PROVE SubmitMoves(t)
    BY <1>1, <1>4, SubmitMove
<1>5. ASSUME NEW t \in Thread, SubmitRefused(t) \/ Return(t) \/ TimeOut(t) PROVE EndMoves(t)
    BY <1>1, <1>5, EndMove
<1>6. ASSUME NEW t \in Thread, Ask(t) PROVE AskMoves(t)
    BY <1>1, <1>6, AskMove
<1>7. ASSUME NEW t \in Thread, HandleFails(t) PROVE FailMoves(t)
    BY <1>1, <1>7, FailMove
<1>8. ASSUME NEW t \in Thread, Closer(t) PROVE CloserMoves(t)
    BY <1>1, <1>8, CloserShape
<1> QED BY <1>2, <1>3, <1>4, <1>5, <1>6, <1>7, <1>8, NextShape DEF Others, Client

CallTyped(t) ==
  /\ th[t].pc \in {"submit", "wait", "closing"} => ses.setup = "done"
  /\ th[t].pc = "idle" => th[t] = Idle
  /\ th[t].timed => th[t].call \in {"drain", "close"}
  /\ th[t].pc \in {"submit", "wait"} => th[t].call \in Kind
  /\ th[t].call \in Borrowing => th[t].alloc \in Alloc
  /\ th[t].pc \in {"closing", "exiting", "join", "closed"} =>
       th[t].call = "close" /\ th[t].alloc = NoAlloc
  /\ th[t].pc = "wait" =>
       /\ th[t].op \in Created
       /\ op[th[t].op].kind = th[t].call /\ op[th[t].op].alloc = th[t].alloc

LEMMA CallsTypedStep ==
  ASSUME SessionAssumption, SessInv, Next
  PROVE  CallsTyped'
<1> USE DEF SessInv
<1>0. /\ Lasting /\ TypeOK' /\ ses \in SesRec /\ ses' \in SesRec
      /\ th \in [Thread -> ThRec(DOMAIN op)]
    BY NextLasts, TypeStep, TypeParts, CallsTypedAs DEF TypeOK, SesRec
<1> SUFFICES \A t \in Thread : CallTyped(t)'
    BY DEF CallsTyped, CallTyped
<1>1. \A t \in Thread : CallTyped(t)
    BY DEF CallsTyped, CallTyped
<1>2. Idle.pc = "idle" /\ Idle.call = "none" /\ ~Idle.timed
    BY IdleRecord DEF Idle
<1>3. ASSUME NEW t \in Thread, th'[t] = th[t] PROVE CallTyped(t)'
    BY <1>0, <1>1, <1>3 DEF CallTyped, Lasting, Created
<1>4. ASSUME NEW t \in Thread, th'[t] = Idle PROVE CallTyped(t)'
    BY <1>2, <1>4 DEF CallTyped, Borrowing
<1>5. ASSUME NEW t \in Thread, SubmitMoves(t) PROVE CallTyped(t)'
  <2>1. CASE th[t].call \in AsyncKinds
      BY <1>4, <1>5, <2>1 DEF SubmitMoves
  <2>2. CASE th[t].call \notin AsyncKinds
    <3> DEFINE o == Cardinality(Created) + 1
    <3>1. /\ th'[t].pc = "wait" /\ th'[t].op = o /\ th[t].pc = "submit"
          /\ th'[t].call = th[t].call /\ th'[t].alloc = th[t].alloc /\ th'[t].timed = th[t].timed
          /\ o \in Created' /\ op'[o].kind = th[t].call /\ op'[o].alloc = th[t].alloc
          /\ ses' = ses
        BY <1>5, <2>2 DEF SubmitMoves, Submits
    <3> HIDE DEF o
    <3> QED BY <1>1, <3>1 DEF CallTyped
  <2> QED BY <2>1, <2>2
<1>6. ASSUME NEW t \in Thread, AskMoves(t) PROVE CallTyped(t)'
    BY <1>6 DEF AskMoves, AsksFor, CallTyped, SessionAssumption, Kind
<1>7. ASSUME NEW t \in Thread, FailMoves(t) PROVE CallTyped(t)'
  <2>1. /\ th[t].pc = "wait" /\ th[t].call = "allocate" /\ ses' = ses
        /\ th'[t].pc = "submit" /\ th'[t].call = "release" /\ th'[t].alloc = th[t].alloc /\ ~th'[t].timed
      BY <1>7 DEF FailMoves
  <2>2. th[t].alloc \in Alloc /\ ses.setup = "done"
      BY <1>1, <2>1 DEF CallTyped, Borrowing
  <2> QED BY <2>1, <2>2 DEF CallTyped, Kind
<1>8. ASSUME NEW t \in Thread, CloserMoves(t) PROVE CallTyped(t)'
  <2>1. CASE th'[t] = Idle
      BY <1>4, <2>1
  <2>2. CASE th'[t] # Idle
    <3>1. /\ th'[t].pc \in {"closing", "exiting", "join", "closed"}
          /\ th'[t].call = "close" /\ th'[t].alloc = NoAlloc
          /\ th'[t].pc = "closing" => ses'.setup = "done"
        BY <1>0, <1>8, <2>2 DEF CloserMoves, Lasting
    <3> QED BY <3>1 DEF CallTyped, Borrowing
  <2> QED BY <2>1, <2>2
<1>9. ASSUME NEW t \in Thread, SubmitMoves(t) \/ EndMoves(t) \/ AskMoves(t) \/ FailMoves(t) \/ CloserMoves(t)
      PROVE  \A s \in Thread : CallTyped(s)'
  <2>1. CallTyped(t)'
      BY <1>4, <1>5, <1>6, <1>7, <1>8, <1>9 DEF EndMoves
  <2>2. \A s \in Thread : s # t => th'[s] = th[s]
      BY <1>9 DEF SubmitMoves, EndMoves, AskMoves, FailMoves, CloserMoves, Moves
  <2>3. ASSUME NEW s \in Thread, s # t PROVE CallTyped(s)'
      BY <1>3, <2>2, <2>3
  <2> QED BY <2>1, <2>3
<1> QED BY <1>3, <1>9, CallsMove

CallerWaits(o) ==
  op[o].kind \in Borrowing /\ ~Done(o) =>
    op[o].caller \in Thread /\ th[op[o].caller].pc = "wait" /\ th[op[o].caller].op = o

LEMMA CallersWaitStep ==
  ASSUME SessionAssumption, SessInv, Next
  PROVE  CallersWait'
<1> USE DEF SessInv
<1>0. /\ Lasting /\ \A o \in Created : CallerWaits(o)
      /\ \A t \in Thread : CallTyped(t)
      /\ Created \subseteq DOMAIN op
    BY NextLasts DEF CallersWait, CallerWaits, CallsTyped, CallTyped, Created
<1>1. ASSUME NEW o \in Created, op'[o].kind \in Borrowing, op'[o].state \notin Terminal
      PROVE  /\ op[o].caller \in Thread /\ th[op[o].caller].pc = "wait" /\ th[op[o].caller].op = o
             /\ ~Done(o) /\ op'[o].caller = op[o].caller /\ op[o].kind \in Borrowing
    BY <1>0, <1>1 DEF Lasting, CallerWaits, Done
<1> SUFFICES ASSUME NEW o \in Created', op'[o].kind \in Borrowing, op'[o].state \notin Terminal
             PROVE  op'[o].caller \in Thread /\ th'[op'[o].caller].pc = "wait" /\ th'[op'[o].caller].op = o
    BY DEF CallersWait, Done
<1>2. CASE th' = th /\ Created' = Created
    BY <1>1, <1>2
<1>3. ASSUME NEW t \in Thread, \A s \in Thread : s # t => th'[s] = th[s], Created' = Created,
             ~(th[t].pc = "wait" /\ op[th[t].op].kind \in Borrowing /\ ~Done(th[t].op))
      PROVE  op'[o].caller \in Thread /\ th'[op'[o].caller].pc = "wait" /\ th'[op'[o].caller].op = o
    BY <1>1, <1>3
<1>4. ASSUME NEW t \in Thread, SubmitMoves(t)
      PROVE  op'[o].caller \in Thread /\ th'[op'[o].caller].pc = "wait" /\ th'[op'[o].caller].op = o
  <2> DEFINE n == Cardinality(Created) + 1
  <2>1. /\ Created' = Created \union {n} /\ op'[n].kind = th[t].call /\ op'[n].caller = t
        /\ th[t].pc = "submit" /\ \A s \in Thread : s # t => th'[s] = th[s]
        /\ th[t].call \notin AsyncKinds => th'[t].pc = "wait" /\ th'[t].op = n
      BY <1>4 DEF SubmitMoves, Submits, Moves
  <2> HIDE DEF n
  <2>2. CASE o = n
    <3>1. th[t].call \notin AsyncKinds
        BY <2>1, <2>2 DEF SessionAssumption, Borrowing
    <3> QED BY <2>1, <2>2, <3>1
  <2>3. CASE o # n
      BY <1>1, <2>1, <2>3
  <2> QED BY <2>2, <2>3
<1>5. ASSUME NEW t \in Thread, EndMoves(t), SubmitRefused(t) \/ Return(t) \/ TimeOut(t)
      PROVE  op'[o].caller \in Thread /\ th'[op'[o].caller].pc = "wait" /\ th'[op'[o].caller].op = o
  <2>1. (\A s \in Thread : s # t => th'[s] = th[s]) /\ Created' = Created
      BY <1>5 DEF EndMoves, Moves, Created
  <2>2. ~(th[t].pc = "wait" /\ op[th[t].op].kind \in Borrowing /\ ~Done(th[t].op))
    <3>1. CASE SubmitRefused(t)
        BY <3>1 DEF SubmitRefused
    <3>2. CASE Return(t)
        BY <3>2 DEF Return
    <3>3. CASE TimeOut(t)
        BY <1>0, <3>3 DEF TimeOut, CallTyped, Borrowing
    <3> QED BY <1>5, <3>1, <3>2, <3>3
  <2> QED BY <1>3, <2>1, <2>2
<1>6. ASSUME NEW t \in Thread, AskMoves(t) \/ FailMoves(t) \/ CloserMoves(t)
      PROVE  op'[o].caller \in Thread /\ th'[op'[o].caller].pc = "wait" /\ th'[op'[o].caller].op = o
  <2>1. (\A s \in Thread : s # t => th'[s] = th[s]) /\ Created' = Created
      BY <1>6 DEF AskMoves, FailMoves, CloserMoves, Moves, Created
  <2>2. ~(th[t].pc = "wait" /\ op[th[t].op].kind \in Borrowing /\ ~Done(th[t].op))
    <3>1. CASE AskMoves(t)
        BY <3>1 DEF AskMoves
    <3>2. CASE FailMoves(t)
        BY <3>2 DEF FailMoves, Succeeded
    <3>3. CASE CloserMoves(t)
        BY <3>3 DEF CloserMoves
    <3> QED BY <1>6, <3>1, <3>2, <3>3
  <2> QED BY <1>3, <2>1, <2>2
<1> QED BY <1>2, <1>4, <1>5, <1>6, CallsMove

JoinInv(t) ==
  /\ th[t].pc = "join" => ses.joinClaimed
  /\ th[t].pc \in {"join", "closed"} => ses.exited

LEMMA JoiningStep ==
  ASSUME SessionAssumption, SessInv, Next
  PROVE  Joining'
<1> USE DEF SessInv
<1>0. /\ ses \in SesRec /\ th \in [Thread -> ThRec(DOMAIN op)] /\ Idle.pc = "idle" /\ Idle.call = "none"
      /\ th' \in [Thread -> ThRec(DOMAIN op')]
    BY TypeParts, CallsTypedAs, TypeStep DEF TypeOK, ThRec, Idle
<1>1. ASSUME ses'.joinClaimed = ses.joinClaimed, ses'.apiClosed = ses.apiClosed,
             ses.exited => ses'.exited, ses.setup = "done" => ses'.setup = "done",
             \A s \in Thread : th'[s].pc = th[s].pc \/ th'[s].pc \notin {"join", "closed"}
      PROVE  Joining'
    BY <1>1 DEF Joining, OneJoiner
<1>2. CASE Serving
  <2>1. th' = th /\ (ses.setup = "done" => ses'.setup = "done")
      BY <1>2, ServingLasts DEF Lasting
  <2>2. ses'.joinClaimed = ses.joinClaimed /\ ses'.apiClosed = ses.apiClosed /\ (ses.exited => ses'.exited)
    <3>1. CASE Setup
        BY <3>1, SetupShape DEF SetupMoves, Phases
    <3>2. CASE Take
        BY <1>0, <3>2 DEF Take, SesRec
    <3>3. CASE Leave
        BY <1>0, <3>3 DEF Leave, Stop, LeaveLoop, SignalExit, SesRec
    <3>4. CASE ses' = ses
        BY <3>4
    <3> QED BY <1>2, <3>1, <3>2, <3>3, <3>4 DEF Serving, Begin, Launch, Run, RunTransaction, RunGemm, RunAccess,
              RunPlan, RunAllocate, RunRelease, ShutDown, Publish, Finish
  <2> QED BY <1>1, <2>1, <2>2
<1>3. ASSUME NEW o \in Op, Cancel(o) \/ DeadlinePasses(o) PROVE Joining'
    BY <1>1, <1>3 DEF Cancel, DeadlinePasses
<1>4. ASSUME NEW t \in Thread, Client(t) PROVE Joining'
  <2>1. ses' = ses
      BY <1>4 DEF Client, Submit, SubmitRefused, Return, HandleFails, TimeOut, Ask, CallDrain,
                  CallAllocate, CallRelease, Call
  <2>2. th'[t].pc \notin {"join", "closed"} /\ \A s \in Thread : s # t => th'[s] = th[s]
    <3>1. TypeOK'
        BY TypeStep
    <3>2. CASE Submit(t)
      <4>1. SubmitMoves(t)
          BY <3>1, <3>2, SubmitMove
      <4> QED BY <1>0, <4>1 DEF SubmitMoves, Moves
    <3>3. CASE SubmitRefused(t) \/ Return(t) \/ TimeOut(t)
        BY <1>0, <3>1, <3>3, EndMove DEF EndMoves, Moves
    <3>4. CASE HandleFails(t)
        BY <3>1, <3>4, FailMove DEF FailMoves, Moves
    <3>5. CASE Ask(t)
        BY <3>1, <3>5, AskMove DEF AskMoves, Moves
    <3> QED BY <1>4, <3>2, <3>3, <3>4, <3>5 DEF Client
  <2> QED BY <1>1, <2>1, <2>2
<1>5. ASSUME NEW t \in Thread, Closer(t) PROVE Joining'
  <2>0. \A s \in Thread : s # t => th'[s] = th[s]
      BY <1>5, CloserShape, TypeStep DEF CloserMoves, Moves
  <2>1. CASE CallClose(t)
    <3>1. /\ ses'.joinClaimed = ses.joinClaimed /\ ses'.apiClosed = ses.apiClosed /\ ses'.exited = ses.exited
          /\ ses'.setup = ses.setup
        BY <1>0, <2>1 DEF CallClose, SesRec
    <3>2. th'[t].pc \in {"closing", "exiting"}
        BY <1>0, <2>1 DEF CallClose, Idle
    <3> QED BY <1>1, <2>0, <3>1, <3>2
  <2>2. CASE CloseServed(t)
    <3>1. th'[t].pc = "exiting" /\ ses' = ses
        BY <1>0, <2>2 DEF CloseServed, ThRec
    <3> QED BY <1>1, <2>0, <3>1
  <2>3. CASE CloseTimesOut(t)
    <3>1. th'[t].pc = "idle" /\ ses' = ses
        BY <1>0, <2>3 DEF CloseTimesOut
    <3> QED BY <1>1, <2>0, <3>1
  <2>4. CASE ClaimJoin(t)
    <3>1. /\ ses'.joinClaimed /\ ses'.apiClosed = ses.apiClosed /\ ses'.exited = ses.exited
          /\ ses'.setup = ses.setup /\ ses.exited
        BY <1>0, <2>4 DEF ClaimJoin, SesRec
    <3>2. th'[t].pc = (IF ses.joinClaimed THEN "closed" ELSE "join")
        BY <1>0, <2>4 DEF ClaimJoin, ThRec
    <3> QED BY <2>0, <3>1, <3>2 DEF Joining, OneJoiner
  <2>5. CASE Join(t)
    <3>1. th'[t].pc = "closed" /\ ses' = ses /\ th[t].pc = "join"
        BY <1>0, <2>5 DEF Join, ThRec
    <3> QED BY <2>0, <3>1 DEF Joining, OneJoiner
  <2>6. CASE CloseReturns(t)
    <3>1. th'[t].pc = "idle" /\ th[t].pc = "closed"
        BY <1>0, <2>6 DEF CloseReturns
    <3>2. /\ ses'.joinClaimed = ses.joinClaimed /\ ses'.exited = ses.exited /\ ses'.setup = ses.setup
          /\ ses'.apiClosed = (ses.apiClosed \/ (ses.setup = "done" /\ th[t].cleanup = "none"))
      <4> DEFINE closed == (ses.apiClosed \/ (ses.setup = "done" /\ th[t].cleanup = "none"))
      <4>1. ses' = [ses EXCEPT !.apiClosed = closed] /\ closed \in BOOLEAN
          BY <1>0, <2>6 DEF CloseReturns, SesRec
      <4> HIDE DEF closed
      <4>2. /\ ses'.joinClaimed = ses.joinClaimed /\ ses'.exited = ses.exited /\ ses'.setup = ses.setup
            /\ ses'.apiClosed = closed
          BY <1>0, <4>1 DEF SesRec
      <4> QED BY <4>2 DEF closed
    <3> QED BY <2>0, <3>1, <3>2 DEF Joining, OneJoiner
  <2> QED BY <1>5, <2>1, <2>2, <2>3, <2>4, <2>5, <2>6 DEF Closer
<1> QED BY <1>2, <1>3, <1>4, <1>5, NextShape DEF Others

-----------------------------------------------------------------------------
(* Handles. *)
Alone(t) == th[t].call = "allocate" =>
  ~alloc[th[t].alloc].released /\ \A s \in Thread \ {t} : th[s].alloc # th[t].alloc
Freed(t) == th[t].pc = "wait" /\ Succeeded(th[t].op, "release") => ~alloc[th[t].alloc].live
Releasing(a) == \E t \in Thread : th[t].call = "release" /\ th[t].alloc = a
Gone(a) == alloc[a].released /\ alloc[a].live => ses.closing \/ Releasing(a)

LEMMA HandleParts ==
  Handles <=> /\ \A t \in Thread : Alone(t)
              /\ \A a \in Alloc : alloc[a].released => alloc[a].made
              /\ Finishing("allocate") => alloc[op[worker.op].alloc].made
              /\ \A o \in Created :
                   Succeeded(o, "allocate") /\ op[o].alloc \in Alloc => alloc[op[o].alloc].made
              /\ Finishing("release") => ~alloc[op[worker.op].alloc].live
              /\ \A t \in Thread : Freed(t)
              /\ \A a \in Alloc : Gone(a)
BY DEF Handles, Alone, Freed, Gone, Releasing, ReleasedMeansGone

LEMMA HandlePartsNext ==
  ASSUME \A t \in Thread : Alone(t)', \A a \in Alloc : alloc'[a].released => alloc'[a].made,
         (Finishing("allocate") => alloc[op[worker.op].alloc].made)',
         \A o \in Created' :
           Succeeded(o, "allocate")' /\ op'[o].alloc \in Alloc => alloc'[op'[o].alloc].made,
         (Finishing("release") => ~alloc[op[worker.op].alloc].live)',
         \A t \in Thread : Freed(t)', \A a \in Alloc : Gone(a)'
  PROVE  Handles'
BY DEF Handles, Alone, Freed, Gone, Releasing, ReleasedMeansGone, Succeeded, Done

(* Who allocates or releases waits for it, and names what the operation names. *)
LEMMA Callers ==
  ASSUME SessionAssumption, SessInv, NEW o \in Created, op[o].kind \in Borrowing, ~Done(o)
  PROVE  \E t \in Thread : th[t].pc = "wait" /\ th[t].op = o /\ th[t].call = op[o].kind
                          /\ th[t].alloc = op[o].alloc /\ op[o].alloc \in Alloc
<1>1. PICK t \in Thread : t = op[o].caller /\ th[t].pc = "wait" /\ th[t].op = o
    BY DEF SessInv, CallersWait
<1>2. CallTyped(t)
    BY DEF SessInv, CallsTyped, CallTyped
<1> QED BY <1>1, <1>2 DEF CallTyped

(* Only an allocation that runs makes an allocation live. *)
LEMMA ServingAllocs ==
  ASSUME SessionAssumption, SessInv, Serving
  PROVE  /\ alloc' \in [Alloc -> AllocRec]
         /\ \A a \in Alloc : /\ alloc'[a].released = alloc[a].released
                             /\ alloc[a].made => alloc'[a].made
                             /\ alloc'[a].live /\ ~alloc[a].live =>
                                  \E t \in Thread : th[t].call = "allocate" /\ th[t].alloc = a
<1> USE DEF SessInv
<1>0. alloc \in [Alloc -> AllocRec]
    BY TypeParts
<1>1. CASE alloc' = alloc
    BY <1>0, <1>1
<1>2. CASE Shuts
    BY <1>2 DEF Shuts
<1>3. ASSUME Runs, RunsOn, alloc' # alloc
      PROVE  /\ alloc' \in [Alloc -> AllocRec]
             /\ \A a \in Alloc : /\ alloc'[a].released = alloc[a].released
                                 /\ alloc[a].made => alloc'[a].made
                                 /\ alloc'[a].live /\ ~alloc[a].live =>
                                      \E t \in Thread : th[t].call = "allocate" /\ th[t].alloc = a
  <2> DEFINE o == worker.op
             b == op[o].alloc
  <2>1. o \in Created /\ ~Done(o)
      BY <1>3, Holds DEF Runs, Served, Executing, Done, Terminal, Created, Away
  <2>2. CASE op[o].kind = "allocate"
    <3>1. PICK t \in Thread : th[t].call = "allocate" /\ th[t].alloc = b /\ b \in Alloc
        BY <2>1, <2>2, Callers DEF Borrowing
    <3>2. PICK m \in {TRUE, alloc[b].made} : SetAlloc(b, TRUE, m, alloc[b].released)
        BY <1>3, <2>2 DEF RunsOn
    <3>3. alloc[b].made \in BOOLEAN
        BY <1>0, <3>1 DEF AllocRec
    <3> QED BY <3>1, <3>2, <3>3 DEF SetAlloc
  <2>3. CASE op[o].kind # "allocate"
    <3>1. SetAlloc(b, FALSE, alloc[b].made, alloc[b].released)
        BY <1>3, <2>3 DEF RunsOn
    <3> QED BY <3>1 DEF SetAlloc
  <2> QED BY <2>2, <2>3
<1>4. Setup \/ Take \/ Begins \/ Launch \/ Publish \/ Finishes \/ Leave => alloc' = alloc
    BY DEF Setup, SetupSucceeds, SetupFails, UndoSetup, StartFails, Take, Begins, Launch, Publish,
           Finishes, Leave, Stop, LeaveLoop, SignalExit
<1> QED BY <1>1, <1>2, <1>3, <1>4, ServingShape

(* An operation succeeds when the worker finishes it. *)
LEMMA ServingSucceeds ==
  ASSUME SessionAssumption, SessInv, Serving, NEW x \in Created, NEW kind,
         Succeeded(x, kind)'
  PROVE  Succeeded(x, kind) \/ (Finishing(kind) /\ worker.op = x /\ alloc' = alloc)
<1> USE DEF SessInv
<1>0. op'[x].kind = kind /\ op'[x].error = "none" /\ op'[x].state \in Terminal
    BY DEF Succeeded, Done
<1>1. CASE op'[x].state = op[x].state /\ op'[x].error = op[x].error /\ op'[x].kind = op[x].kind
    BY <1>0, <1>1 DEF Succeeded, Done
<1>2. CASE Begins
    BY <1>0, <1>1, <1>2 DEF Begins, Becomes, Created, Terminal
<1>3. CASE Finishes
  <2>1. CASE x = worker.op
      BY <1>0, <1>3, <2>1 DEF Finishes, Becomes, Finishing
  <2>2. CASE x # worker.op
      BY <1>1, <1>3, <2>2 DEF Finishes, Becomes, Created
  <2> QED BY <2>1, <2>2
<1>4. CASE Runs
    BY <1>1, <1>4 DEF Runs, Becomes, Created
<1>5. CASE Shuts
    BY <1>1, <1>5 DEF Shuts, Becomes, Created
<1>6. Setup \/ Take \/ Launch \/ Publish \/ Leave => op' = op
    BY DEF Setup, SetupSucceeds, SetupFails, UndoSetup, StartFails, Take, Launch, Publish, Leave, Stop,
           LeaveLoop, SignalExit
<1> QED BY <1>1, <1>2, <1>3, <1>4, <1>5, <1>6, ServingShape

(* The worker begins to finish an operation when it ran. *)
LEMMA ServingFinishes ==
  ASSUME SessionAssumption, SessInv, Serving, NEW kind \in {"allocate", "release"}, Finishing(kind)'
  PROVE  /\ worker'.op = worker.op /\ op'[worker.op].alloc = op[worker.op].alloc
         /\ \/ Finishing(kind) /\ alloc' = alloc
            \/ Runs /\ RunsOn /\ op[worker.op].kind = kind /\ worker'.result = "none"
<1> USE DEF SessInv
<1>0. /\ worker'.pc \in {"publish", "finish"} /\ op'[worker'.op].kind = kind /\ worker'.result = "none"
      /\ WorkerOK
    BY Holds DEF Finishing
<1>1. CASE Runs /\ RunsOn
    BY <1>0, <1>1 DEF Runs, Becomes
<1>2. CASE Shuts
  <2>1. op'[Closing].kind = "close"
      BY <1>2, Holds DEF Shuts, Becomes, OpsOK
  <2> QED BY <1>0, <1>2, <2>1 DEF Shuts
<1>3. CASE Publish
  <2>1. worker'.op = worker.op /\ worker'.result = worker.result /\ worker.pc = "publish"
      BY <1>0, <1>3 DEF Publish, WorkerOK
  <2>2. op' = op /\ alloc' = alloc
      BY <1>3 DEF Publish
  <2> QED BY <1>0, <2>1, <2>2 DEF Finishing
<1>4. CASE Launch
  <2>1. worker'.pc = "act" \/ worker'.result = "timeout"
      BY <1>0, <1>4 DEF Launch, WorkerOK
  <2> QED BY <1>0, <2>1
<1>5. CASE Setup \/ Take \/ Begins \/ Leave \/ Finishes
  <2>1. worker'.pc \notin {"publish", "finish"}
    <3>1. CASE Setup
        BY <3>1, SetupShape DEF SetupMoves
    <3>2. CASE Take
        BY <3>2 DEF Take, Serve
    <3>3. CASE Begins
        BY <3>3 DEF Begins, Rest
    <3>4. CASE Leave
        BY <1>0, <3>4 DEF Leave, Stop, LeaveLoop, SignalExit, WorkerOK, Rest
    <3>5. CASE Finishes
        BY <3>5 DEF Finishes, Rest
    <3> QED BY <1>5, <3>1, <3>2, <3>3, <3>4, <3>5
  <2> QED BY <1>0, <2>1
<1> QED BY <1>1, <1>2, <1>3, <1>4, <1>5, ServingShape

LEMMA ServingHandles ==
  ASSUME SessionAssumption, SessInv, Serving
  PROVE  Handles'
<1> USE DEF SessInv
<1>0. /\ th' = th /\ Lasting /\ Created' = Created /\ Handles /\ alloc \in [Alloc -> AllocRec]
      /\ \A t \in Thread : CallTyped(t)
    BY ServingLasts, TypeParts DEF CallsTyped, CallTyped
<1>1. \A a \in Alloc : /\ alloc'[a].released = alloc[a].released
                       /\ alloc[a].made => alloc'[a].made
                       /\ alloc'[a].live /\ ~alloc[a].live =>
                            \E t \in Thread : th[t].call = "allocate" /\ th[t].alloc = a
    BY ServingAllocs
<1>2. \A t \in Thread : Alone(t)'
  <2> SUFFICES ASSUME NEW t \in Thread, th[t].call = "allocate"
               PROVE  ~alloc'[th[t].alloc].released /\ \A s \in Thread \ {t} : th[s].alloc # th[t].alloc
      BY <1>0 DEF Alone
  <2>1. th[t].alloc \in Alloc
      BY <1>0 DEF CallTyped, Borrowing
  <2>2. ~alloc[th[t].alloc].released /\ \A s \in Thread \ {t} : th[s].alloc # th[t].alloc
      BY <1>0, HandleParts DEF Alone
  <2>3. alloc'[th[t].alloc].released = alloc[th[t].alloc].released
      BY <1>1, <2>1
  <2> QED BY <2>2, <2>3
<1>3. \A a \in Alloc : alloc'[a].released => alloc'[a].made
  <2>1. \A a \in Alloc : alloc[a].released => alloc[a].made
      BY <1>0, HandleParts
  <2> QED BY <1>1, <2>1
<1>4. \A a \in Alloc : Gone(a)'
  <2> SUFFICES ASSUME NEW a \in Alloc, alloc[a].released, alloc'[a].live
               PROVE  ses'.closing \/ \E t \in Thread : th[t].call = "release" /\ th[t].alloc = a
      BY <1>0, <1>1 DEF Gone, Releasing
  <2>1. alloc[a].live
    <3> SUFFICES ASSUME ~alloc[a].live PROVE FALSE
        OBVIOUS
    <3>1. \E t \in Thread : th[t].call = "allocate" /\ th[t].alloc = a
        BY <1>1
    <3>2. PICK t \in Thread : th[t].call = "allocate" /\ th[t].alloc = a
        BY <3>1
    <3>3. Alone(t)
        BY <1>0, HandleParts
    <3> QED BY <3>2, <3>3 DEF Alone
  <2>2. Gone(a)
      BY <1>0, HandleParts
  <2> QED BY <1>0, <2>1, <2>2 DEF Gone, Releasing, Lasting
<1>5. (Finishing("allocate") => alloc[op[worker.op].alloc].made)'
  <2> SUFFICES ASSUME Finishing("allocate")' PROVE (alloc[op[worker.op].alloc].made)'
      OBVIOUS
  <2>1. /\ worker'.op = worker.op /\ op'[worker.op].alloc = op[worker.op].alloc
        /\ \/ Finishing("allocate") /\ alloc' = alloc
           \/ Runs /\ RunsOn /\ op[worker.op].kind = "allocate" /\ worker'.result = "none"
      BY ServingFinishes
  <2>2. CASE Finishing("allocate") /\ alloc' = alloc
      BY <1>0, <2>1, <2>2, HandleParts
  <2>3. CASE Runs /\ RunsOn /\ op[worker.op].kind = "allocate" /\ worker'.result = "none"
    <3>1. worker.op \in Created /\ ~Done(worker.op)
        BY <2>3, Holds DEF Runs, Served, Executing, Done, Terminal, Created, Away
    <3>2. op[worker.op].alloc \in Alloc
        BY <2>3, <3>1, Callers DEF Borrowing
    <3> QED BY <2>1, <2>3, <3>2 DEF RunsOn, SetAlloc
  <2> QED BY <2>1, <2>2, <2>3
<1>6. (Finishing("release") => ~alloc[op[worker.op].alloc].live)'
  <2> SUFFICES ASSUME Finishing("release")' PROVE (~alloc[op[worker.op].alloc].live)'
      OBVIOUS
  <2>1. /\ worker'.op = worker.op /\ op'[worker.op].alloc = op[worker.op].alloc
        /\ \/ Finishing("release") /\ alloc' = alloc
           \/ Runs /\ RunsOn /\ op[worker.op].kind = "release" /\ worker'.result = "none"
      BY ServingFinishes
  <2>2. CASE Finishing("release") /\ alloc' = alloc
      BY <1>0, <2>1, <2>2, HandleParts
  <2>3. CASE Runs /\ RunsOn /\ op[worker.op].kind = "release" /\ worker'.result = "none"
    <3>1. worker.op \in Created /\ ~Done(worker.op)
        BY <2>3, Holds DEF Runs, Served, Executing, Done, Terminal, Created, Away
    <3>2. op[worker.op].alloc \in Alloc
        BY <2>3, <3>1, Callers DEF Borrowing
    <3> QED BY <2>1, <2>3, <3>2 DEF RunsOn, SetAlloc
  <2> QED BY <2>1, <2>2, <2>3
<1>7. \A o \in Created' :
         Succeeded(o, "allocate")' /\ op'[o].alloc \in Alloc => alloc'[op'[o].alloc].made
  <2> SUFFICES ASSUME NEW o \in Created, Succeeded(o, "allocate")', op'[o].alloc \in Alloc
               PROVE  alloc'[op'[o].alloc].made
      BY <1>0
  <2>1. op'[o].alloc = op[o].alloc
      BY <1>0 DEF Lasting, Succeeded, Created
  <2>2. alloc[op[o].alloc].made
    <3>1. CASE Succeeded(o, "allocate")
        BY <1>0, <2>1, <3>1, HandleParts
    <3>2. CASE Finishing("allocate") /\ worker.op = o
        BY <1>0, <3>2, HandleParts
    <3> QED BY <3>1, <3>2, ServingSucceeds
  <2> QED BY <1>1, <2>1, <2>2
<1>8. \A t \in Thread : Freed(t)'
  <2> SUFFICES ASSUME NEW t \in Thread, th[t].pc = "wait", Succeeded(th[t].op, "release")'
               PROVE  ~alloc'[th[t].alloc].live
      BY <1>0 DEF Freed, Succeeded, Done
  <2> DEFINE o == th[t].op
             a == th[t].alloc
  <2>1. o \in Created /\ op[o].kind = th[t].call /\ op[o].alloc = a
      BY <1>0 DEF CallTyped
  <2>2. PICK x \in Created : x = o
      BY <2>1
  <2>3. Succeeded(x, "release")'
      BY <1>0, <2>2 DEF Succeeded, Done
  <2>4. th[t].call = "release" /\ a \in Alloc
    <3>1. op'[o].kind = op[o].kind
        BY <1>0, <2>1 DEF Lasting, Created
    <3>2. op'[o].kind = "release"
        BY <2>2, <2>3 DEF Succeeded
    <3> QED BY <1>0, <2>1, <3>1, <3>2 DEF CallTyped, Borrowing
  <2>5. CASE Finishing("release") /\ worker.op = x /\ alloc' = alloc
      BY <1>0, <2>1, <2>2, <2>5, HandleParts
  <2>6. CASE Succeeded(x, "release")
    <3>1. ~alloc[a].live
        BY <1>0, <2>2, <2>6, HandleParts DEF Freed
    <3>2. SUFFICES ASSUME alloc'[a].live PROVE FALSE
        OBVIOUS
    <3>3. PICK s \in Thread : th[s].call = "allocate" /\ th[s].alloc = a
        BY <1>1, <2>4, <3>1, <3>2
    <3>4. Alone(s)
        BY <1>0, HandleParts
    <3> QED BY <2>4, <3>3, <3>4 DEF Alone
  <2> QED BY <2>3, <2>5, <2>6, ServingSucceeds
<1> QED BY <1>2, <1>3, <1>4, <1>5, <1>6, <1>7, <1>8, HandlePartsNext

(* Threads leave to the worker what is made and live. *)
Keeps == \A a \in Alloc : alloc'[a].made = alloc[a].made /\ alloc'[a].live = alloc[a].live
Untouched(t) == \A s \in Thread : s # t => th'[s] = th[s]

(* The call of a thread ends; a release that ends has released, or has     *)
(* given the handle back, unless the session closes.                       *)
Ends(t) ==
  /\ th'[t].call \in {"none", "close"} /\ th'[t].alloc = NoAlloc /\ th'[t].pc # "wait"
  /\ th[t].call = "release" =>
       \/ ses'.closing
       \/ /\ th[t].alloc \in Alloc
          /\ ~alloc'[th[t].alloc].live \/ ~alloc'[th[t].alloc].released
  /\ \A a \in Alloc : alloc'[a].released => alloc[a].released

LEMMA ReturnEnds ==
  ASSUME SessionAssumption, SessInv, NEW t \in Thread, Return(t), th'[t] = Idle, ses' = ses
  PROVE  Keeps /\ Ends(t)
<1> USE DEF SessInv
<1>0. /\ alloc \in [Alloc -> AllocRec] /\ Handles /\ CallTyped(t) /\ OpsOK
      /\ Idle.call = "none" /\ Idle.alloc = NoAlloc /\ Idle.pc = "idle"
    BY TypeParts DEF CallsTyped, CallTyped, Idle
<1> DEFINE a == th[t].alloc
           o == th[t].op
<1>1. th[t].pc = "wait" /\ Done(o) /\ o \in Created /\ op[o].kind = th[t].call
    BY <1>0 DEF Return, CallTyped
<1>2. CASE th[t].call = "release" /\ op[o].error # "none"
  <2>1. op[o].error # "closed"
      BY <1>0, <1>1 DEF OpsOK, OpRec, Error, Created
  <2>2. alloc' = [alloc EXCEPT ![a].released = FALSE]
      BY <1>2, <2>1 DEF Return
  <2>3. SetAlloc(a, alloc[a].live, alloc[a].made, FALSE) /\ a \in Alloc
      BY <1>0, <1>2, <2>2, SetReleased DEF CallTyped, Borrowing
  <2> QED BY <1>0, <2>3 DEF Keeps, Ends, SetAlloc
<1>3. CASE th[t].call = "release" /\ op[o].error = "none"
  <2>1. alloc' = alloc
      BY <1>3 DEF Return
  <2>2. ~alloc[a].live
      BY <1>0, <1>1, <1>3, HandleParts DEF Freed, Succeeded
  <2>3. a \in Alloc
      BY <1>0, <1>3 DEF CallTyped, Borrowing
  <2> QED BY <1>0, <2>1, <2>2, <2>3 DEF Keeps, Ends
<1>4. CASE th[t].call # "release"
  <2>1. alloc' = alloc
      BY <1>4 DEF Return
  <2> QED BY <1>0, <1>4, <2>1 DEF Keeps, Ends
<1> QED BY <1>2, <1>3, <1>4

(* A call goes on with its operation, or begins: one to allocate names an  *)
(* allocation nobody knows, the others one that is made.                   *)
Goes(t) ==
  /\ th'[t].pc = "submit" \/ (th'[t].pc = "wait" /\ th'[t].op \notin Created)
  /\ \/ /\ th'[t].call = th[t].call /\ th'[t].alloc = th[t].alloc /\ alloc' = alloc
     \/ /\ th[t].call # "release" /\ th'[t].call = "allocate" /\ alloc' = alloc
        /\ th'[t].alloc \in Alloc
        /\ ~alloc[th'[t].alloc].made /\ \A s \in Thread : th[s].alloc # th'[t].alloc
     \/ /\ th[t].call # "release" /\ th'[t].call # "allocate"
        /\ th'[t].alloc \in Alloc => /\ alloc[th'[t].alloc].made
                                    /\ \A s \in Thread \ {t} : th[s].alloc = th'[t].alloc =>
                                                                th[s].call # "allocate"
        /\ IF th'[t].call = "release"
           THEN SetAlloc(th'[t].alloc, alloc[th'[t].alloc].live, alloc[th'[t].alloc].made, TRUE)
           ELSE alloc' = alloc

LEMMA OthersMove ==
  ASSUME SessionAssumption, SessInv, Next, Others
  PROVE  /\ Keeps
         /\ \/ th' = th /\ alloc' = alloc
            \/ \E t \in Thread : Untouched(t) /\ (Ends(t) \/ Goes(t))
<1> USE DEF SessInv
<1>0. /\ TypeOK' /\ \A t \in Thread : CallTyped(t)
      /\ Idle.call = "none" /\ Idle.alloc = NoAlloc /\ Idle.pc = "idle"
      /\ Handles /\ Created \subseteq DOMAIN op
    BY TypeStep DEF CallsTyped, CallTyped, Idle, Created
<1>1. ASSUME NEW o \in Op, Cancel(o) \/ DeadlinePasses(o) PROVE th' = th /\ alloc' = alloc
    BY <1>1 DEF Cancel, DeadlinePasses
<1>2. ASSUME NEW t \in Thread, Submit(t) PROVE Untouched(t) /\ (Ends(t) \/ Goes(t)) /\ Keeps
  <2>1. SubmitMoves(t)
      BY <1>0, <1>2, SubmitMove
  <2>2. Untouched(t) /\ Keeps /\ alloc' = alloc /\ Cardinality(Created) + 1 \notin Created
      BY <1>0, <2>1 DEF SubmitMoves, Submits, Moves, Untouched, Keeps
  <2>3. CASE th[t].call \in AsyncKinds
    <3>1. th[t].call # "release" /\ th'[t] = Idle
        BY <2>1, <2>3 DEF SessionAssumption, SubmitMoves
    <3> QED BY <1>0, <2>2, <3>1 DEF Ends
  <2>4. CASE th[t].call \notin AsyncKinds
    <3>1. /\ th'[t].pc = "wait" /\ th'[t].op = Cardinality(Created) + 1
          /\ th'[t].call = th[t].call /\ th'[t].alloc = th[t].alloc
        BY <2>1, <2>4 DEF SubmitMoves
    <3> QED BY <2>2, <3>1 DEF Goes
  <2> QED BY <2>2, <2>3, <2>4
<1>3. ASSUME NEW t \in Thread, SubmitRefused(t) \/ Return(t) \/ TimeOut(t)
      PROVE  Untouched(t) /\ Ends(t) /\ Keeps
  <2>1. Untouched(t) /\ th'[t] = Idle /\ ses' = ses
      BY <1>0, <1>3, EndMove DEF EndMoves, Moves, Untouched
  <2>2. CASE Return(t)
      BY <2>1, <2>2, ReturnEnds
  <2>3. CASE SubmitRefused(t)
      BY <1>0, <2>1, <2>3 DEF SubmitRefused, Ends, Keeps
  <2>4. CASE TimeOut(t)
      BY <1>0, <2>1, <2>4 DEF TimeOut, Ends, Keeps, CallTyped
  <2> QED BY <1>3, <2>1, <2>2, <2>3, <2>4
<1>4. ASSUME NEW t \in Thread, Ask(t) PROVE Untouched(t) /\ Goes(t) /\ Keeps
  <2>1. AskMoves(t) /\ th[t].call = "none"
      BY <1>0, <1>4, AskMove DEF AskMoves, CallTyped
  <2>2. AsksFor(t, th'[t].call, th'[t].alloc, th'[t].timed) /\ th'[t].pc = "submit" /\ Untouched(t)
      BY <2>1 DEF AskMoves, Moves, Untouched
  <2>3. Keeps
      BY <2>2 DEF AsksFor, SetAlloc, Keeps
  <2> DEFINE call == th'[t].call
             a == th'[t].alloc
  <2>4. /\ call \in Borrowing => a \in Alloc
        /\ IF call = "allocate"
           THEN ~alloc[a].made /\ ~alloc[a].live /\ \A s \in Thread : th[s].alloc # a
           ELSE a \in Alloc => /\ alloc[a].made
                              /\ \A s \in Thread : th[s].alloc = a => th[s].call # "allocate"
        /\ IF call = "release" THEN SetAlloc(a, alloc[a].live, alloc[a].made, TRUE) ELSE alloc' = alloc
      BY <2>2 DEF AsksFor
  <2>5. th[t].call # "release"
      BY <2>1
  <2>6. CASE call = "allocate"
    <3>1. a \in Alloc
        BY <2>4, <2>6 DEF Borrowing
    <3> QED BY <2>2, <2>3, <2>4, <2>5, <2>6, <3>1 DEF Goes
  <2>7. CASE call # "allocate"
    <3>1. a \in Alloc => /\ alloc[a].made
                         /\ \A s \in Thread \ {t} : th[s].alloc = a => th[s].call # "allocate"
        BY <2>4, <2>7
    <3>2. IF call = "release" THEN SetAlloc(a, alloc[a].live, alloc[a].made, TRUE) ELSE alloc' = alloc
        BY <2>4
    <3>3. th'[t].pc = "submit"
        BY <2>2
    <3>4. Goes(t)
        BY <2>5, <2>7, <3>1, <3>2, <3>3 DEF Goes
    <3> QED BY <2>2, <2>3, <3>4
  <2> QED BY <2>6, <2>7
<1>5. ASSUME NEW t \in Thread, HandleFails(t) PROVE Untouched(t) /\ Goes(t) /\ Keeps
  <2> DEFINE a == th[t].alloc
  <2>1. FailMoves(t)
      BY <1>0, <1>5, FailMove
  <2>2. /\ th[t].call = "allocate" /\ a \in Alloc /\ th[t].op \in Created /\ op[th[t].op].alloc = a
        /\ Succeeded(th[t].op, "allocate")
      BY <1>0, <2>1 DEF FailMoves, CallTyped, Borrowing
  <2>3. alloc[a].made
      BY <1>0, <2>2, HandleParts
  <2>4. \A s \in Thread \ {t} : th[s].alloc # a
      BY <1>0, <2>2, HandleParts DEF Alone
  <2>5. /\ Untouched(t) /\ th'[t].pc = "submit" /\ th'[t].call = "release" /\ th'[t].alloc = a
        /\ SetAlloc(a, alloc[a].live, alloc[a].made, TRUE)
      BY <2>1 DEF FailMoves, Moves, Untouched
  <2> HIDE DEF a
  <2>6. Keeps
      BY <2>5 DEF SetAlloc, Keeps
  <2> QED BY <2>2, <2>3, <2>4, <2>5, <2>6 DEF Goes
<1>6. ASSUME NEW t \in Thread, Closer(t) PROVE Untouched(t) /\ Ends(t) /\ Keeps
  <2>1. CloserMoves(t)
      BY <1>0, <1>6, CloserShape
  <2>2. th[t].call # "release"
      BY <1>0, <2>1 DEF CloserMoves, CallTyped
  <2> QED BY <1>0, <2>1, <2>2 DEF CloserMoves, Moves, Untouched, Ends, Keeps
<1>7. Keeps
    BY <1>1, <1>2, <1>3, <1>4, <1>5, <1>6 DEF Others, Client, Keeps
<1> QED BY <1>1, <1>2, <1>3, <1>4, <1>5, <1>6, <1>7 DEF Others, Client

LEMMA OthersHandles ==
  ASSUME SessionAssumption, SessInv, Next, Others
  PROVE  Handles'
<1> USE DEF SessInv
<1>0. /\ Lasting /\ Handles /\ worker' = worker /\ Keeps
      /\ \A t \in Thread : CallTyped(t)
      /\ \A x \in Created : op'[x].error = op[x].error /\ op'[x].state = op[x].state
      /\ \A x \in Created' : x \in Created \/ op'[x].state = "queued"
      /\ Created \subseteq Created' /\ Created \subseteq DOMAIN op
  <2>1. Outside
      BY OutsideShape
  <2> QED BY <2>1, OthersLast, OthersMove
          DEF Outside, SameFate, Created, CallsTyped, CallTyped
<1>1. \/ th' = th /\ alloc' = alloc
      \/ \E t \in Thread : Untouched(t) /\ (Ends(t) \/ Goes(t))
    BY OthersMove
<1>2. \A t \in Thread : Alone(t)'
  <2>1. CASE th' = th /\ alloc' = alloc
      BY <1>0, <2>1, HandleParts DEF Alone
  <2>2. ASSUME NEW t \in Thread, Untouched(t), Ends(t) \/ Goes(t) PROVE \A s \in Thread : Alone(s)'
    <3> SUFFICES ASSUME NEW s \in Thread, th'[s].call = "allocate"
                 PROVE  ~alloc'[th'[s].alloc].released /\ \A u \in Thread \ {s} : th'[u].alloc # th'[s].alloc
        BY DEF Alone
    <3>1. CASE s # t
      <4>1. th'[s] = th[s] /\ th[s].alloc \in Alloc
          BY <1>0, <2>2, <3>1 DEF Untouched, CallTyped, Borrowing
      <4>2. ~alloc[th[s].alloc].released /\ \A u \in Thread \ {s} : th[u].alloc # th[s].alloc
          BY <1>0, <4>1, HandleParts DEF Alone
      <4>3. th'[t].alloc # th[s].alloc /\ ~alloc'[th[s].alloc].released
        <5>1. CASE Ends(t)
            BY <4>1, <4>2, <5>1 DEF Ends, SessionAssumption
        <5>2. CASE Goes(t)
          <6>1. th'[t].alloc # th[s].alloc
              BY <2>2, <3>1, <4>1, <4>2, <5>2 DEF Goes
          <6> QED BY <4>1, <4>2, <5>2, <6>1 DEF Goes, SetAlloc
        <5> QED BY <2>2, <5>1, <5>2
      <4> QED BY <2>2, <4>1, <4>2, <4>3 DEF Untouched
    <3>2. CASE s = t
      <4>1. Goes(t)
          BY <2>2, <3>2 DEF Ends
      <4>2. CASE th'[t].call = th[t].call /\ th'[t].alloc = th[t].alloc /\ alloc' = alloc
        <5>1. ~alloc[th[t].alloc].released /\ \A u \in Thread \ {t} : th[u].alloc # th[t].alloc
            BY <1>0, <3>2, <4>2, HandleParts DEF Alone
        <5> QED BY <2>2, <3>2, <4>2, <5>1 DEF Untouched
      <4>3. CASE /\ alloc' = alloc /\ th'[t].alloc \in Alloc
                 /\ ~alloc[th'[t].alloc].made /\ \A u \in Thread : th[u].alloc # th'[t].alloc
        <5>1. ~alloc[th'[t].alloc].released
            BY <1>0, <4>3, HandleParts
        <5> QED BY <2>2, <3>2, <4>3, <5>1 DEF Untouched
      <4> QED BY <3>2, <4>1, <4>2, <4>3 DEF Goes
    <3> QED BY <3>1, <3>2
  <2> QED BY <1>1, <2>1, <2>2
<1>3. \A a \in Alloc : alloc'[a].released => alloc'[a].made
  <2> SUFFICES ASSUME NEW a \in Alloc, alloc'[a].released PROVE alloc'[a].made
      OBVIOUS
  <2>1. CASE alloc[a].released
      BY <1>0, <2>1, HandleParts DEF Keeps
  <2>2. CASE ~alloc[a].released
    <3>1. PICK t \in Thread : Goes(t) /\ alloc' # alloc
        BY <1>1, <2>2 DEF Ends
    <3>2. th'[t].alloc = a /\ alloc[a].made
        BY <2>2, <3>1 DEF Goes, SetAlloc
    <3> QED BY <1>0, <3>2 DEF Keeps
  <2> QED BY <2>1, <2>2
<1>4. \A a \in Alloc : Gone(a)'
  <2> SUFFICES ASSUME NEW a \in Alloc, alloc'[a].released, alloc'[a].live, ~ses'.closing
               PROVE  \E s \in Thread : th'[s].call = "release" /\ th'[s].alloc = a
      BY DEF Gone, Releasing
  <2>1. CASE th' = th /\ alloc' = alloc
      BY <1>0, <2>1, HandleParts DEF Gone, Releasing, Lasting
  <2>2. ASSUME NEW t \in Thread, Untouched(t), Ends(t) \/ Goes(t)
        PROVE  \E s \in Thread : th'[s].call = "release" /\ th'[s].alloc = a
    <3>1. CASE ~alloc[a].released
      <4>1. Goes(t) /\ alloc' # alloc
          BY <2>2, <3>1 DEF Ends
      <4>2. th'[t].alloc = a /\ th'[t].call = "release"
          BY <3>1, <4>1 DEF Goes, SetAlloc
      <4> QED BY <4>2
    <3>2. CASE alloc[a].released
      <4>1. PICK s \in Thread : th[s].call = "release" /\ th[s].alloc = a
          BY <1>0, <3>2, HandleParts DEF Gone, Releasing, Lasting, Keeps
      <4>2. CASE s # t
          BY <2>2, <4>1, <4>2 DEF Untouched
      <4>3. CASE s = t /\ Goes(t)
          BY <4>1, <4>3 DEF Goes
      <4>4. CASE s = t /\ Ends(t)
          BY <4>1, <4>4 DEF Ends
      <4> QED BY <2>2, <4>2, <4>3, <4>4
    <3> QED BY <3>1, <3>2
  <2> QED BY <1>1, <2>1, <2>2
<1>5. ASSUME NEW kind \in {"allocate", "release"}, Finishing(kind)'
      PROVE  Finishing(kind) /\ op'[worker.op].alloc = op[worker.op].alloc /\ op[worker.op].alloc \in Alloc
  <2>1. worker.pc \in {"publish", "finish"} /\ worker.result = "none" /\ op'[worker.op].kind = kind
      BY <1>0, <1>5 DEF Finishing
  <2>2. worker.op \in DOMAIN op /\ OpsOK /\ ~Done(worker.op)
      BY <2>1, Holds DEF Away, Served, Executing, Done, Terminal
  <2>3. op'[worker.op].kind = op[worker.op].kind /\ op'[worker.op].alloc = op[worker.op].alloc
      BY <1>0, <2>2 DEF Lasting
  <2>4. worker.op \in Created
      BY <2>1, <2>2, <2>3 DEF OpsOK, Created
  <2> QED BY <2>1, <2>2, <2>3, <2>4, Callers DEF Finishing, Borrowing
<1>6. (Finishing("allocate") => alloc[op[worker.op].alloc].made)'
    BY <1>0, <1>5, HandleParts DEF Keeps
<1>7. (Finishing("release") => ~alloc[op[worker.op].alloc].live)'
    BY <1>0, <1>5, HandleParts DEF Keeps
<1>8. \A o \in Created' :
         Succeeded(o, "allocate")' /\ op'[o].alloc \in Alloc => alloc'[op'[o].alloc].made
  <2> SUFFICES ASSUME NEW o \in Created', op'[o].kind = "allocate", op'[o].error = "none",
                      op'[o].state \in Terminal, op'[o].alloc \in Alloc
               PROVE  alloc'[op'[o].alloc].made
      BY DEF Succeeded, Done
  <2>1. o \in Created /\ o \in DOMAIN op
      BY <1>0 DEF Terminal
  <2>2. Succeeded(o, "allocate") /\ op'[o].alloc = op[o].alloc
      BY <1>0, <2>1 DEF Succeeded, Done, Lasting
  <2> QED BY <1>0, <2>1, <2>2, HandleParts DEF Keeps
<1>9. \A s \in Thread : Freed(s)'
  <2> SUFFICES ASSUME NEW s \in Thread, th'[s].pc = "wait", op'[th'[s].op].kind = "release",
                      op'[th'[s].op].error = "none", op'[th'[s].op].state \in Terminal
               PROVE  ~alloc'[th'[s].alloc].live
      BY DEF Freed, Succeeded, Done
  <2>1. CASE th'[s] = th[s]
    <3>1. th[s].op \in Created /\ th[s].op \in DOMAIN op /\ op[th[s].op].kind = th[s].call
        BY <1>0, <2>1 DEF CallTyped
    <3>2. Succeeded(th[s].op, "release") /\ th[s].call = "release"
        BY <1>0, <2>1, <3>1 DEF Succeeded, Done, Lasting
    <3>3. th[s].alloc \in Alloc /\ ~alloc[th[s].alloc].live
        BY <1>0, <2>1, <3>2, HandleParts DEF Freed, CallTyped, Borrowing
    <3> QED BY <1>0, <2>1, <3>3 DEF Keeps
  <2>2. CASE th'[s] # th[s]
    <3>1. Ends(s) \/ Goes(s)
        BY <1>1, <2>2 DEF Untouched
    <3>2. th'[s].op \notin Created
        BY <3>1 DEF Ends, Goes
    <3>3. th'[s].op \in Created'
        BY CallsTypedStep DEF CallsTyped
    <3> QED BY <1>0, <3>2, <3>3 DEF Terminal
  <2> QED BY <2>1, <2>2
<1> QED BY <1>2, <1>3, <1>4, <1>6, <1>7, <1>8, <1>9, HandlePartsNext

LEMMA HandlesStep ==
  ASSUME SessionAssumption, SessInv, Next
  PROVE  Handles'
BY NextShape, ServingHandles, OthersHandles

-----------------------------------------------------------------------------
(* The invariant holds at first and is kept. *)
LEMMA InitInv ==
  ASSUME SessionAssumption, Init
  PROVE  SessInv
<1> DEFINE r == NewOp("close", NoAlloc, "none", NoThread)
<1>1. /\ DOMAIN op = {Closing} /\ op[Closing] = r /\ Created = {} /\ Cardinality(Created) = 0
      /\ queue = << >> /\ DOMAIN queue = {} /\ queue \in Seq(Created)
  <2>1. DOMAIN op = {Closing} /\ op[Closing] = r /\ queue = << >>
      BY DEF Init
  <2>2. Created = {}
      BY <2>1 DEF Created
  <2> QED BY <2>1, <2>2, FS_EmptySet
<1>2. /\ r.kind = "close" /\ r.alloc = NoAlloc /\ r.state = "queued" /\ ~r.cancel
      /\ r.deadline = "none" /\ r.error = "none" /\ ~r.ran /\ r.caller = NoThread /\ r \in OpRec
    BY DEF NewOp, OpRec, Error
<1> HIDE DEF r
<1>3. /\ worker.pc = "setup" /\ worker.op = NoOp /\ worker.result = "none" /\ WorkerOK
    BY DEF Init, Rest, WorkerOK, Error
<1>4. \A t \in Thread : th[t] = Idle
    BY DEF Init
<1>5. /\ Idle.pc = "idle" /\ Idle.call = "none" /\ Idle.alloc = NoAlloc /\ Idle.op = NoOp /\ ~Idle.timed
    BY DEF Idle
<1>6. /\ ses \in SesRec /\ rt \in RtRec /\ alloc \in [Alloc -> AllocRec] /\ snap = {}
      /\ \A a \in Alloc : ~alloc[a].live /\ ~alloc[a].made /\ ~alloc[a].released
      /\ ses.setup = "pending" /\ ~ses.closing /\ ~ses.closeRequested /\ ~ses.stop /\ ~ses.exited
      /\ ~ses.joinClaimed /\ ~ses.apiClosed /\ rt.state = "open" /\ ~rt.unknown
    BY DEF Init, SesRec, RtRec, AllocRec
<1>7. TypeOK
  <2>1. OpsOK
    <3>1. 0..0 = {0}
        OBVIOUS
    <3> QED BY <1>1, <1>2, <3>1 DEF OpsOK, Closing
  <2>2. CallsOK
    <3>1. th = [t \in Thread |-> Idle]
        BY DEF Init
    <3> QED BY <3>1, IdleTyped, CallsTypedAs
  <2> QED BY <1>1, <1>3, <1>6, <2>1, <2>2, TypeParts
<1>8. Counted
  <2>1. Submitters = {}
      BY <1>4, <1>5 DEF Submitters
  <2> QED BY <1>1, <2>1, FS_EmptySet DEF Counted, SessionAssumption
<1>9. NoOp # Closing /\ ~Done(Closing) /\ worker.op # Closing
    BY <1>1, <1>2, <1>3 DEF Done, Terminal, SessionAssumption, OpId
<1>10. Served
    BY <1>3 DEF Served, Away, Executing
<1>11. Queued
    BY <1>1, <1>2 DEF Queued
<1>13. Fates
    BY <1>1, <1>2, <1>3, <1>9 DEF Fates
<1>14. CloseOrder
    BY <1>1, <1>2, <1>3, <1>6, <1>9 DEF CloseOrder
<1>15. Phases
    BY <1>1, <1>2, <1>3, <1>6 DEF Phases
<1>16. ShutDownOnce
    BY <1>3, <1>6, <1>9 DEF ShutDownOnce, Ending
<1>17. CallsTyped
    BY <1>4, <1>5 DEF CallsTyped, Borrowing
<1>18. CallersWait /\ Joining
    BY <1>1, <1>4, <1>5, <1>6 DEF CallersWait, Joining, OneJoiner
<1>12. Handles
    BY <1>1, <1>3, <1>4, <1>5, <1>6 DEF Handles, Finishing, ReleasedMeansGone
<1> QED BY <1>7, <1>8, <1>10, <1>11, <1>12, <1>13, <1>14, <1>15, <1>16, <1>17, <1>18 DEF SessInv

LEMMA SessStep ==
  ASSUME SessionAssumption, SessInv, [Next]_vars
  PROVE  SessInv'
<1>1. CASE Next
    BY <1>1, TypeStep, ServedStep, QueuedStep, FatesStep, CountedStep, CloseOrderStep, PhasesStep,
       ShutDownOnceStep, CallsTypedStep, CallersWaitStep, HandlesStep, JoiningStep DEF SessInv
<1>2. CASE UNCHANGED vars
  <2> USE <1>2 DEF SessInv, vars
  <2>1. TypeOK'
      BY DEF TypeOK, Created
  <2>2. Counted' /\ Served' /\ Queued' /\ Fates'
      BY DEF Counted, Submitters, Created, Served, Queued, Fates, Done
  <2>3. CloseOrder' /\ Phases' /\ ShutDownOnce'
      BY DEF CloseOrder, Phases, ShutDownOnce, Ending, Done
  <2>4. CallsTyped' /\ CallersWait' /\ Joining'
      BY DEF CallsTyped, CallersWait, Joining, OneJoiner, Created, Done
  <2>5. Handles'
      BY DEF Handles, Finishing, Succeeded, ReleasedMeansGone, Created, Done
  <2> QED BY <2>1, <2>2, <2>3, <2>4, <2>5
<1> QED BY <1>1, <1>2

-----------------------------------------------------------------------------
(* What follows from the invariant. *)
LEMMA CallsAreHonoured ==
  ASSUME SessionAssumption, SessInv
  PROVE  CancelledNeverRuns /\ TelemetryNotBehind /\ BorrowedFramesLive
<1> USE DEF SessInv
<1>1. Created \subseteq DOMAIN op
    BY DEF Created
<1>2. CancelledNeverRuns /\ TelemetryNotBehind
    BY <1>1 DEF Fates, CancelledNeverRuns, TelemetryNotBehind
<1>3. BorrowedFramesLive
  <2> SUFFICES ASSUME worker.pc \in {"launch", "act"}, worker.op # Closing,
                      op[worker.op].kind \in Borrowing
               PROVE  th[op[worker.op].caller].pc = "wait" /\ th[op[worker.op].caller].op = worker.op
      BY DEF BorrowedFramesLive
  <2>1. worker.op \in Created /\ ~Done(worker.op)
      BY Holds DEF Away, Served, Executing, Done, Terminal, Created
  <2> QED BY <2>1 DEF CallersWait
<1> QED BY <1>2, <1>3

LEMMA CloseIsFinal ==
  ASSUME SessionAssumption, SessInv
  PROVE  SuccessfulCloseIsFinal
<1> USE DEF SessInv
<1> SUFFICES ASSUME ses.apiClosed
             PROVE  /\ worker.pc = "none" /\ rt.state = "closed"
                    /\ queue = << >> /\ \A o \in DOMAIN op : Done(o)
                    /\ \A a \in Alloc : ~alloc[a].live
    BY DEF SuccessfulCloseIsFinal
<1>1. ses.setup = "done" /\ worker.pc = "none" /\ ses.stop /\ queue = << >>
    BY DEF Joining, Phases
<1>2. Done(Closing) /\ worker.op = NoOp /\ OpsOK
    BY <1>1, Holds DEF CloseOrder, Away
<1>3. rt.state = "closed" /\ \A a \in Alloc : ~alloc[a].live
    BY <1>2 DEF ShutDownOnce
<1>4. ASSUME NEW o \in DOMAIN op PROVE Done(o)
  <2>1. o # NoOp /\ op[o].state \in Terminal \union {"queued", "running"}
      BY <1>2, Holds DEF OpsOK, OpRec
  <2>2. op[o].state # "running"
      BY <1>2, <2>1 DEF Queued
  <2>3. op[o].state # "queued"
    <3>1. CASE o = Closing
        BY <1>2, <3>1 DEF Done, Terminal
    <3>2. CASE o # Closing
      <4>1. DOMAIN queue = {} /\ o \in Created
          BY <1>1, <3>2 DEF Created
      <4> QED BY <1>2, <2>1, <4>1 DEF Queued
    <3> QED BY <3>1, <3>2
  <2> QED BY <2>1, <2>2, <2>3 DEF Done
<1> QED BY <1>1, <1>3, <1>4

LEMMA SafeSession ==
  ASSUME SessionAssumption, SessInv
  PROVE  SessionSafe
BY CallsAreHonoured, CloseIsFinal DEF SessInv, SessionSafe, Handles, ShutDownOnce, UnknownIsAbandoned, Joining

(* Whatever clients, timeouts, cancellations and a failing runtime do to   *)
(* each other: a cancelled operation never runs, the frame of a caller     *)
(* lives while the worker points into it, a released allocation is gone,   *)
(* telemetry counts what has ended, a library that may still copy is not   *)
(* unloaded, one thread joins the worker, and a close that succeeded left  *)
(* nothing (sdk/runtime.cpp, sdk/api.cpp).                                 *)
THEOREM SessionIsSafe == SessionAssumption => (Spec => []SessionSafe)
<1> SUFFICES ASSUME SessionAssumption PROVE Spec => []SessionSafe
    OBVIOUS
<1>1. Init => SessInv
    BY InitInv
<1>2. SessInv /\ [Next]_vars => SessInv'
    BY SessStep
<1>3. SessInv => SessionSafe
    BY SafeSession
<1> QED BY <1>1, <1>2, <1>3, PTL DEF Spec

(* The state and the error of an operation that ended never change: begin, *)
(* finish and cancel each look at the state under the operation's mutex.   *)
THEOREM OutcomesAreFinal == SessionAssumption => (Spec => [][TerminalIsFinal]_vars)
<1> SUFFICES ASSUME SessionAssumption PROVE Spec => [][TerminalIsFinal]_vars
    OBVIOUS
<1>1. Init => SessInv
    BY InitInv
<1>2. SessInv /\ [Next]_vars => SessInv'
    BY SessStep
<1>3. SessInv /\ Next => TerminalIsFinal
    BY NextLasts DEF Lasting, TerminalIsFinal
<1>4. SessInv /\ [Next]_vars => [TerminalIsFinal]_vars
    BY <1>3
<1> QED BY <1>1, <1>2, <1>4, PTL DEF Spec

-----------------------------------------------------------------------------
(* What the promise sees of a session, and a step it does not see. *)
InHand == IF worker.op \in Created THEN worker.op ELSE NoOp
Ended == {o \in Created : Done(o)}
Stage == IF Done(Closing) THEN "closed" ELSE IF ses.closing THEN "closing" ELSE "open"
Unseen == queue' = queue /\ InHand' = InHand /\ Ended' = Ended /\ Stage' = Stage

(* What is seen of a step that keeps the operations. *)
LEMMA UnseenStep ==
  ASSUME DOMAIN op' = DOMAIN op, \A x \in DOMAIN op : Done(x)' = Done(x), Closing \in DOMAIN op,
         ses'.closing = ses.closing
  PROVE  Ended' = Ended /\ Stage' = Stage /\ Created' = Created
BY DEF Ended, Stage, Created

LEMMA ServesAsPromised ==
  ASSUME SessionAssumption, SessInv, Serving
  PROVE  \/ Unseen \/ Promise!Serve \/ Promise!Retire \/ Promise!Close
<1> USE DEF SessInv
<1>0. /\ ses \in SesRec /\ WorkerOK /\ Closing \in DOMAIN op /\ NoOp \notin DOMAIN op
      /\ Created \subseteq DOMAIN op /\ Closing \notin Created
      /\ worker.op \in DOMAIN op => worker.op = Closing \/ worker.op \in Created
    BY TypeParts, Holds DEF Created
<1>1. ASSUME op' = op, ses'.closing = ses.closing, queue' = queue,
             worker'.op = worker.op \/ (worker.op \notin Created /\ worker'.op \notin Created)
      PROVE  Unseen
  <2>1. Ended' = Ended /\ Stage' = Stage /\ Created' = Created
      BY <1>0, <1>1, UnseenStep DEF Done
  <2>2. InHand' = InHand
      BY <1>1, <2>1 DEF InHand
  <2> QED BY <1>1, <2>1, <2>2 DEF Unseen
<1>2. CASE Setup
  <2>1. SetupMoves
      BY <1>2, SetupShape
  <2> QED BY <1>1, <2>1 DEF SetupMoves
<1>3. CASE Launch
    BY <1>0, <1>1, <1>3 DEF Launch, WorkerOK
<1>4. CASE Publish
    BY <1>0, <1>1, <1>4 DEF Publish, WorkerOK
<1>5. CASE Leave
  <2>1. op' = op /\ queue' = queue /\ ses'.closing = ses.closing
      BY <1>0, <1>5 DEF Leave, Stop, LeaveLoop, SignalExit, SesRec
  <2>2. worker'.op = worker.op \/ (worker.op \notin Created /\ worker'.op \notin Created)
      BY <1>0, <1>5 DEF Leave, Stop, LeaveLoop, SignalExit, WorkerOK, Rest, Served
  <2> QED BY <1>1, <2>1, <2>2
<1>6. ASSUME NEW o \in DOMAIN op, o = worker.op, worker'.op = o, queue' = queue, ses' = ses,
             ~Done(o), op'[o].state = op[o].state \/ op'[o].state = "running",
             DOMAIN op' = DOMAIN op, \A x \in DOMAIN op : x # o => op'[x] = op[x]
      PROVE  Unseen
  <2>1. \A x \in DOMAIN op : Done(x)' = Done(x)
      BY <1>6 DEF Done, Terminal
  <2>2. Ended' = Ended /\ Stage' = Stage /\ Created' = Created
      BY <1>0, <1>6, <2>1, UnseenStep
  <2> QED BY <1>6, <2>2 DEF Unseen, InHand
<1>7. CASE Runs
  <2>1. worker.op \in DOMAIN op /\ ~Done(worker.op)
      BY <1>7, Holds DEF Runs, Away, Served, Executing, Done, Terminal
  <2> QED BY <1>6, <1>7, <2>1 DEF Runs, Becomes
<1>8. CASE Shuts
  <2>1. worker.op \in DOMAIN op /\ ~Done(worker.op)
      BY <1>8, Holds DEF Shuts, Away, Served, Executing, Done, Terminal
  <2> QED BY <1>6, <1>8, <2>1 DEF Shuts, Becomes
<1>9. ASSUME NEW o \in Created, o = worker.op, worker' = Rest, queue' = queue, ses' = ses,
             op'[o].state \in Terminal, DOMAIN op' = DOMAIN op,
             \A x \in DOMAIN op : x # o => op'[x] = op[x]
      PROVE  Promise!Retire
  <2>1. Created' = Created /\ InHand = o /\ InHand' = NoOp /\ o # NoOp
      BY <1>0, <1>9 DEF Created, InHand, Rest
  <2>2. Ended' = Ended \union {o}
      BY <1>0, <1>9, <2>1 DEF Ended, Done
  <2>3. Stage' = Stage
      BY <1>0, <1>9 DEF Stage, Done
  <2> QED BY <1>9, <2>1, <2>2, <2>3 DEF Promise!Retire, InHand, Ended, Stage
<1>10. CASE Begins
  <2>1. worker.op \in DOMAIN op /\ ~Done(worker.op)
      BY <1>10, Holds DEF Begins, Away, Served, Done, Terminal
  <2>2. /\ DOMAIN op' = DOMAIN op /\ queue' = queue /\ ses' = ses
        /\ \A x \in DOMAIN op : x # worker.op => op'[x] = op[x]
        /\ \/ /\ op'[worker.op].state \in Terminal /\ worker' = Rest
              /\ op[worker.op].cancel \/ op[worker.op].deadline = "past"
           \/ op'[worker.op].state = "running" /\ worker'.op = worker.op
      BY <1>10 DEF Begins, Becomes, Terminal
  <2>3. CASE /\ op'[worker.op].state \in Terminal /\ worker' = Rest
             /\ op[worker.op].cancel \/ op[worker.op].deadline = "past"
    <3>1. worker.op \in Created
        BY <1>0, <2>1, <2>3 DEF Fates
    <3> QED BY <1>9, <2>2, <2>3, <3>1
  <2>4. CASE op'[worker.op].state = "running" /\ worker'.op = worker.op
      BY <1>6, <2>1, <2>2, <2>4
  <2> QED BY <2>2, <2>3, <2>4
<1>11. CASE Finishes
  <2>1. worker.op \in DOMAIN op /\ ~Done(worker.op)
      BY <1>11, Holds DEF Finishes, Away, Served, Executing, Done, Terminal
  <2>2. CASE worker.op \in Created
      BY <1>0, <1>9, <1>11, <2>2 DEF Finishes, Becomes, Terminal
  <2>3. CASE worker.op = Closing
    <3>1. /\ queue = << >> /\ ses.closing /\ ~Done(Closing)
        BY <2>1, <2>3 DEF CloseOrder
    <3>2. /\ DOMAIN op' = DOMAIN op /\ \A x \in DOMAIN op : x # Closing => op'[x] = op[x]
          /\ op'[Closing].state \in Terminal /\ worker'.op = Closing /\ queue' = queue /\ ses' = ses
        BY <1>11, <2>3 DEF Finishes, Becomes, Terminal
    <3>3. Created' = Created /\ Ended' = Ended
        BY <1>0, <3>2 DEF Created, Ended, Done
    <3>4. InHand = NoOp /\ InHand' = NoOp
        BY <1>0, <2>3, <3>2, <3>3 DEF InHand
    <3>5. Stage = "closing" /\ Stage' = "closed"
        BY <3>1, <3>2 DEF Stage, Done
    <3> QED BY <3>1, <3>2, <3>3, <3>4, <3>5 DEF Promise!Close, InHand, Ended, Stage
  <2> QED BY <1>0, <2>1, <2>2, <2>3
<1>12. CASE Take
  <2>1. worker.op = NoOp /\ op' = op /\ ses'.closing = ses.closing
      BY <1>0, <1>12, Holds DEF Take, Away, SesRec
  <2>2. Ended' = Ended /\ Stage' = Stage /\ Created' = Created /\ InHand = NoOp
      BY <1>0, <2>1, UnseenStep DEF Done, InHand
  <2>3. CASE queue # << >>
    <3>1. worker'.op = Head(queue) /\ queue' = Tail(queue)
        BY <1>12, <2>3 DEF Take, Serve
    <3>2. Head(queue) \in Created
      <4>1. queue \in Seq(Created)
          BY TypeParts
      <4> QED BY <2>3, <4>1, HeadTailProperties
    <3>3. InHand' = Head(queue)
        BY <2>2, <3>1, <3>2 DEF InHand
    <3> QED BY <2>2, <2>3, <3>1, <3>3 DEF Promise!Serve, InHand, Ended, Stage
  <2>4. CASE queue = << >>
    <3>1. worker'.op = Closing /\ queue' = queue
        BY <1>12, <2>4 DEF Take, Serve
    <3> QED BY <1>0, <1>1, <2>1, <3>1
  <2> QED BY <2>3, <2>4
<1> QED BY <1>2, <1>3, <1>4, <1>5, <1>7, <1>8, <1>10, <1>11, <1>12, ServingShape

LEMMA AcceptsAsPromised ==
  ASSUME SessionAssumption, SessInv, Next, Others
  PROVE  \/ Unseen \/ Promise!AskToClose \/ \E o \in Op : Promise!Accept(o)
<1> USE DEF SessInv
<1>0. /\ Outside /\ OthersKeep /\ OpsOK /\ Closing \in DOMAIN op /\ NoOp \notin DOMAIN op
      /\ queue \in Seq(Created) /\ WorkerOK
    BY OutsideShape, OthersShape, TypeParts, Holds
<1>1. Ended' = Ended
  <2>1. \A x \in Created' : x \in Created \/ ~Done(x)'
      BY <1>0 DEF Outside, Created, Done, Terminal
  <2>2. \A x \in Created : x \in Created' /\ Done(x)' = Done(x)
      BY <1>0 DEF Outside, SameFate, Created, Done
  <2> QED BY <2>1, <2>2 DEF Ended
<1>2. InHand' = InHand
  <2>1. worker' = worker /\ (worker.op \in Created' => worker.op \in Created)
    <3>1. NoOp \notin Created'
      <4>1. Created' \subseteq Op
          BY TypeStep DEF TypeOK
      <4> QED BY <4>1 DEF SessionAssumption, OpId
    <3> QED BY <1>0, <3>1 DEF Outside, WorkerOK, Created
  <2> QED BY <1>0, <2>1 DEF InHand, Outside
<1>3. Done(Closing)' = Done(Closing) /\ (~ses.closing => ~Done(Closing))
    BY <1>0 DEF Outside, Done, CloseOrder, Terminal
<1>4. CASE queue' = queue /\ CloseAsked
  <2>1. Stage = "open" /\ Stage' = "closing"
      BY <1>3, <1>4 DEF Stage, CloseAsked
  <2> QED BY <1>1, <1>2, <1>4, <2>1 DEF Promise!AskToClose, InHand, Ended, Stage
<1>5. CASE queue' = queue /\ ses'.closing = ses.closing
  <2>1. Stage' = Stage
      BY <1>3, <1>5 DEF Stage
  <2> QED BY <1>1, <1>2, <1>5, <2>1 DEF Unseen
<1>6. CASE queue' # queue
  <2>1. PICK t \in Thread : Submit(t)
      BY <1>6 DEF Others, Client, SubmitRefused, Return, HandleFails, TimeOut, Ask, CallDrain, CallAllocate,
                  CallRelease, Call, Closer, CallClose, CloseServed, CloseTimesOut, ClaimJoin, Join,
                  CloseReturns, Cancel, DeadlinePasses
  <2> DEFINE n == Cardinality(Created) + 1
  <2>2. Submits(t)
      BY <2>1, SubmitShape, TypeParts
  <2>3. n \notin DOMAIN op /\ n \in Op /\ queue' = Append(queue, n) /\ ~ses.closing /\ ses' = ses
      BY <2>2 DEF Submits
  <2> HIDE DEF n
  <2>4. n \notin Ended \union {InHand} \union {queue[i] : i \in DOMAIN queue}
    <3>1. n # NoOp /\ n \notin Created
        BY <2>3 DEF Created, SessionAssumption, OpId
    <3>2. \A i \in DOMAIN queue : queue[i] \in Created
        BY <1>0, ElementOfSeq
    <3> QED BY <3>1, <3>2 DEF Ended, InHand
  <2>5. Stage = "open" /\ Stage' = Stage
      BY <1>3, <2>3 DEF Stage
  <2>6. Promise!Accept(n)
      BY <1>1, <1>2, <2>3, <2>4, <2>5 DEF Promise!Accept, Promise!Known, InHand, Ended, Stage
  <2> QED BY <2>3, <2>6
<1> QED BY <1>0, <1>4, <1>5, <1>6 DEF OthersKeep

LEMMA PromiseStep ==
  ASSUME SessionAssumption, SessInv, Next
  PROVE  ServesInOrder
BY NextShape, ServesAsPromised, AcceptsAsPromised
   DEF ServesInOrder, Promise!Step, Promise!Next, Promise!pvars, Unseen, InHand, Ended, Stage

(* The session implements its promise: operations are served one at a time *)
(* in the order in which enqueue_progress accepted them, none is accepted  *)
(* once closing, and closing comes after all of them.                      *)
THEOREM SessionKeepsItsPromise == SessionAssumption => (Spec => Promise!Spec)
<1> SUFFICES ASSUME SessionAssumption PROVE Spec => Promise!Spec
    OBVIOUS
<1>1. Init => SessInv
    BY InitInv
<1>2. SessInv /\ [Next]_vars => SessInv'
    BY SessStep
<1>3. Init => Promise!Init
  <2> SUFFICES ASSUME Init PROVE Promise!Init
      OBVIOUS
  <2>1. /\ queue = << >> /\ ~ses.closing /\ worker.op = NoOp /\ NoOp \notin Created
        /\ Created = {} /\ op[Closing].state = "queued"
      BY DEF Init, Rest, NewOp, Created, SessionAssumption
  <2> QED BY <2>1 DEF Promise!Init, Done, Terminal
<1>4. SessInv /\ [Next]_vars => [Promise!Next]_(Promise!pvars)
  <2>1. CASE Next
      BY <2>1, PromiseStep DEF ServesInOrder, Promise!Step
  <2>2. CASE UNCHANGED vars
      BY <2>2 DEF vars, Promise!pvars, Done, Created
  <2> QED BY <2>1, <2>2
<1> QED BY <1>1, <1>2, <1>3, <1>4, PTL DEF Spec, Promise!Spec
=============================================================================
