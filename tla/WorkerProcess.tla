--------------------------- MODULE WorkerProcess ---------------------------
(***************************************************************************)
(* The isolated worker of the five command line programs (src/src/platform *)
(* /worker_process.cpp and the worker_protocol, worker_controller and main *)
(* files of vmm_poc, residency, gemm_bench, compression_bench and          *)
(* compat_bench).  The public process starts itself again as a worker and  *)
(* reads length-prefixed frames from its standard output: a reader thread  *)
(* decodes whatever bytes arrived, the main thread polls the process, two  *)
(* deadlines and the reader's error, kills and reaps the worker, joins the *)
(* reader and only then decides what to report.                            *)
(*                                                                         *)
(* prog      which program this is; it never changes                       *)
(* w         the worker: its main thread, its executor's progress, the     *)
(*           frame sequence and the frames being written under its lock    *)
(* pipe      the bytes in the pipe, two pieces to a frame                  *)
(* rd        the reader thread with the decoder and the consumer           *)
(* ctl       the public process                                            *)
(* clock     ticks since the start and since the last counted progress     *)
(* faults    the failures injected so far                                  *)
(***************************************************************************)
EXTENDS Integers, Sequences, SequencesExt, FiniteSets

CONSTANTS Programs,    \* the programs to run, among the five below
          Codes,       \* exit codes an executor may return
          MaxSteps,    \* bound: progress steps of an executor
          MaxBeats,    \* bound: heartbeats of a worker
          MaxTraces,   \* bound: trace records an executor emits
          PipeRoom,    \* pieces the pipe holds; a writer blocks beyond it
          Quiet,       \* ticks without progress before the watchdog fires
          Overall,     \* ticks before the overall deadline
          MaxFaults    \* bound: injected failures

WorkerAssumption ==
  /\ Programs \subseteq {"poc", "cache", "gemm", "compression", "compat"}
  /\ Codes \subseteq 0 .. 255
  /\ {MaxSteps, MaxBeats, MaxTraces, MaxFaults} \subseteq Nat
  /\ {PipeRoom, Quiet, Overall} \subseteq Nat \ {0}
  /\ PipeRoom >= 2

VARIABLES prog, w, pipe, rd, ctl, clock, faults
vars == <<prog, w, pipe, rd, ctl, clock, faults>>

Nothing == -1
Failure == 27      \* a worker or its protocol failed
TimedOut == 26     \* a deadline passed
TraceIo == 74      \* a file of the controller could not be written
Killed == 137      \* the status of a process ended by SIGKILL
Crashed == 139     \* and by a signal of its own

Strict == {"gemm", "compression", "compat"}    \* decoders that follow the order of frames
Beating == {"gemm", "compression", "compat"}   \* workers with a heartbeat thread
Tracing == {"cache", "compression", "compat"}  \* programs that own a trace file

(***************************************************************************)
(* The worker.  A frame is written under the protocol lock: todo holds the *)
(* frames of the call that has the lock, and nobody else writes until it   *)
(* is empty.                                                               *)
(***************************************************************************)

Frame(type, body) == [type |-> type, body |-> body]

\* send_frame: number the frames and hand them to the stream, unless an earlier write failed
Sent(s, fs) ==
  IF ~s.ok THEN s
  ELSE [s EXCEPT !.seq = @ + Len(fs),
                 !.todo = [i \in DOMAIN fs |->
                             [seq |-> s.seq + i - 1, type |-> fs[i].type, body |-> fs[i].body]],
                 !.traced = @ + Cardinality({i \in DOMAIN fs : fs[i].type = "trace"})]

Alive == w.pc \in {"plan", "work", "stop", "final", "leave"}
Free == w.todo = <<>>    \* no writer holds the protocol lock
MainRuns == ctl.pc # "start" /\ Free /\ ~w.hung

\* The plan frame is the first thing a worker writes.
SendPlan ==
  /\ MainRuns /\ w.pc = "plan"
  /\ w' = [Sent(w, <<Frame("plan", 0)>>) EXCEPT !.pc = "work"]
  /\ UNCHANGED <<prog, pipe, rd, ctl, clock, faults>>

\* poc: every report of the executor is written at once
PocStep(s) == Sent([s EXCEPT !.steps = @ + 1], <<Frame("progress", s.steps + 1)>>)

\* cache: the same, under a lock its trace callback also takes
CacheStep(s) == Sent([s EXCEPT !.steps = @ + 1], <<Frame("progress", s.steps + 1)>>)

\* gemm: the report is kept for the heartbeat thread, which writes it
GemmStep(s) == [s EXCEPT !.steps = @ + 1]

\* compression: written at once, beside the heartbeats
CompressionStep(s) == Sent([s EXCEPT !.steps = @ + 1], <<Frame("progress", s.steps + 1)>>)

\* compat: what the adapter's telemetry advanced by since it was last looked at
Observed(s) ==
  IF s.tiles > s.seen
  THEN <<Frame("progress", s.counter + 1)>> \o
       (IF s.tracing THEN [i \in 1 .. s.tiles - s.seen |-> Frame("trace", 0)] ELSE <<>>)
  ELSE <<>>

\* compat: a returned call is work of its own, after the tiles seen retired until then
CompatStep(s) ==
  LET seen == Observed(s)
      n == s.counter + (IF s.tiles > s.seen THEN 1 ELSE 0) + 1
  IN  Sent([s EXCEPT !.steps = @ + 1, !.seen = s.tiles, !.counter = n],
           seen \o <<Frame("progress", n)>> \o
           (IF s.tracing THEN <<Frame("trace", 0)>> ELSE <<>>))

\* One step of the executor, reported by its progress callback.
Step ==
  /\ MainRuns /\ w.pc = "work" /\ w.steps < MaxSteps
  /\ w' = CASE prog = "poc" -> PocStep(w)
            [] prog = "cache" -> CacheStep(w)
            [] prog = "gemm" -> GemmStep(w)
            [] prog = "compression" -> CompressionStep(w)
            [] prog = "compat" -> CompatStep(w)
  /\ UNCHANGED <<prog, pipe, rd, ctl, clock, faults>>

\* A trace record of the cache or compression executor.
TraceRecord ==
  /\ MainRuns /\ w.pc = "work" /\ w.tracing /\ w.records < MaxTraces
  /\ prog \in {"cache", "compression"}
  /\ w' = [Sent(w, <<Frame("trace", 0)>>) EXCEPT !.records = @ + 1]
  /\ UNCHANGED <<prog, pipe, rd, ctl, clock, faults>>

\* compat: a tile retires inside a call; only the telemetry says so
Retire ==
  /\ MainRuns /\ w.pc = "work" /\ prog = "compat" /\ w.tiles < MaxSteps
  /\ w' = [w EXCEPT !.tiles = @ + 1]
  /\ UNCHANGED <<prog, pipe, rd, ctl, clock, faults>>

BeatRuns == /\ prog \in Beating /\ w.pc \in {"work", "stop"}
            /\ Free /\ w.ok

\* The heartbeat thread: gemm repeats the latest report, the others say only that they live.
Beat ==
  /\ BeatRuns /\ w.beats < MaxBeats
  /\ w' = [Sent(w, <<IF prog = "gemm" THEN Frame("progress", w.steps)
                                      ELSE Frame("heartbeat", 0)>>) EXCEPT !.beats = @ + 1]
  /\ UNCHANGED <<prog, pipe, rd, ctl, clock, faults>>

\* compat: the monitor thread looks at the telemetry every 10 ms
Observe ==
  /\ BeatRuns /\ prog = "compat" /\ w.tiles > w.seen
  /\ w' = Sent([w EXCEPT !.seen = w.tiles, !.counter = @ + 1], Observed(w))
  /\ UNCHANGED <<prog, pipe, rd, ctl, clock, faults>>

\* The executor returns its exit code.
Finish ==
  /\ MainRuns /\ w.pc = "work"
  /\ \E c \in Codes : w' = [w EXCEPT !.pc = "stop", !.code = c]
  /\ UNCHANGED <<prog, pipe, rd, ctl, clock, faults>>

\* The heartbeat thread is stopped and joined before the final frame.
StopBeats ==
  /\ MainRuns /\ w.pc = "stop"
  /\ w' = [w EXCEPT !.pc = "final"]
  /\ UNCHANGED <<prog, pipe, rd, ctl, clock, faults>>

\* The final frame carries the exit code; without it the worker leaves with 27.
SendFinal ==
  /\ MainRuns /\ w.pc = "final"
  /\ LET last == IF prog = "compat"
                 THEN Observed(w) \o (IF w.tracing THEN <<Frame("trace", 0)>> ELSE <<>>)
                 ELSE <<>>
         seen == IF prog = "compat" THEN [w EXCEPT !.seen = w.tiles] ELSE w
     IN  w' = IF w.ok
              THEN [Sent(seen, last \o <<Frame("final", w.code)>>) EXCEPT !.pc = "leave"]
              ELSE [w EXCEPT !.pc = "gone", !.status = Failure]
  /\ UNCHANGED <<prog, pipe, rd, ctl, clock, faults>>

\* main returns the code the final frame carried.
Leave ==
  /\ MainRuns /\ w.pc = "leave"
  /\ w' = [w EXCEPT !.pc = "gone", !.status = w.code]
  /\ UNCHANGED <<prog, pipe, rd, ctl, clock, faults>>

\* The holder of the lock writes its next frame; it blocks while the pipe is full.
Write ==
  /\ Alive /\ ~Free /\ Len(pipe) + 2 <= PipeRoom
  /\ LET f == Head(w.todo)
     IN  pipe' = pipe \o <<[f |-> f, part |-> "head"], [f |-> f, part |-> "tail"]>>
  /\ w' = [w EXCEPT !.todo = Tail(@)]
  /\ UNCHANGED <<prog, rd, ctl, clock, faults>>

(***************************************************************************)
(* The reader: bytes are appended to the decoder's buffer, every complete  *)
(* frame is checked, and the frames of one read are then consumed.         *)
(***************************************************************************)

PocOrder(d, f) == f.seq > d.last
CacheOrder(d, f) == f.seq > d.last

GemmOrder(d, f) ==
  /\ f.seq > d.last
  /\ (d.state = "awaiting") = (f.type = "plan")
  /\ d.state # "finished"
CompressionOrder(d, f) ==
  /\ f.seq > d.last
  /\ (d.state = "awaiting") = (f.type = "plan")
  /\ d.state # "finished"
CompatOrder(d, f) ==
  /\ f.seq > d.last
  /\ (d.state = "awaiting") = (f.type = "plan")
  /\ d.state # "finished"

InOrder(d, f) ==
  CASE prog = "poc" -> PocOrder(d, f)
    [] prog = "cache" -> CacheOrder(d, f)
    [] prog = "gemm" -> GemmOrder(d, f)
    [] prog = "compression" -> CompressionOrder(d, f)
    [] prog = "compat" -> CompatOrder(d, f)

\* append: complete frames leave the buffer in order; a bad one stays and fails every later read
Appended(d, pieces) ==
  LET Take(a, p) ==
        IF a.broken \/ p.part = "head" THEN [a EXCEPT !.half = TRUE]
        ELSE IF InOrder(a, p.f)
        THEN [a EXCEPT !.half = FALSE, !.out = Append(@, p.f), !.last = p.f.seq,
                       !.state = CASE p.f.type = "plan" -> "running"
                                   [] p.f.type = "final" -> "finished"
                                   [] OTHER -> @]
        ELSE [a EXCEPT !.broken = TRUE]
  IN  FoldLeft(Take, [d EXCEPT !.out = <<>>], pieces)

Rejected(c) == [c EXCEPT !.bad = TRUE]
Progressed(c) == [c EXCEPT !.moved = TRUE]

\* Every program takes one final frame and no second one.
TakesFinal(c, f) ==
  IF c.final # Nothing THEN Rejected(c) ELSE [Progressed(c) EXCEPT !.final = f.body]

\* A trace batch goes to the controller's file; a failed write rejects it.
TakesTrace(c) ==
  IF c.sinkOk THEN [c EXCEPT !.sunk = @ + 1] ELSE [Rejected(c) EXCEPT !.traceError = TRUE]

\* poc: any decoded frame counts as progress
PocConsumes(c, f) ==
  IF f.type = "final" THEN TakesFinal(c, f) ELSE Progressed(c)

CacheConsumes(c, f) ==
  CASE f.type \in {"plan", "progress"} -> Progressed(c)
    [] f.type = "trace" -> TakesTrace(c)
    [] f.type = "final" -> TakesFinal(c, f)

\* gemm: a report counts only when it differs from the last one
GemmConsumes(c, f) ==
  CASE f.type = "plan" -> Progressed(c)
    [] f.type = "progress" -> IF f.body = c.latest THEN c
                              ELSE [Progressed(c) EXCEPT !.latest = f.body]
    [] f.type = "final" -> TakesFinal(c, f)

\* compression: a heartbeat is not progress
CompressionConsumes(c, f) ==
  CASE f.type \in {"plan", "progress"} -> Progressed(c)
    [] f.type = "heartbeat" -> c
    [] f.type = "trace" -> TakesTrace(c)
    [] f.type = "final" -> TakesFinal(c, f)

\* compat: the counter in a progress frame must increase
CompatConsumes(c, f) ==
  CASE f.type = "plan" -> Progressed(c)
    [] f.type = "heartbeat" -> c
    [] f.type = "progress" -> IF f.body > c.latest THEN [Progressed(c) EXCEPT !.latest = f.body]
                              ELSE Rejected(c)
    [] f.type = "trace" -> TakesTrace(c)
    [] f.type = "final" -> TakesFinal(c, f)

Consumes(c, f) ==
  IF c.bad THEN c    \* the rest of the frames of this read is dropped
  ELSE CASE prog = "poc" -> PocConsumes(c, f)
         [] prog = "cache" -> CacheConsumes(c, f)
         [] prog = "gemm" -> GemmConsumes(c, f)
         [] prog = "compression" -> CompressionConsumes(c, f)
         [] prog = "compat" -> CompatConsumes(c, f)

\* One read: any number of the pieces that are there, decoded and consumed without the lock.
Read ==
  /\ rd.pc = "read" /\ pipe # <<>>
  /\ \E n \in 1 .. Len(pipe) :
       LET d == Appended(rd.dec, SubSeq(pipe, 1, n))
           c == IF d.broken THEN Rejected(rd.con)
                ELSE FoldLeft(Consumes, rd.con, d.out)
       IN  /\ rd' = [rd EXCEPT !.pc = "publish", !.dec = [d EXCEPT !.out = <<>>], !.con = c]
           /\ pipe' = SubSeq(pipe, n + 1, Len(pipe))
  /\ UNCHANGED <<prog, w, ctl, clock, faults>>

\* consume_bytes under the lock: the first error is kept, progress winds the watchdog up
Publish ==
  /\ rd.pc = "publish"
  /\ LET c == rd.con
     IN  /\ rd' = [rd EXCEPT !.pc = "read", !.error = @ \/ c.bad,
                             !.wound = @ + (IF c.moved /\ ~c.bad THEN 1 ELSE 0),
                             !.con = [c EXCEPT !.bad = FALSE, !.moved = FALSE]]
         /\ clock' = IF c.moved /\ ~c.bad THEN [clock EXCEPT !.idle = 0] ELSE clock
  /\ UNCHANGED <<prog, w, pipe, ctl, faults>>

\* finish_reader at the end of the stream: half a frame, or no final frame where it is required
EndOfStream ==
  /\ rd.pc = "read" /\ pipe = <<>> /\ w.pc = "gone" /\ ctl.pc # "start"
  /\ rd' = [rd EXCEPT !.pc = "ended",
                      !.error = @ \/ rd.dec.half
                                  \/ (prog \in Strict /\ rd.dec.state # "finished")]
  /\ UNCHANGED <<prog, w, pipe, ctl, clock, faults>>

(***************************************************************************)
(* The public process.                                                     *)
(***************************************************************************)

\* The process starts, or it does not, or the trace file cannot be opened first.
Start ==
  /\ ctl.pc = "start"
  /\ \/ ctl' = [ctl EXCEPT !.pc = "poll", !.started = TRUE] /\ UNCHANGED faults
     \/ /\ faults < MaxFaults /\ faults' = faults + 1
        /\ ctl' = [ctl EXCEPT !.pc = "judge"]
     \/ /\ faults < MaxFaults /\ faults' = faults + 1 /\ w.tracing
        /\ ctl' = [ctl EXCEPT !.pc = "judge", !.traceOk = FALSE]
  /\ UNCHANGED <<prog, w, pipe, rd, clock>>

Expired == clock.age >= Overall \/ clock.idle >= Quiet

\* mutant: only the reader's error ends the wait, no deadline does
NoDeadline ==
  /\ ctl.pc = "poll"
  /\ \/ w.pc = "gone" /\ ctl' = [ctl EXCEPT !.pc = "join", !.status = w.status]
     \/ w.pc # "gone" /\ rd.error /\ ctl' = [ctl EXCEPT !.pc = "kill"]
  /\ UNCHANGED <<prog, w, pipe, rd, clock, faults>>

\* One round of the polling loop: reap, then the deadlines, then the reader's error.
Poll ==
  /\ ctl.pc = "poll"
  /\ \/ w.pc = "gone" /\ ctl' = [ctl EXCEPT !.pc = "join", !.status = w.status]
     \/ w.pc # "gone" /\ Expired
        /\ ctl' = [ctl EXCEPT !.pc = "kill", !.timedOut = TRUE]
     \/ w.pc # "gone" /\ ~Expired /\ rd.error
        /\ ctl' = [ctl EXCEPT !.pc = "kill"]
  /\ UNCHANGED <<prog, w, pipe, rd, clock, faults>>

\* A process that dies inside a write leaves the first half of the frame in the pipe.
Torn == {pipe} \union (IF ~Free /\ Len(pipe) < PipeRoom
                       THEN {Append(pipe, [f |-> Head(w.todo), part |-> "head"])} ELSE {})

\* The worker is killed with its group and reaped; a timeout keeps its own exit code.
Kill ==
  /\ ctl.pc = "kill"
  /\ LET status == IF w.pc = "gone" THEN w.status ELSE Killed
     IN  /\ ctl' = [ctl EXCEPT !.pc = "join",
                               !.status = IF ctl.timedOut THEN TimedOut ELSE status]
         /\ w' = [w EXCEPT !.pc = "gone", !.status = status, !.todo = <<>>]
  /\ IF w.pc = "gone" THEN UNCHANGED pipe ELSE pipe' \in Torn
  /\ UNCHANGED <<prog, rd, clock, faults>>

\* mutant: the reader is not joined before the report is decided
NoJoin ==
  /\ ctl.pc = "join"
  /\ ctl' = [ctl EXCEPT !.pc = "judge"]
  /\ UNCHANGED <<prog, w, pipe, rd, clock, faults>>

\* reader.join, then the trace file is flushed and closed, which can fail
Join ==
  /\ ctl.pc = "join" /\ rd.pc = "ended"
  /\ \/ ctl' = [ctl EXCEPT !.pc = "judge"] /\ UNCHANGED faults
     \/ /\ w.tracing /\ faults < MaxFaults /\ faults' = faults + 1
        /\ ctl' = [ctl EXCEPT !.pc = "judge", !.traceOk = FALSE]
  /\ UNCHANGED <<prog, w, pipe, rd, clock>>

\* What each run_isolated_worker hands back: an error of the stream, or no final frame.
PocProtocolError == rd.error \/ (~ctl.timedOut /\ ctl.started /\ rd.con.final = Nothing)
CacheProtocolError == rd.error \/ (~ctl.timedOut /\ ctl.started /\ rd.con.final = Nothing)
GemmProtocolError == ~ctl.timedOut /\ (rd.error \/ (ctl.started /\ rd.con.final = Nothing))
CompressionProtocolError == rd.error \/ (~ctl.timedOut /\ ctl.started /\ rd.con.final = Nothing)
CompatProtocolError == rd.error \/ (~ctl.timedOut /\ ctl.started /\ rd.con.final = Nothing)

ByController(code) == [from |-> "controller", code |-> code]
ByWorker(code) == [from |-> "worker", code |-> code]

PocVerdict ==
  IF ctl.timedOut THEN ByController(TimedOut)
  ELSE IF PocProtocolError \/ ~ctl.started \/ ctl.status # rd.con.final
       THEN ByController(Failure)
       ELSE ByWorker(rd.con.final)

TraceFailed == ~ctl.traceOk \/ rd.con.traceError

CacheVerdict ==
  IF TraceFailed THEN ByController(TraceIo)
  ELSE IF ctl.timedOut THEN ByController(TimedOut)
  ELSE IF ~ctl.started \/ CacheProtocolError \/ ctl.status # rd.con.final
       THEN ByController(Failure)
       ELSE ByWorker(rd.con.final)

ValidCode == {0, 23, 24, 25, 26, 27, 70}

GemmVerdict ==
  IF ctl.timedOut THEN ByController(TimedOut)
  ELSE IF ~ctl.started \/ GemmProtocolError \/ ctl.status # rd.con.final
          \/ rd.con.final \notin ValidCode
       THEN ByController(Failure)
       ELSE ByWorker(rd.con.final)

CompressionVerdict ==
  IF TraceFailed THEN ByController(TraceIo)
  ELSE IF ctl.timedOut THEN ByController(TimedOut)
  ELSE IF ~ctl.started \/ CompressionProtocolError \/ ctl.status # rd.con.final
       THEN ByController(Failure)
       ELSE ByWorker(rd.con.final)

CompatVerdict ==
  IF TraceFailed THEN ByController(TraceIo)
  ELSE IF ctl.timedOut THEN ByController(TimedOut)
  ELSE IF ~ctl.started \/ CompatProtocolError \/ ctl.status # rd.con.final
       THEN ByController(Failure)
       ELSE ByWorker(rd.con.final)

Verdict ==
  CASE prog = "poc" -> PocVerdict
    [] prog = "cache" -> CacheVerdict
    [] prog = "gemm" -> GemmVerdict
    [] prog = "compression" -> CompressionVerdict
    [] prog = "compat" -> CompatVerdict

\* The report is chosen; writing it may still fail.
Judge ==
  /\ ctl.pc = "judge"
  /\ \/ ctl' = [ctl EXCEPT !.pc = "done", !.verdict = Verdict] /\ UNCHANGED faults
     \/ /\ faults < MaxFaults /\ faults' = faults + 1
        /\ ctl' = [ctl EXCEPT !.pc = "done", !.verdict = ByController(TraceIo)]
  /\ UNCHANGED <<prog, w, pipe, rd, clock>>

\* Time passes while the controller polls.
Tick ==
  /\ ctl.pc = "poll" /\ ~Expired
  /\ clock' = [age |-> clock.age + 1, idle |-> clock.idle + 1]
  /\ UNCHANGED <<prog, w, pipe, rd, ctl, faults>>

(***************************************************************************)
(* Faults.                                                                 *)
(***************************************************************************)

Inject == faults < MaxFaults /\ faults' = faults + 1

\* The worker dies, possibly inside a write or after its final frame.
Crash ==
  /\ Inject /\ ctl.pc # "start" /\ Alive
  /\ w' = [w EXCEPT !.pc = "gone", !.status = Crashed, !.todo = <<>>]
  /\ pipe' \in Torn
  /\ UNCHANGED <<prog, rd, ctl, clock>>

\* The worker's main thread hangs outside the lock; its heartbeat thread goes on.
Hang ==
  /\ Inject /\ ctl.pc # "start" /\ Alive /\ ~w.hung /\ Free
  /\ w' = [w EXCEPT !.hung = TRUE]
  /\ UNCHANGED <<prog, pipe, rd, ctl, clock>>

\* A write of the worker fails, or a record is too large for a frame: nothing more is written.
Mute ==
  /\ Inject /\ Alive /\ w.pc \in {"work", "stop"} /\ Free /\ w.ok
  /\ w' = [w EXCEPT !.ok = FALSE]
  /\ UNCHANGED <<prog, pipe, rd, ctl, clock>>

\* The controller's trace file fails from now on.
TraceFails ==
  /\ Inject /\ w.tracing /\ rd.pc # "ended" /\ rd.con.sinkOk
  /\ rd' = [rd EXCEPT !.con.sinkOk = FALSE]
  /\ UNCHANGED <<prog, w, pipe, ctl, clock>>

(***************************************************************************)

Init ==
  /\ prog \in Programs
  /\ \E t \in IF prog \in Tracing THEN BOOLEAN ELSE {FALSE} :
       w = [pc |-> "plan", seq |-> 1, todo |-> <<>>, steps |-> 0, tiles |-> 0, seen |-> 0,
            counter |-> 0, beats |-> 0, records |-> 0, traced |-> 0, tracing |-> t,
            ok |-> TRUE, hung |-> FALSE, code |-> Nothing, status |-> Nothing]
  /\ pipe = <<>>
  /\ rd = [pc |-> "read", error |-> FALSE, wound |-> 0,
           dec |-> [half |-> FALSE, broken |-> FALSE, last |-> 0, state |-> "awaiting",
                    out |-> <<>>],
           con |-> [bad |-> FALSE, moved |-> FALSE, final |-> Nothing,
                    latest |-> IF prog = "compat" THEN 0 ELSE Nothing,
                    sunk |-> 0, sinkOk |-> TRUE, traceError |-> FALSE]]
  /\ ctl = [pc |-> "start", started |-> FALSE, timedOut |-> FALSE, status |-> Failure,
            traceOk |-> TRUE, verdict |-> ByController(Nothing)]
  /\ clock = [age |-> 0, idle |-> 0]
  /\ faults = 0

WorkerSteps == \/ SendPlan \/ Step \/ TraceRecord \/ Retire \/ Beat \/ Observe
               \/ Finish \/ StopBeats \/ SendFinal \/ Leave \/ Write
ReaderSteps == Read \/ Publish \/ EndOfStream
ControllerSteps == Start \/ Poll \/ Kill \/ Join \/ Judge
FaultSteps == Crash \/ Hang \/ Mute \/ TraceFails

Next == WorkerSteps \/ ReaderSteps \/ ControllerSteps \/ Tick \/ FaultSteps

Spec == Init /\ [][Next]_vars

Frames == [seq : Nat, type : {"plan", "heartbeat", "progress", "trace", "final"}, body : Int]

TypeOK ==
  /\ prog \in Programs
  /\ w.pc \in {"plan", "work", "stop", "final", "leave", "gone"}
  /\ \A i \in DOMAIN w.todo : w.todo[i] \in Frames
  /\ w.code \in Codes \union {Nothing}
  /\ w.status \in Codes \union {Nothing, Failure, Killed, Crashed}
  /\ Len(pipe) <= PipeRoom
  /\ \A i \in DOMAIN pipe : pipe[i] \in [f : Frames, part : {"head", "tail"}]
  /\ rd.pc \in {"read", "publish", "ended"}
  /\ rd.con.final \in Codes \union {Nothing}
  /\ ctl.pc \in {"start", "poll", "kill", "join", "judge", "done"}
  /\ ctl.status \in Codes \union {Failure, TimedOut, Killed, Crashed}
  /\ ctl.verdict.code \in Codes \union {Nothing, Failure, TimedOut, TraceIo}
  /\ clock.age \in 0 .. Overall /\ clock.idle \in 0 .. Quiet
  /\ faults \in 0 .. MaxFaults

Done == ctl.pc = "done"

(* A report is passed on as the worker's only when the worker ended by     *)
(* itself with the very exit code its final frame names, nobody cut its    *)
(* stream, and every trace record it wrote reached the trace file: a       *)
(* worker that crashes after its final frame, a killed one or one whose    *)
(* trace is incomplete is reported as a failure.                           *)
AcceptedIsWorkersOwn ==
  Done /\ ctl.verdict.from = "worker" =>
    /\ w.pc = "gone" /\ w.todo = <<>>
    /\ ctl.verdict.code = w.code /\ w.status = w.code
    /\ rd.con.sunk = w.traced
    /\ ~ctl.timedOut /\ ~w.hung

(* The controller reports only after the worker is reaped and the reader   *)
(* has taken everything the worker wrote (worker_process.cpp waits and     *)
(* joins before the result is read).                                       *)
ReportedAfterReap ==
  Done /\ ctl.started => w.pc = "gone" /\ rd.pc = "ended" /\ pipe = <<>>

(* A deadline that ended the worker is what the controller reports, although *)
(* the killed worker's stream also ends without its final frame; only a    *)
(* failed output file comes before it.                                     *)
TimeoutIsPrimary ==
  Done /\ ctl.timedOut =>
    ctl.verdict = ByController(TimedOut) \/ (ctl.verdict.code = TraceIo /\ faults > 0)

(* Without a fault and before a deadline the worker's own report is what   *)
(* the user sees, however the bytes of its frames were split into reads    *)
(* and however its threads took turns to write: no frame of a well-behaved *)
(* worker is refused.                                                      *)
FaultFreeAccepted ==
  Done /\ faults = 0 /\ ~ctl.timedOut => ctl.verdict = ByWorker(w.code)

(* The no-progress watchdog is wound up by work only: at most once for     *)
(* every step the executor took, and for the plan, the final report and    *)
(* the first report a gemm worker repeats.  A worker that only sends       *)
(* heartbeats is timed out.                                                *)
ProgressIsWork ==
  rd.wound <= w.steps + w.tiles + 2 + (IF prog = "gemm" THEN 1 ELSE 0)
=============================================================================
