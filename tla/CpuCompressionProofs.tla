------------------------ MODULE CpuCompressionProofs ------------------------
(***************************************************************************)
(* Proofs about the pool of codec workers, for any number of clients and   *)
(* workers, any capacity and any number of jobs, and about the batches of  *)
(* CPU compression, the runtime's use of it.                               *)
(*                                                                         *)
(* That a job is executed once is a fact about the queue and the workers   *)
(* together (JobsFit): each job is in one place, and its record says which.*)
(* That close drains depends on what an exited worker has seen (EndFits).  *)
(* What a preparation may release depends on the results still owed to it  *)
(* (Gathered): they are pending, or a wait for one timed out.              *)
(***************************************************************************)
EXTENDS CpuCompression, FiniteSetTheorems, FunctionTheorems, SequenceTheorems, TLAPS

-----------------------------------------------------------------------------
(* The invariant. *)

Numbered == \E n \in Nat : Submitted = 1..n

InQueue(j) == \E i \in DOMAIN queue : queue[i] = j
Runs(w, j) == worker[w].pc = "running" /\ worker[w].job = j

(* A job waits in the queue once, or one worker runs it, or it has its     *)
(* result; and only a result that one caller took has left `jobs`.         *)
JobsFit ==
  /\ \A i \in DOMAIN queue : queue[i] \in Submitted
  /\ \A w \in Worker : worker[w].pc = "running" => worker[w].job \in Submitted
  /\ \A v, w \in Worker, j \in Submitted : Runs(v, j) /\ Runs(w, j) => v = w
  /\ \A j \in Submitted :
       /\ job[j].stage = "queued" <=> InQueue(j)
       /\ job[j].stage = "running" <=> \E w \in Worker : Runs(w, j)
       /\ job[j].runs = IF job[j].stage = "queued" THEN 0 ELSE 1
       /\ job[j].taken = IF job[j].kept THEN 0 ELSE 1
       /\ ~job[j].kept => job[j].stage = "complete"

(* A thread that waits, waits for a job there was. *)
WaitersFit == \A c \in Client : client[c].pc = "wait" => client[c].job \in Submitted

(* Once closing, nothing is accepted.  A worker exits when it has found    *)
(* the queue empty by then, and goes to sleep when it has found it empty.  *)
EndFits ==
  /\ pool.closing => ~pool.accepting
  /\ \A c \in Client : client[c].pc \in {"notify", "join"} => pool.closing
  /\ \A w \in Worker : /\ worker[w].pc = "exited" => pool.closing /\ queue = <<>>
                       /\ worker[w].pc = "parking" => queue = <<>>
  /\ pool.joined => \A w \in Worker : worker[w].pc = "exited"

PoolInv ==
  /\ TypeOK /\ Numbered /\ JobsFit /\ WaitersFit /\ EndFits
  /\ OutstandingBounded /\ NoJobBesideSleepers

(* What the clients of the pool rely on. *)
PoolSafe ==
  /\ TypeOK /\ ConsumedOnce /\ OutstandingBounded /\ NoJobBesideSleepers /\ CloseDrains

-----------------------------------------------------------------------------
(* Counting. *)

LEMMA NumberNext ==
  ASSUME Numbered
  PROVE  /\ IsFiniteSet(Submitted) /\ NextJob \in Nat \ {0} /\ NextJob \notin Submitted
         /\ Submitted \union {NextJob} = 1..NextJob
<1>1. PICK n \in Nat : Submitted = 1..n
  BY DEF Numbered
<1>2. IsFiniteSet(1..n) /\ Cardinality(1..n) = n
  BY FS_Interval
<1>3. NextJob = n + 1
  BY <1>1, <1>2 DEF NextJob
<1> QED BY <1>1, <1>2, <1>3

LEMMA ReadyCount ==
  ASSUME PoolAssumption
  PROVE  IsFiniteSet(Ready) /\ Cardinality(Ready) \in Nat
<1>1. IsFiniteSet(Worker) /\ Ready \subseteq Worker
  BY DEF PoolAssumption, Ready
<1> QED BY <1>1, FS_Subset, FS_CardinalityType

(* How many workers are awake after one of them moved. *)
LEMMA ReadyMoves ==
  ASSUME PoolAssumption, TypeOK, NEW w \in Worker, NEW r, worker' = [worker EXCEPT ![w] = r]
  PROVE  /\ IsFiniteSet(Ready') /\ Cardinality(Ready') \in Nat
         /\ w \notin Ready /\ r.pc = "ready" => Cardinality(Ready') = Cardinality(Ready) + 1
         /\ w \in Ready /\ r.pc # "ready" => Cardinality(Ready') = Cardinality(Ready) - 1
         /\ r.pc = worker[w].pc => Ready' = Ready /\ Parked' = Parked
         /\ r.pc # "parked" => Parked' = Parked \ {w}
<1>1. worker' = [v \in Worker |-> IF v = w THEN r ELSE worker[v]]
  BY DEF TypeOK
<1>2. Ready' = IF r.pc = "ready" THEN Ready \union {w} ELSE Ready \ {w}
  BY <1>1 DEF Ready
<1>3. IsFiniteSet(Ready) /\ Cardinality(Ready) \in Nat
  BY ReadyCount
<1>4. /\ IsFiniteSet(Ready \union {w})
      /\ Cardinality(Ready \union {w}) = IF w \in Ready THEN Cardinality(Ready) ELSE Cardinality(Ready) + 1
  BY <1>3, FS_AddElement
<1>5. /\ IsFiniteSet(Ready \ {w})
      /\ Cardinality(Ready \ {w}) = IF w \in Ready THEN Cardinality(Ready) - 1 ELSE Cardinality(Ready)
  BY <1>3, FS_RemoveElement
<1>6. IsFiniteSet(Ready') /\ Cardinality(Ready') \in Nat
  BY <1>2, <1>4, <1>5, FS_CardinalityType
<1>7. r.pc = worker[w].pc => Ready' = Ready /\ Parked' = Parked
  BY <1>1 DEF Ready, Parked
<1>8. r.pc # "parked" => Parked' = Parked \ {w}
  BY <1>1 DEF Parked
<1> QED BY <1>2, <1>4, <1>5, <1>6, <1>7, <1>8

-----------------------------------------------------------------------------
(* Steps that neither submit, begin, end nor collect a job. *)

Aside == job' = job /\ queue' = queue /\ \A w \in Worker : \A j : Runs(w, j)' <=> Runs(w, j)

LEMMA AsideKeeps ==
  ASSUME PoolInv, Aside
  PROVE  (Numbered /\ JobsFit /\ OutstandingBounded)'
<1>1. Numbered' /\ OutstandingBounded'
  BY DEF PoolInv, Aside, Numbered, OutstandingBounded, Outstanding, Submitted
<1>2. \A j : InQueue(j)' <=> InQueue(j)
  BY DEF Aside, InQueue
<1>3. JobsFit'
  <2>1. \A w \in Worker : (worker[w].pc = "running" => worker[w].job \in Submitted)'
    BY DEF PoolInv, JobsFit, Aside, Runs, Submitted
  <2> QED BY <1>2, <2>1 DEF PoolInv, JobsFit, Aside, Submitted
<1> QED BY <1>1, <1>3

(* One worker moves between tasks of its loop. *)
LEMMA LoopStep ==
  ASSUME PoolAssumption, PoolInv, NEW w \in Worker,
         \/ Spawn(w) \/ Exit(w) \/ Park(w) \/ Sleep(w) \/ Wake(w)
  PROVE  PoolInv'
<1> USE DEF PoolInv
<1>1. PICK pc \in {"ready", "exited", "parking", "parked"} :
        /\ worker' = [worker EXCEPT ![w].pc = pc]
        /\ pc = "ready" => Spawn(w) \/ Wake(w)
        /\ pc = "exited" => Exit(w)
        /\ pc = "parking" => Park(w)
        /\ pc = "parked" => Sleep(w)
  <2>1. CASE Spawn(w) \/ Wake(w)
    BY <2>1 DEF Spawn, Wake
  <2>2. CASE Exit(w)
    BY <2>2 DEF Exit
  <2>3. CASE Park(w)
    BY <2>3 DEF Park
  <2>4. CASE Sleep(w)
    BY <2>4 DEF Sleep
  <2> QED BY <2>1, <2>2, <2>3, <2>4
<1>2. /\ job' = job /\ queue' = queue /\ client' = client
      /\ worker[w].pc \in {"none", "ready", "parking", "parked"}
      /\ pool'.accepting = pool.accepting /\ pool'.closing = pool.closing /\ pool'.joined = pool.joined
  BY DEF Spawn, Exit, MayExit, Park, Sleep, Wake, TypeOK
<1> DEFINE r == [worker[w] EXCEPT !.pc = pc]
<1>3. worker' = [worker EXCEPT ![w] = r]
  BY <1>1
<1>4. worker[w] \in [pc : {"none", "ready", "running", "parking", "parked", "exited"},
                     job : Job \union {NoJob}]
  BY DEF TypeOK
<1>5. r.pc = pc /\ r.job = worker[w].job
      /\ r \in [pc : {"none", "ready", "running", "parking", "parked", "exited"}, job : Job \union {NoJob}]
  BY <1>4
<1> HIDE DEF r
<1>6. \A v \in Worker : worker'[v] = IF v = w THEN r ELSE worker[v]
  BY <1>3 DEF TypeOK
<1>7. TypeOK'
  <2>1. worker' \in [Worker -> [pc : {"none", "ready", "running", "parking", "parked", "exited"},
                                job : Job \union {NoJob}]]
    BY <1>3, <1>5 DEF TypeOK
  <2>2. pool' \in [stage : {"spawning", "valid", "undoing", "joining", "invalid"},
               accepting : BOOLEAN, closing : BOOLEAN, joined : BOOLEAN,
               closer : Client \union {NoClient}]
    BY DEF Spawn, Exit, Park, Sleep, Wake, TypeOK
  <2> QED BY <1>2, <2>1, <2>2 DEF TypeOK, Submitted
<1>8. (Numbered /\ JobsFit /\ OutstandingBounded)'
  <2>1. Aside
    BY <1>2, <1>5, <1>6 DEF Aside, Runs
  <2> QED BY <2>1, AsideKeeps
<1>9. WaitersFit'
  BY <1>2 DEF WaitersFit, Submitted
<1>10. EndFits'
  BY <1>1, <1>2, <1>5, <1>6 DEF EndFits, Exit, MayExit, Park
<1>11. NoJobBesideSleepers'
  <2>1. /\ Cardinality(Ready) \in Nat /\ Cardinality(Ready') \in Nat
        /\ w \notin Ready /\ pc = "ready" => Cardinality(Ready') = Cardinality(Ready) + 1
        /\ pc # "parked" => Parked' = Parked \ {w}
    BY <1>3, <1>5, ReadyMoves, ReadyCount
  <2>2. Len(queue) \in Nat
    BY DEF TypeOK
  <2>3. CASE pc = "ready"
    <3>1. w \notin Ready
      BY <1>1, <2>3 DEF Spawn, Wake, Ready
    <3> QED BY <1>2, <2>1, <2>2, <2>3, <3>1 DEF NoJobBesideSleepers
  <2>4. CASE pc # "ready"
    <3>1. queue = <<>> \/ pool.closing
      BY <1>1, <2>4 DEF Exit, MayExit, Park, Sleep, EndFits
    <3>2. queue' = <<>> => Len(queue') = 0
      OBVIOUS
    <3> QED BY <1>2, <2>1, <3>1, <3>2 DEF NoJobBesideSleepers
  <2> QED BY <2>3, <2>4
<1> QED BY <1>7, <1>8, <1>9, <1>10, <1>11

(* Everyone asleep is woken. *)
LEMMA AwokenStep ==
  ASSUME PoolAssumption, PoolInv, UndoNotify \/ \E c \in Client : CloseNotifies(c)
  PROVE  PoolInv'
<1> USE DEF PoolInv
<1>1. /\ worker' = Awoken /\ job' = job /\ queue' = queue
      /\ pool'.accepting = pool.accepting /\ pool'.closing = pool.closing /\ pool'.joined = pool.joined
  BY DEF UndoNotify, CloseNotifies, TypeOK
<1>2. \A w \in Worker :
        /\ worker[w] \in [pc : {"none", "ready", "running", "parking", "parked", "exited"},
                          job : Job \union {NoJob}]
        /\ worker'[w] = IF worker[w].pc = "parked" THEN [worker[w] EXCEPT !.pc = "ready"] ELSE worker[w]
  BY <1>1 DEF Awoken, Parked, TypeOK
<1>3. \A w \in Worker :
        /\ worker'[w].pc = IF worker[w].pc = "parked" THEN "ready" ELSE worker[w].pc
        /\ worker'[w].job = worker[w].job
        /\ worker'[w] \in [pc : {"none", "ready", "running", "parking", "parked", "exited"},
                           job : Job \union {NoJob}]
  BY <1>2
<1>4. TypeOK'
  <2>1. worker' = [w \in Worker |-> worker'[w]]
    BY <1>1 DEF Awoken
  <2>2. worker' \in [Worker -> [pc : {"none", "ready", "running", "parking", "parked", "exited"},
                                job : Job \union {NoJob}]]
    BY <1>3, <2>1
  <2>3. pool' \in [stage : {"spawning", "valid", "undoing", "joining", "invalid"},
               accepting : BOOLEAN, closing : BOOLEAN, joined : BOOLEAN,
               closer : Client \union {NoClient}]
    BY DEF UndoNotify, CloseNotifies, TypeOK
  <2>4. client' \in [Client -> [pc : {"idle", "wait", "close", "notify", "join"},
                               job : Job \union {NoJob}, take : BOOLEAN]]
    BY DEF UndoNotify, CloseNotifies, TypeOK
  <2> QED BY <1>1, <2>2, <2>3, <2>4 DEF TypeOK, Submitted
<1>5. (Numbered /\ JobsFit /\ OutstandingBounded)'
  <2>1. Aside
    BY <1>1, <1>3 DEF Aside, Runs
  <2> QED BY <2>1, AsideKeeps
<1>6. \A c \in Client : client'[c] = client[c] \/ (client[c].pc = "notify" /\ client'[c].pc = "join")
  BY DEF UndoNotify, CloseNotifies, TypeOK
<1>7. WaitersFit'
  BY <1>1, <1>6 DEF WaitersFit, Submitted
<1>8. EndFits'
  BY <1>1, <1>3, <1>6 DEF EndFits
<1>9. NoJobBesideSleepers'
  BY <1>3 DEF NoJobBesideSleepers, Parked
<1> QED BY <1>4, <1>5, <1>7, <1>8, <1>9

(* The constructor, close, and clients that wait: nothing moves but flags. *)
LEMMA FlagStep ==
  ASSUME PoolAssumption, PoolInv,
         \/ SpawnThrows \/ UndoJoin
         \/ \E c \in Client : \/ CallClose(c) \/ CloseStops(c) \/ CloseJoins(c)
                              \/ WaitIsStale(c) \/ WaitTimesOut(c)
                              \/ \E j \in Submitted, take \in BOOLEAN : CallWait(c, j, take)
  PROVE  PoolInv'
<1> USE DEF PoolInv
<1>1. worker' = worker /\ job' = job /\ queue' = queue
  BY DEF SpawnThrows, UndoJoin, CallClose, CloseStops, CloseJoins, WaitIsStale, WaitTimesOut, CallWait
<1>2. /\ pool' \in [stage : {"spawning", "valid", "undoing", "joining", "invalid"},
               accepting : BOOLEAN, closing : BOOLEAN, joined : BOOLEAN,
               closer : Client \union {NoClient}]
      /\ \/ pool'.closing = pool.closing /\ pool'.accepting = pool.accepting
         \/ pool'.closing /\ ~pool'.accepting
      /\ pool.closing => pool'.closing
      /\ pool'.joined = pool.joined \/ \A w \in Worker : worker[w].pc = "exited"
  BY DEF SpawnThrows, UndoJoin, CallClose, CloseStops, CloseJoins, WaitIsStale, WaitTimesOut, CallWait,
     TypeOK
<1>3. /\ client' \in [Client -> [pc : {"idle", "wait", "close", "notify", "join"},
                                job : Job \union {NoJob}, take : BOOLEAN]]
      /\ \A c \in Client : \/ client'[c] = client[c]
                           \/ client'[c].pc \in {"idle", "close"}
                           \/ client'[c].pc = "notify" /\ pool'.closing
                           \/ client'[c].pc = "wait" /\ client'[c].job \in Submitted
  <2>1. CASE client' = client
    BY <2>1 DEF TypeOK
  <2>2. ASSUME NEW c \in Client, NEW r, client' = [client EXCEPT ![c] = r],
               r \in [pc : {"idle", "wait", "close", "notify", "join"},
                      job : Job \union {NoJob}, take : BOOLEAN],
               \/ r.pc \in {"idle", "close"}
               \/ r.pc = "notify" /\ pool'.closing
               \/ r.pc = "wait" /\ r.job \in Submitted
        PROVE  <1>3!1 /\ <1>3!2
    BY <2>2 DEF TypeOK
  <2>3. ASSUME NEW c \in Client, CallClose(c) \/ CloseStops(c) PROVE <1>3!1 /\ <1>3!2
    <3>1. PICK pc \in {"close", "notify"} :
            client' = [client EXCEPT ![c].pc = pc] /\ (pc = "notify" => pool'.closing)
      BY <2>3 DEF CallClose, CloseStops, TypeOK
    <3> DEFINE r == [client[c] EXCEPT !.pc = pc]
    <3>2. /\ client' = [client EXCEPT ![c] = r] /\ r.pc = pc
          /\ r \in [pc : {"idle", "wait", "close", "notify", "join"},
                    job : Job \union {NoJob}, take : BOOLEAN]
      BY <3>1 DEF TypeOK
    <3> HIDE DEF r
    <3> QED BY <2>2, <3>1, <3>2
  <2>4. ASSUME NEW c \in Client, CloseJoins(c) \/ WaitIsStale(c) \/ WaitTimesOut(c) PROVE <1>3!1 /\ <1>3!2
    <3>1. /\ client' = [client EXCEPT ![c] = Idle] /\ Idle.pc = "idle"
          /\ Idle \in [pc : {"idle", "wait", "close", "notify", "join"},
                       job : Job \union {NoJob}, take : BOOLEAN]
      BY <2>4 DEF CloseJoins, WaitIsStale, WaitTimesOut, Idle
    <3> QED BY <2>2, <3>1
  <2>5. ASSUME NEW c \in Client, NEW j \in Submitted, NEW take \in BOOLEAN, CallWait(c, j, take)
        PROVE  <1>3!1 /\ <1>3!2
    <3> DEFINE r == [pc |-> "wait", job |-> j, take |-> take]
    <3>1. /\ client' = [client EXCEPT ![c] = r] /\ r.pc = "wait" /\ r.job = j
          /\ r \in [pc : {"idle", "wait", "close", "notify", "join"},
                    job : Job \union {NoJob}, take : BOOLEAN]
      BY <2>5 DEF CallWait, TypeOK
    <3> HIDE DEF r
    <3> QED BY <2>2, <3>1
  <2> QED BY <2>1, <2>3, <2>4, <2>5 DEF SpawnThrows, UndoJoin
<1>4. TypeOK'
  BY <1>1, <1>2, <1>3 DEF TypeOK, Submitted
<1>5. (Numbered /\ JobsFit /\ OutstandingBounded)'
  <2>1. Aside
    BY <1>1 DEF Aside, Runs
  <2> QED BY <2>1, AsideKeeps
<1>6. WaitersFit'
  BY <1>1, <1>3 DEF WaitersFit, Submitted
<1>7. EndFits'
  BY <1>1, <1>2, <1>3 DEF EndFits
<1>8. NoJobBesideSleepers'
  BY <1>1, <1>2 DEF NoJobBesideSleepers, Parked, Ready
<1> QED BY <1>4, <1>5, <1>6, <1>7, <1>8

-----------------------------------------------------------------------------
(* A job begins, ends, comes and goes. *)

LEMMA TakeJobStep ==
  ASSUME PoolAssumption, PoolInv, NEW w \in Worker, TakeJob(w)
  PROVE  PoolInv'
<1> USE DEF PoolInv
<1> DEFINE h == Head(queue)
           r == [pc |-> "running", job |-> h]
<1>1. /\ queue \in Seq(Job) /\ queue # <<>> /\ queue' = Tail(queue) /\ worker[w].pc = "ready"
      /\ pool' = pool /\ client' = client
  BY DEF TakeJob, TypeOK
<1>2. /\ h \in Job /\ queue' \in Seq(Job) /\ Len(queue') = Len(queue) - 1 /\ Len(queue) \in Nat \ {0}
      /\ \A i \in 1..Len(queue') : queue'[i] = queue[i + 1]
      /\ h = queue[1] /\ DOMAIN queue = 1..Len(queue) /\ DOMAIN queue' = 1..Len(queue')
  BY <1>1, HeadTailProperties, EmptySeq
<1>3. h \in Submitted /\ job[h].stage = "queued" /\ job[h].runs = 0
  BY <1>2 DEF JobsFit, InQueue
<1>4. worker' = [worker EXCEPT ![w] = r] /\ r.pc = "running" /\ r.job = h
  BY DEF TakeJob, Popped
<1>5. job' = [job EXCEPT ![h].stage = "running", ![h].runs = @ + 1]
  BY DEF TakeJob
<1> HIDE DEF h
<1>6. /\ Submitted' = Submitted
      /\ \A j \in Submitted : j # h => job'[j] = job[j]
      /\ job'[h].stage = "running" /\ job'[h].runs = 1 /\ job'[h].taken = job[h].taken
      /\ job'[h].kept = job[h].kept
      /\ job'[h] \in [stage : {"queued", "running", "complete"}, status : Status \union {"none"},
                      runs : Nat, taken : Nat, kept : BOOLEAN]
  <2>1. job[h] \in [stage : {"queued", "running", "complete"}, status : Status \union {"none"},
                      runs : Nat, taken : Nat, kept : BOOLEAN]
    BY <1>3 DEF TypeOK
  <2> DEFINE q == [job[h] EXCEPT !.stage = "running", !.runs = @ + 1]
  <2>2. job' = [job EXCEPT ![h] = q]
    BY <1>5
  <2>3. q = [job[h] EXCEPT !.stage = "running", !.runs = 1]
    <3>1. job[h].runs + 1 = 1
      BY <1>3
    <3> QED BY <2>1, <3>1
  <2> HIDE DEF q
  <2>4. /\ q.stage = "running" /\ q.runs = 1 /\ q.taken = job[h].taken /\ q.kept = job[h].kept
        /\ q \in [stage : {"queued", "running", "complete"}, status : Status \union {"none"},
                   runs : Nat, taken : Nat, kept : BOOLEAN]
    BY <2>1, <2>3
  <2> QED BY <1>3, <2>2, <2>4 DEF Submitted
<1>7. r \in [pc : {"none", "ready", "running", "parking", "parked", "exited"}, job : Job \union {NoJob}]
  BY <1>2
<1> HIDE DEF r
<1>8. \A v \in Worker : worker'[v] = IF v = w THEN r ELSE worker[v]
  BY <1>4 DEF TypeOK
<1>9. IsInjective(queue') /\ \A i \in DOMAIN queue' : queue'[i] # h
  <2>1. \A i, k \in DOMAIN queue : queue[i] = queue[k] => i = k
    BY DEF TypeOK, IsInjective
  <2>2. \A i \in DOMAIN queue' : i + 1 \in DOMAIN queue /\ queue'[i] = queue[i + 1] /\ i \in Nat \ {0}
    BY <1>2
  <2>3. \A i, k \in DOMAIN queue' : queue'[i] = queue'[k] => i = k
    BY <2>1, <2>2
  <2>4. \A i \in DOMAIN queue' : queue'[i] # h
    BY <1>2, <2>1, <2>2
  <2> QED BY <2>3, <2>4 DEF IsInjective
<1>10. \A j : InQueue(j)' <=> InQueue(j) /\ j # h
  <2>1. ASSUME NEW j, InQueue(j), j # h PROVE InQueue(j)'
    <3>1. PICK i \in DOMAIN queue : queue[i] = j
      BY <2>1 DEF InQueue
    <3>2. i - 1 \in DOMAIN queue' /\ queue'[i - 1] = j
      BY <1>2, <2>1, <3>1
    <3> QED BY <3>2 DEF InQueue
  <2>2. ASSUME NEW j, InQueue(j)' PROVE InQueue(j) /\ j # h
    <3>1. PICK i \in DOMAIN queue' : queue'[i] = j
      BY <2>2 DEF InQueue
    <3>2. i + 1 \in DOMAIN queue /\ queue[i + 1] = j
      BY <1>2, <3>1
    <3> QED BY <1>9, <3>1, <3>2 DEF InQueue
  <2> QED BY <2>1, <2>2
<1>11. TypeOK'
  <2>1. worker' \in [Worker -> [pc : {"none", "ready", "running", "parking", "parked", "exited"},
                                job : Job \union {NoJob}]]
    BY <1>4, <1>7 DEF TypeOK
  <2> QED BY <1>1, <1>2, <1>6, <1>9, <2>1 DEF TypeOK
<1>12. \A v \in Worker : \A j : Runs(v, j)' <=> (v = w /\ j = h) \/ Runs(v, j)
  BY <1>1, <1>4, <1>8 DEF Runs
<1>13. \A v \in Worker : ~Runs(v, h)
  BY <1>3 DEF JobsFit
<1>14. JobsFit'
  <2>1. \A i \in DOMAIN queue' : queue'[i] \in Submitted
    BY <1>2 DEF JobsFit
  <2>2. \A v \in Worker : worker'[v].pc = "running" => worker'[v].job \in Submitted
    BY <1>3, <1>4, <1>8 DEF JobsFit
  <2>3. \A v, x \in Worker, j \in Submitted : Runs(v, j)' /\ Runs(x, j)' => v = x
    BY <1>12, <1>13 DEF JobsFit
  <2>4. ASSUME NEW j \in Submitted
        PROVE  /\ job'[j].stage = "queued" <=> InQueue(j)'
               /\ job'[j].stage = "running" <=> \E v \in Worker : Runs(v, j)'
               /\ job'[j].runs = IF job'[j].stage = "queued" THEN 0 ELSE 1
               /\ job'[j].taken = IF job'[j].kept THEN 0 ELSE 1
               /\ ~job'[j].kept => job'[j].stage = "complete"
    BY <1>3, <1>6, <1>10, <1>12 DEF JobsFit
  <2> QED BY <1>6, <2>1, <2>2, <2>3, <2>4 DEF JobsFit
<1>15. OutstandingBounded' /\ Numbered' /\ WaitersFit'
  <2>1. Outstanding' = Outstanding
    BY <1>6 DEF Outstanding
  <2> QED BY <1>1, <1>6, <2>1 DEF OutstandingBounded, Numbered, WaitersFit
<1>16. EndFits'
  BY <1>1, <1>4, <1>8 DEF EndFits
<1>17. NoJobBesideSleepers'
  <2>1. /\ Cardinality(Ready) \in Nat /\ Cardinality(Ready') = Cardinality(Ready) - 1
        /\ Parked' = Parked \ {w}
    BY <1>1, <1>4, ReadyMoves, ReadyCount DEF Ready
  <2> QED BY <1>1, <1>2, <2>1 DEF NoJobBesideSleepers
<1> QED BY <1>11, <1>14, <1>15, <1>16, <1>17

LEMMA ExecuteStep ==
  ASSUME PoolAssumption, PoolInv, NEW w \in Worker, Execute(w)
  PROVE  PoolInv'
<1> USE DEF PoolInv
<1> DEFINE h == worker[w].job
           r == [pc |-> "ready", job |-> NoJob]
<1>1. worker[w].pc = "running" /\ queue' = queue /\ pool' = pool /\ client' = client
  BY DEF Execute
<1>2. h \in Submitted /\ Runs(w, h) /\ job[h].stage = "running"
  BY <1>1 DEF JobsFit, Runs
<1>3. PICK s \in Status : job' = [job EXCEPT ![h].stage = "complete", ![h].status = s]
  BY DEF Execute
<1>4. worker' = [worker EXCEPT ![w] = r] /\ r.pc = "ready" /\ r.job = NoJob
      /\ r \in [pc : {"none", "ready", "running", "parking", "parked", "exited"}, job : Job \union {NoJob}]
  BY DEF Execute
<1> HIDE DEF h, r
<1>5. /\ Submitted' = Submitted
      /\ \A j \in Submitted : j # h => job'[j] = job[j]
      /\ job'[h].stage = "complete" /\ job'[h].runs = job[h].runs /\ job'[h].taken = job[h].taken
      /\ job'[h].kept = job[h].kept
      /\ job'[h] \in [stage : {"queued", "running", "complete"}, status : Status \union {"none"},
                      runs : Nat, taken : Nat, kept : BOOLEAN]
  <2>1. job[h] \in [stage : {"queued", "running", "complete"}, status : Status \union {"none"},
                      runs : Nat, taken : Nat, kept : BOOLEAN]
    BY <1>2 DEF TypeOK
  <2> QED BY <1>2, <1>3, <2>1 DEF Submitted
<1>6. \A v \in Worker : worker'[v] = IF v = w THEN r ELSE worker[v]
  BY <1>4 DEF TypeOK
<1>7. TypeOK'
  <2>1. worker' \in [Worker -> [pc : {"none", "ready", "running", "parking", "parked", "exited"},
                                job : Job \union {NoJob}]]
    BY <1>4 DEF TypeOK
  <2> QED BY <1>1, <1>5, <2>1 DEF TypeOK
<1>8. \A j : InQueue(j)' <=> InQueue(j)
  BY <1>1 DEF InQueue
<1>9. \A v \in Worker : \A j : Runs(v, j)' <=> Runs(v, j) /\ v # w
  BY <1>4, <1>6 DEF Runs
<1>10. \A v \in Worker : Runs(v, h) => v = w
  BY <1>2 DEF JobsFit
<1>11. \A j : Runs(w, j) => j = h
  BY DEF Runs, h
<1>12. JobsFit'
  <2>1. \A v \in Worker : worker'[v].pc = "running" => worker'[v].job \in Submitted
    BY <1>4, <1>6 DEF JobsFit
  <2>2. \A v, x \in Worker, j \in Submitted : Runs(v, j)' /\ Runs(x, j)' => v = x
    BY <1>9 DEF JobsFit
  <2>3. ASSUME NEW j \in Submitted
        PROVE  /\ job'[j].stage = "queued" <=> InQueue(j)'
               /\ job'[j].stage = "running" <=> \E v \in Worker : Runs(v, j)'
               /\ job'[j].runs = IF job'[j].stage = "queued" THEN 0 ELSE 1
               /\ job'[j].taken = IF job'[j].kept THEN 0 ELSE 1
               /\ ~job'[j].kept => job'[j].stage = "complete"
    <3>1. CASE j = h
      BY <1>2, <1>5, <1>8, <1>9, <1>10, <3>1 DEF JobsFit
    <3>2. CASE j # h
      BY <1>5, <1>8, <1>9, <1>11, <3>2 DEF JobsFit
    <3> QED BY <3>1, <3>2
  <2> QED BY <1>1, <1>5, <2>1, <2>2, <2>3 DEF JobsFit
<1>13. OutstandingBounded' /\ Numbered' /\ WaitersFit'
  <2>1. Outstanding' = Outstanding
    BY <1>5 DEF Outstanding
  <2> QED BY <1>1, <1>5, <2>1 DEF OutstandingBounded, Numbered, WaitersFit
<1>14. EndFits'
  BY <1>1, <1>4, <1>6 DEF EndFits
<1>15. NoJobBesideSleepers'
  <2>1. /\ Cardinality(Ready) \in Nat /\ Cardinality(Ready') = Cardinality(Ready) + 1
        /\ Parked' = Parked \ {w}
    BY <1>1, <1>4, ReadyMoves, ReadyCount DEF Ready
  <2>2. Len(queue) \in Nat
    BY DEF TypeOK
  <2> QED BY <1>1, <2>1, <2>2 DEF NoJobBesideSleepers
<1> QED BY <1>7, <1>12, <1>13, <1>14, <1>15

LEMMA AcceptStep ==
  ASSUME PoolAssumption, PoolInv, Accept(NextJob), client' = client
  PROVE  PoolInv'
<1> USE DEF PoolInv
<1> DEFINE n == NextJob
           r == [stage |-> "queued", status |-> "none", runs |-> 0, taken |-> 0, kept |-> TRUE]
<1>1. /\ pool.accepting /\ MutexFree /\ ~Full /\ n \in Nat /\ n <= MaxJobs
      /\ queue' = Append(queue, n) /\ pool' = pool /\ client' = client
      /\ job' = [k \in Submitted \union {n} |-> IF k = n THEN r ELSE job[k]]
  BY NumberNext DEF Accept, MayAccept
<1>2. /\ IsFiniteSet(Submitted) /\ n \notin Submitted /\ Submitted \union {n} = 1..n /\ n \in Nat \ {0}
  BY NumberNext
<1>3. n \in Job
  BY <1>1, <1>2 DEF Job, PoolAssumption
<1>4. /\ r.stage = "queued" /\ r.runs = 0 /\ r.taken = 0 /\ r.kept
      /\ r \in [stage : {"queued", "running", "complete"}, status : Status \union {"none"},
                 runs : Nat, taken : Nat, kept : BOOLEAN]
  OBVIOUS
<1> HIDE DEF n, r
<1>5. /\ Submitted' = Submitted \union {n} /\ job'[n] = r
      /\ \A j \in Submitted : job'[j] = job[j]
  BY <1>1, <1>2 DEF Submitted
<1>6. /\ queue \in Seq(Job) /\ queue' \in Seq(Job)
      /\ Len(queue) \in Nat /\ Len(queue') = Len(queue) + 1
      /\ DOMAIN queue = 1..Len(queue) /\ DOMAIN queue' = DOMAIN queue \union {Len(queue) + 1}
      /\ queue'[Len(queue) + 1] = n
      /\ \A i \in DOMAIN queue : queue'[i] = queue[i]
  <2>1. queue \in Seq(Job)
    BY DEF TypeOK
  <2> QED BY <1>1, <1>3, <2>1, AppendProperties
<1>7. \/ worker' = worker /\ Parked = {}
      \/ \E w \in Parked : worker' = [worker EXCEPT ![w].pc = "ready"]
  BY DEF Accept, Notifies
<1>8. \A i \in DOMAIN queue : queue[i] # n
  BY <1>2 DEF JobsFit
<1>9. IsInjective(queue')
  <2>1. \A i, k \in DOMAIN queue : queue[i] = queue[k] => i = k
    BY DEF TypeOK, IsInjective
  <2>2. \A i, k \in DOMAIN queue' : queue'[i] = queue'[k] => i = k
    BY <1>6, <1>8, <2>1
  <2> QED BY <2>2 DEF IsInjective
<1>10. \A j : InQueue(j)' <=> InQueue(j) \/ j = n
  BY <1>6 DEF InQueue
<1>11. \A w \in Worker :
         /\ worker'[w] \in [pc : {"none", "ready", "running", "parking", "parked", "exited"},
                            job : Job \union {NoJob}]
         /\ worker'[w].job = worker[w].job
         /\ worker'[w].pc = worker[w].pc \/ (worker[w].pc = "parked" /\ worker'[w].pc = "ready")
  <2> SUFFICES ASSUME NEW v \in Worker
               PROVE  /\ worker'[v] \in [pc : {"none", "ready", "running", "parking", "parked", "exited"},
                                         job : Job \union {NoJob}]
                      /\ worker'[v].job = worker[v].job
                      /\ \/ worker'[v].pc = worker[v].pc
                         \/ worker[v].pc = "parked" /\ worker'[v].pc = "ready"
    OBVIOUS
  <2>1. worker[v] \in [pc : {"none", "ready", "running", "parking", "parked", "exited"},
                       job : Job \union {NoJob}]
    BY DEF TypeOK
  <2>2. worker'[v] = worker[v] \/ (v \in Parked /\ worker'[v] = [worker[v] EXCEPT !.pc = "ready"])
    BY <1>7 DEF TypeOK
  <2> QED BY <2>1, <2>2 DEF Parked
<1>12. TypeOK'
  <2>1. worker' \in [Worker -> [pc : {"none", "ready", "running", "parking", "parked", "exited"},
                                job : Job \union {NoJob}]]
    <3>1. worker' = [w \in Worker |-> worker'[w]]
      BY <1>7 DEF TypeOK
    <3> QED BY <1>11, <3>1
  <2>2. Submitted' \subseteq Job
    BY <1>3, <1>5 DEF TypeOK
  <2>3. \A j \in Submitted' :
          job'[j] \in [stage : {"queued", "running", "complete"}, status : Status \union {"none"},
                       runs : Nat, taken : Nat, kept : BOOLEAN]
    BY <1>4, <1>5 DEF TypeOK
  <2> QED BY <1>1, <1>6, <1>9, <2>1, <2>2, <2>3 DEF TypeOK
<1>13. Numbered'
  BY <1>2, <1>5 DEF Numbered
<1>14. \A w \in Worker : \A j : Runs(w, j)' <=> Runs(w, j)
  BY <1>11 DEF Runs
<1>15. JobsFit'
  <2>1. \A i \in DOMAIN queue' : queue'[i] \in Submitted'
    BY <1>5, <1>6 DEF JobsFit
  <2>2. \A w \in Worker : worker'[w].pc = "running" => worker'[w].job \in Submitted
    BY <1>11 DEF JobsFit
  <2>3. \A w \in Worker : ~Runs(w, n)
    BY <1>2 DEF JobsFit, Runs
  <2>4. \A v, w \in Worker, j \in Submitted' : Runs(v, j)' /\ Runs(w, j)' => v = w
    BY <1>5, <1>14, <2>3 DEF JobsFit
  <2>5. ASSUME NEW j \in Submitted'
        PROVE  /\ job'[j].stage = "queued" <=> InQueue(j)'
               /\ job'[j].stage = "running" <=> \E w \in Worker : Runs(w, j)'
               /\ job'[j].runs = IF job'[j].stage = "queued" THEN 0 ELSE 1
               /\ job'[j].taken = IF job'[j].kept THEN 0 ELSE 1
               /\ ~job'[j].kept => job'[j].stage = "complete"
    <3>1. CASE j = n
      BY <1>4, <1>5, <1>10, <1>14, <2>3, <3>1
    <3>2. CASE j \in Submitted /\ j # n
      BY <1>5, <1>10, <1>14, <3>2 DEF JobsFit
    <3> QED BY <1>5, <3>1, <3>2
  <2> QED BY <1>5, <2>1, <2>2, <2>4, <2>5 DEF JobsFit
<1>16. OutstandingBounded'
  <2>1. Outstanding' = Outstanding \union {n} /\ n \notin Outstanding
    BY <1>2, <1>4, <1>5 DEF Outstanding
  <2>2. IsFiniteSet(Outstanding) /\ Cardinality(Outstanding) \in Nat
    BY <1>2, FS_Subset, FS_CardinalityType DEF Outstanding
  <2>3. Cardinality(Outstanding') = Cardinality(Outstanding) + 1
    BY <2>1, <2>2, FS_AddElement
  <2>4. Capacity \in Nat /\ ~(Cardinality(Outstanding) >= Capacity)
    BY <1>1 DEF Full, PoolAssumption
  <2> QED BY <2>2, <2>3, <2>4 DEF OutstandingBounded
<1>17. WaitersFit'
  BY <1>1, <1>5 DEF WaitersFit
<1>18. EndFits'
  <2>1. ~pool.closing /\ \A w \in Worker : worker[w].pc \notin {"exited", "parking"}
    BY <1>1 DEF EndFits, MutexFree
  <2> QED BY <1>1, <1>11, <2>1 DEF EndFits
<1>19. NoJobBesideSleepers'
  <2>1. CASE worker' = worker /\ Parked = {}
    BY <2>1 DEF NoJobBesideSleepers, Parked
  <2>2. ASSUME NEW w \in Parked, worker' = [worker EXCEPT ![w].pc = "ready"] PROVE NoJobBesideSleepers'
    <3> DEFINE q == [worker[w] EXCEPT !.pc = "ready"]
    <3>1. w \in Worker /\ w \notin Ready /\ worker' = [worker EXCEPT ![w] = q] /\ q.pc = "ready"
      BY <2>2 DEF Parked, Ready, TypeOK
    <3> HIDE DEF q
    <3>2. Cardinality(Ready) \in Nat /\ Cardinality(Ready') = Cardinality(Ready) + 1
      BY <3>1, ReadyMoves, ReadyCount
    <3> QED BY <1>1, <1>6, <2>2, <3>2 DEF NoJobBesideSleepers
  <2> QED BY <1>7, <2>1, <2>2
<1> QED BY <1>12, <1>13, <1>15, <1>16, <1>17, <1>18, <1>19

(* A result is collected, or only looked at. *)
LEMMA DeliverStep ==
  ASSUME PoolAssumption, PoolInv, NEW j \in Submitted, NEW take \in BOOLEAN, Deliver(j, take),
         \/ client' = client
         \/ \E c \in Client : client' = [client EXCEPT ![c] = Idle]
  PROVE  PoolInv'
<1> USE DEF PoolInv
<1>1. /\ pool' = pool /\ queue' = queue /\ worker' = worker
      /\ job[j].stage = "complete" /\ (take => job[j].taken = 0)
      /\ job' = IF take THEN [job EXCEPT ![j].taken = @ + 1, ![j].kept = FALSE] ELSE job
  BY DEF Deliver, Claimable
<1>2. /\ client' \in [Client -> [pc : {"idle", "wait", "close", "notify", "join"},
                                job : Job \union {NoJob}, take : BOOLEAN]]
      /\ \A c \in Client : client'[c] = client[c] \/ client'[c].pc = "idle"
  <2>1. Idle.pc = "idle" /\ Idle \in [pc : {"idle", "wait", "close", "notify", "join"},
                                      job : Job \union {NoJob}, take : BOOLEAN]
    BY DEF Idle
  <2> HIDE DEF Idle
  <2> QED BY <2>1 DEF TypeOK
<1>3. /\ Submitted' = Submitted /\ \A i \in Submitted : i # j => job'[i] = job[i]
      /\ job'[j].stage = job[j].stage /\ job'[j].runs = job[j].runs
      /\ job'[j].taken = IF take THEN 1 ELSE job[j].taken
      /\ job'[j].kept <=> job[j].kept /\ ~take
      /\ job'[j] \in [stage : {"queued", "running", "complete"}, status : Status \union {"none"},
                      runs : Nat, taken : Nat, kept : BOOLEAN]
  <2>1. job[j] \in [stage : {"queued", "running", "complete"}, status : Status \union {"none"},
                    runs : Nat, taken : Nat, kept : BOOLEAN]
    BY DEF TypeOK
  <2>2. CASE take
    <3> DEFINE q == [job[j] EXCEPT !.taken = @ + 1, !.kept = FALSE]
    <3>1. job' = [job EXCEPT ![j] = q]
      BY <1>1, <2>2
    <3>2. q = [job[j] EXCEPT !.taken = 1, !.kept = FALSE]
      <4>1. job[j].taken + 1 = 1
        BY <1>1, <2>2
      <4> QED BY <2>1, <4>1
    <3> HIDE DEF q
    <3>3. /\ q.stage = job[j].stage /\ q.runs = job[j].runs /\ q.taken = 1 /\ ~q.kept
          /\ q \in [stage : {"queued", "running", "complete"}, status : Status \union {"none"},
                    runs : Nat, taken : Nat, kept : BOOLEAN]
      BY <2>1, <3>2
    <3> QED BY <2>2, <3>1, <3>3 DEF Submitted
  <2>3. CASE ~take
    BY <1>1, <2>1, <2>3 DEF Submitted
  <2> QED BY <2>2, <2>3
<1>4. TypeOK'
  BY <1>1, <1>2, <1>3 DEF TypeOK
<1>5. (\A i : InQueue(i)' <=> InQueue(i)) /\ (\A w \in Worker : \A i : Runs(w, i)' <=> Runs(w, i))
  BY <1>1 DEF InQueue, Runs
<1>6. JobsFit'
  <2>1. ASSUME NEW i \in Submitted
        PROVE  /\ job'[i].stage = "queued" <=> InQueue(i)'
               /\ job'[i].stage = "running" <=> \E w \in Worker : Runs(w, i)'
               /\ job'[i].runs = IF job'[i].stage = "queued" THEN 0 ELSE 1
               /\ job'[i].taken = IF job'[i].kept THEN 0 ELSE 1
               /\ ~job'[i].kept => job'[i].stage = "complete"
    <3>1. CASE i = j
      BY <1>1, <1>3, <1>5, <3>1 DEF JobsFit
    <3>2. CASE i # j
      BY <1>3, <1>5, <3>2 DEF JobsFit
    <3> QED BY <3>1, <3>2
  <2> QED BY <1>1, <1>3, <1>5, <2>1 DEF JobsFit
<1>7. OutstandingBounded'
  <2>1. Outstanding' \subseteq Outstanding
    BY <1>3 DEF Outstanding
  <2>2. IsFiniteSet(Outstanding)
    BY NumberNext, FS_Subset DEF Outstanding
  <2>3. Cardinality(Outstanding') <= Cardinality(Outstanding) /\ Cardinality(Outstanding') \in Nat
        /\ Cardinality(Outstanding) \in Nat
    BY <2>1, <2>2, FS_Subset, FS_CardinalityType
  <2> QED BY <2>3 DEF OutstandingBounded, PoolAssumption
<1>8. Numbered' /\ WaitersFit' /\ EndFits' /\ NoJobBesideSleepers'
  BY <1>1, <1>2, <1>3 DEF Numbered, WaitersFit, EndFits, NoJobBesideSleepers, Parked, Ready
<1> QED BY <1>4, <1>6, <1>7, <1>8

-----------------------------------------------------------------------------
(* The theorem. *)

LEMMA InitPool == PoolAssumption /\ PoolInit => PoolInv
<1> SUFFICES ASSUME PoolAssumption, PoolInit PROVE PoolInv
  OBVIOUS
<1>1. Submitted = {} /\ queue = <<>> /\ DOMAIN queue = {} /\ 1..0 = {}
  BY DEF PoolInit, Submitted
<1>2. TypeOK
  BY <1>1 DEF PoolInit, TypeOK, IsInjective, Idle
<1>3. Numbered
  BY <1>1 DEF Numbered
<1>4. \A w \in Worker : worker[w].pc = "none"
  BY DEF PoolInit
<1>5. \A c \in Client : client[c].pc = "idle"
  BY DEF PoolInit, Idle
<1>6. JobsFit /\ WaitersFit
  BY <1>1, <1>4, <1>5 DEF JobsFit, WaitersFit
<1>7. EndFits
  BY <1>4, <1>5 DEF EndFits, PoolInit
<1>8. OutstandingBounded
  <2>1. Outstanding = {}
    BY <1>1 DEF Outstanding
  <2> QED BY <2>1, FS_EmptySet DEF OutstandingBounded, PoolAssumption
<1>9. NoJobBesideSleepers
  BY <1>4 DEF NoJobBesideSleepers, Parked
<1> QED BY <1>2, <1>3, <1>6, <1>7, <1>8, <1>9 DEF PoolInv

LEMMA PoolStepKeeps == PoolAssumption /\ PoolInv /\ [PoolNext]_poolVars => PoolInv'
<1> SUFFICES ASSUME PoolAssumption, PoolInv, [PoolNext]_poolVars PROVE PoolInv'
  OBVIOUS
<1>1. ASSUME NEW w \in Worker, Spawn(w) \/ WorkerStep(w) \/ Wake(w) PROVE PoolInv'
  BY <1>1, LoopStep, TakeJobStep, ExecuteStep DEF WorkerStep
<1>2. CASE UndoNotify \/ UndoJoin \/ SpawnThrows
  BY <1>2, AwokenStep, FlagStep
<1>3. ASSUME NEW c \in Client, Submit(c) PROVE PoolInv'
  BY <1>3, AcceptStep DEF Submit
<1>4. ASSUME NEW c \in Client, NEW j \in Submitted, NEW take \in BOOLEAN,
             Poll(c, j, take) \/ CallWait(c, j, take)
      PROVE  PoolInv'
  BY <1>4, DeliverStep, FlagStep DEF Poll
<1>5. ASSUME NEW c \in Client, WaitDelivers(c) PROVE PoolInv'
  <2>1. client[c].job \in Submitted /\ client[c].take \in BOOLEAN
    BY <1>5 DEF WaitDelivers, PoolInv, WaitersFit, TypeOK
  <2>2. Deliver(client[c].job, client[c].take) /\ client' = [client EXCEPT ![c] = Idle]
    BY <1>5 DEF WaitDelivers
  <2> QED BY <2>1, <2>2, DeliverStep
<1>6. ASSUME NEW c \in Client, WaitIsStale(c) \/ WaitTimesOut(c) \/ CallClose(c) \/ CloseStep(c)
      PROVE  PoolInv'
  BY <1>6, FlagStep, AwokenStep DEF CloseStep
<1>7. CASE UNCHANGED poolVars
  <2>1. Aside
    BY <1>7 DEF Aside, Runs, poolVars
  <2> QED BY <1>7, <2>1, AsideKeeps DEF poolVars, PoolInv, TypeOK, WaitersFit, EndFits,
             NoJobBesideSleepers, Parked, Ready, Submitted
<1> QED BY <1>1, <1>2, <1>3, <1>4, <1>5, <1>6, <1>7 DEF PoolNext, ConstructorStep

LEMMA PoolInvSafe == PoolAssumption /\ PoolInv => PoolSafe
<1> SUFFICES ASSUME PoolAssumption, PoolInv PROVE PoolSafe
  OBVIOUS
<1>1. ConsumedOnce
  BY DEF PoolInv, JobsFit, ConsumedOnce
<1>2. ASSUME pool.joined
      PROVE  /\ queue = <<>>
             /\ \A j \in Submitted : job[j].stage = "complete" /\ (job[j].kept \/ job[j].taken = 1)
  <2>1. (\A w \in Worker : worker[w].pc = "exited") /\ queue = <<>>
    BY <1>2 DEF PoolInv, EndFits, PoolAssumption
  <2>2. ASSUME NEW j \in Submitted PROVE job[j].stage \notin {"queued", "running"}
    <3>1. ~InQueue(j) /\ \A w \in Worker : ~Runs(w, j)
      BY <2>1 DEF InQueue, Runs
    <3> QED BY <3>1 DEF PoolInv, JobsFit
  <2> QED BY <2>1, <2>2 DEF PoolInv, JobsFit, TypeOK
<1> QED BY <1>1, <1>2 DEF PoolInv, PoolSafe, CloseDrains

(* However many threads submit, poll, wait and close at once, and whether   *)
(* or not the constructor could start its threads: a job is executed once   *)
(* and its result handed out once (worker_loop, collect), the pool owes no  *)
(* more than queue_capacity results (submit), no worker sleeps beside a job *)
(* nobody was woken for, and when close has joined the workers every job    *)
(* accepted before has its result.                                          *)
THEOREM PoolIsSafe == PoolAssumption => (PoolSpec => []PoolSafe)
<1> SUFFICES ASSUME PoolAssumption PROVE PoolSpec => []PoolSafe
  OBVIOUS
<1>1. PoolInit => PoolInv
  BY InitPool
<1>2. PoolInv /\ [PoolNext]_poolVars => PoolInv'
  BY PoolStepKeeps
<1>3. PoolInv => PoolSafe
  BY PoolInvSafe
<1> QED BY <1>1, <1>2, <1>3, PTL DEF PoolSpec

-----------------------------------------------------------------------------
(* A preparation of a candidate over the pool. *)

Accounts ==
  /\ rt \in [timeout : BOOLEAN, blocked : BOOLEAN, created : Nat, committed : Nat,
             discarded : Nat, threw : SUBSET Prep, preps : 0..MaxPreps]
  /\ ledger \in [scratch : SUBSET Prep, candidate : SUBSET Prep]
  /\ GenerationsAccounted

IsPending(j) == \E i \in DOMAIN prep.pending : prep.pending[i] = j

(* The jobs pending are the preparation's own, in a batch that fits.       *)
BatchFits ==
  /\ \A i \in DOMAIN prep.pending : jobPrep[prep.pending[i]] = prep.id
  /\ prep.pc = "submit" => /\ prep.next <= prep.end
                           /\ Len(prep.pending) + prep.end <= Capacity + prep.next
  /\ prep.pc \in {"idle", "decide", "again"} => prep.pending = <<>> /\ ~prep.bad

(* A job that still owes its result is one the preparation will collect,   *)
(* unless a wait for it timed out or an exception forgot it.               *)
Gathered ==
  \A j \in Outstanding :
    /\ jobPrep[j] = prep.id => IsPending(j) \/ (rt.timeout /\ prep.bad)
    /\ rt.timeout \/ rt.threw # {} \/ IsPending(j)

NumberedSoFar == prep.id <= rt.preps /\ \A j \in Submitted : jobPrep[j] <= rt.preps

(* A preparation that submits or collects has its scratch charged; nothing *)
(* else is charged before a timeout.                                       *)
ChargesFit ==
  /\ AbandonedJobsStayCharged
  /\ prep.pc \in {"submit", "collect"} => prep.id \in ledger.scratch
  /\ rt.timeout \/ ledger.scratch \union ledger.candidate \subseteq
                     (IF prep.pc \in {"submit", "collect", "decide"} THEN {prep.id} ELSE {})

PrepInv ==
  /\ PrepTypeOK /\ (prep.pc = "idle" => prep = Resting)
  /\ Accounts /\ BatchFits /\ Gathered /\ NumberedSoFar /\ ChargesFit

(* What the host budget and the next preparation rely on. *)
BatchesSafe ==
  /\ PrepTypeOK /\ AbandonedJobsStayCharged /\ PoolLeftEmpty /\ GenerationsAccounted
  /\ NothingChargedAtRest

PrepFields == [pc : {"idle", "submit", "collect", "decide", "again"}, id : 0..MaxPreps,
               attempt : 0..3, next : 0..Blocks, end : 0..Blocks, pending : Seq(Submitted),
               bad : BOOLEAN]

LEMMA BatchEndFits ==
  ASSUME PoolAssumption, CompressionAssumption, NEW n \in 0..Blocks
  PROVE  BatchEnd(n) \in n..Blocks /\ BatchEnd(n) <= n + Capacity
BY DEF BatchEnd, PoolAssumption, CompressionAssumption

LEMMA RestingFits ==
  ASSUME CompressionAssumption
  PROVE  /\ Resting \in PrepFields /\ Resting.pc = "idle" /\ Resting.id = 0 /\ Resting.pending = <<>>
         /\ Resting.bad = FALSE /\ DOMAIN Resting.pending = {} /\ Len(Resting.pending) = 0
BY DEF Resting, PrepFields, CompressionAssumption

(* No job of the preparation still owes a result when its batches are done. *)
LEMMA NoneOwed ==
  ASSUME PrepInv, prep.pending = <<>>, ~rt.timeout \/ ~prep.bad, NEW j \in Outstanding
  PROVE  jobPrep[j] # prep.id /\ (~rt.timeout => rt.threw # {})
BY DEF PrepInv, Gathered, IsPending, Accounts

-----------------------------------------------------------------------------
(* Steps that end an attempt, and steps inside one. *)

LEMMA RestKeeps ==
  ASSUME PoolAssumption, CompressionAssumption, PrepInv, job' = job, jobPrep' = jobPrep,
         prep' = Resting, Accounts',
         rt'.timeout = rt.timeout, rt.threw \subseteq rt'.threw, rt.preps <= rt'.preps,
         AbandonedJobsStayCharged',
         rt.timeout \/ (ledger'.scratch = {} /\ ledger'.candidate = {}),
         \A j \in Outstanding : rt.timeout \/ rt'.threw # {}
  PROVE  PrepInv'
<1>1. Submitted' = Submitted /\ Outstanding' = Outstanding
  BY DEF Submitted, Outstanding
<1>2. /\ prep' \in PrepFields /\ prep'.pc = "idle" /\ prep'.id = 0 /\ prep'.pending = <<>>
      /\ prep'.bad = FALSE /\ DOMAIN prep'.pending = {} /\ Len(prep'.pending) = 0
  BY RestingFits
<1>3. rt'.preps \in 0..MaxPreps /\ rt'.threw \subseteq Prep /\ rt.preps \in 0..MaxPreps
      /\ ledger'.scratch \subseteq Prep /\ ledger'.candidate \subseteq Prep
  BY DEF Accounts, PrepInv, PrepTypeOK
<1>4. \A j \in Submitted : jobPrep[j] \in Prep /\ jobPrep[j] <= rt.preps
  BY DEF PrepInv, PrepTypeOK, NumberedSoFar
<1>5. PrepTypeOK'
  BY <1>1, <1>2, <1>3 DEF PrepInv, PrepTypeOK, PrepFields, PoolAssumption
<1>6. (prep.pc = "idle" => prep = Resting)'
  BY DEF Resting
<1>7. BatchFits'
  BY <1>2 DEF BatchFits
<1>8. Gathered'
  BY <1>1, <1>2, <1>4 DEF Gathered, Outstanding, Prep
<1>9. NumberedSoFar'
  BY <1>1, <1>2, <1>3, <1>4 DEF NumberedSoFar, Prep, CompressionAssumption
<1>10. ChargesFit'
  BY <1>2 DEF ChargesFit
<1> QED BY <1>5, <1>6, <1>7, <1>8, <1>9, <1>10 DEF PrepInv

(* The preparation goes on, with the jobs it has pending. *)
LEMMA MoveKeeps ==
  ASSUME PoolAssumption, CompressionAssumption, PrepInv, job' = job, jobPrep' = jobPrep,
         prep' \in PrepFields, prep'.id = prep.id, prep'.pending = prep.pending,
         prep.bad => prep'.bad, prep'.pc # "idle", prep.pc # "idle",
         rt' \in [timeout : BOOLEAN, blocked : BOOLEAN, created : Nat, committed : Nat,
                  discarded : Nat, threw : SUBSET Prep, preps : 0..MaxPreps],
         GenerationsAccounted', rt'.timeout = rt.timeout, rt'.threw = rt.threw, rt'.preps = rt.preps,
         BatchFits', ChargesFit',
         ledger' \in [scratch : SUBSET Prep, candidate : SUBSET Prep]
  PROVE  PrepInv'
<1>1. Submitted' = Submitted /\ Outstanding' = Outstanding
  BY DEF Submitted, Outstanding
<1>2. PrepTypeOK'
  BY <1>1 DEF PrepInv, PrepTypeOK, PrepFields
<1>3. Accounts'
  BY DEF Accounts
<1>4. Gathered'
  BY <1>1 DEF PrepInv, Gathered, IsPending
<1>5. NumberedSoFar'
  BY <1>1 DEF PrepInv, NumberedSoFar
<1> QED BY <1>2, <1>3, <1>4, <1>5 DEF PrepInv

-----------------------------------------------------------------------------
(* The reservations, and what becomes of the candidate. *)

LEMMA FailsFits ==
  ASSUME NEW r \in [timeout : BOOLEAN, blocked : BOOLEAN, created : Nat, committed : Nat,
                    discarded : Nat, threw : SUBSET Prep, preps : 0..MaxPreps]
  PROVE  /\ Fails(r) \in [timeout : BOOLEAN, blocked : BOOLEAN, created : Nat, committed : Nat,
                          discarded : Nat, threw : SUBSET Prep, preps : 0..MaxPreps]
         /\ Fails(r).timeout = r.timeout /\ Fails(r).threw = r.threw /\ Fails(r).preps = r.preps
         /\ Fails(r).created = r.created /\ Fails(r).committed = r.committed
         /\ Fails(r).discarded = r.discarded
BY DEF Fails

LEMMA BeginKeeps ==
  ASSUME PoolAssumption, CompressionAssumption, PrepInv, UNCHANGED <<poolVars, jobPrep>>,
         NEW a \in 1..3, Begin(a), prep.pc \in {"idle", "again"}
  PROVE  PrepInv'
<1>1. job' = job /\ jobPrep' = jobPrep /\ Submitted' = Submitted /\ Outstanding' = Outstanding
  BY DEF poolVars, Submitted, Outstanding
<1>2. prep.pending = <<>> /\ ~prep.bad
  BY DEF PrepInv, BatchFits
<1>3. rt.timeout \/ (ledger.scratch = {} /\ ledger.candidate = {})
  BY DEF PrepInv, ChargesFit
<1>4. \A j \in Outstanding : rt.timeout \/ rt.threw # {}
  BY <1>2 DEF PrepInv, Gathered, IsPending
<1> DEFINE id == rt.preps + 1
           p == [Resting EXCEPT !.pc = "submit", !.id = id, !.attempt = a, !.end = BatchEnd(0)]
<1>5. rt.preps \in 0..MaxPreps /\ rt.preps < MaxPreps /\ id \in Prep /\ id \in 0..MaxPreps
      /\ id \in Nat /\ id > rt.preps /\ rt.preps \in Nat
  BY DEF PrepInv, PrepTypeOK, Begin, CompressionAssumption, Prep
<1>6. CASE prep' = p /\ ledger' = [scratch |-> ledger.scratch \union {id},
                                   candidate |-> ledger.candidate \union {id}]
           /\ rt' = [rt EXCEPT !.preps = id]
  <2>1. BatchEnd(0) \in 0..Blocks /\ BatchEnd(0) <= Capacity
    BY BatchEndFits DEF CompressionAssumption, PoolAssumption
  <2>2. /\ p \in PrepFields /\ p.pc = "submit" /\ p.id = id /\ p.next = 0 /\ p.end = BatchEnd(0)
        /\ p.pending = <<>> /\ p.bad = FALSE /\ DOMAIN p.pending = {} /\ Len(p.pending) = 0
    <3> DEFINE e == BatchEnd(0)
    <3>1. p = [Resting EXCEPT !.pc = "submit", !.id = id, !.attempt = a, !.end = e]
          /\ Resting \in PrepFields /\ Resting.next = 0 /\ Resting.pending = <<>> /\ Resting.bad = FALSE
      BY RestingFits DEF Resting
    <3>2. id \in 0..MaxPreps /\ a \in 0..3 /\ 0 \in 0..Blocks /\ e \in 0..Blocks
      BY <1>5, <2>1 DEF CompressionAssumption
    <3> HIDE DEF p, e, id
    <3>3. /\ p \in PrepFields /\ p.pc = "submit" /\ p.id = id /\ p.next = 0 /\ p.end = e
          /\ p.pending = <<>> /\ p.bad = FALSE
      BY <3>1, <3>2 DEF PrepFields
    <3>4. DOMAIN p.pending = {} /\ Len(p.pending) = 0
      BY <3>3
    <3> QED BY <3>3, <3>4 DEF e
  <2> HIDE DEF p
  <2>3. /\ rt' \in [timeout : BOOLEAN, blocked : BOOLEAN, created : Nat, committed : Nat,
                    discarded : Nat, threw : SUBSET Prep, preps : 0..MaxPreps]
        /\ rt'.timeout = rt.timeout /\ rt'.threw = rt.threw /\ rt'.preps = id
        /\ rt'.created = rt.created /\ rt'.committed = rt.committed /\ rt'.discarded = rt.discarded
    BY <1>5, <1>6 DEF PrepInv, Accounts
  <2>4. Accounts'
    BY <1>5, <1>6, <2>2, <2>3 DEF PrepInv, Accounts, GenerationsAccounted
  <2>5. PrepTypeOK'
    BY <1>1, <1>5, <1>6, <2>2, <2>3 DEF PrepInv, PrepTypeOK, PrepFields, PoolAssumption
  <2>6. BatchFits'
    BY <1>6, <2>1, <2>2 DEF BatchFits, PoolAssumption
  <2>7. \A j \in Submitted : jobPrep[j] <= rt.preps /\ jobPrep[j] \in Nat
    <3>1. \A j \in Submitted : jobPrep[j] \in Prep
      BY DEF PrepInv, PrepTypeOK
    <3> QED BY <3>1 DEF PrepInv, NumberedSoFar, Prep
  <2>8. Gathered'
    BY <1>1, <1>4, <1>5, <1>6, <2>2, <2>3, <2>7 DEF Gathered, Outstanding
  <2>9. NumberedSoFar'
    BY <1>1, <1>5, <1>6, <2>2, <2>3, <2>7 DEF NumberedSoFar
  <2>10. ChargesFit'
    BY <1>1, <1>3, <1>6, <2>2, <2>3
    DEF PrepInv, ChargesFit, AbandonedJobsStayCharged, Charged, Submitted
  <2> QED BY <1>6, <2>2, <2>4, <2>5, <2>6, <2>8, <2>9, <2>10 DEF PrepInv
<1>7. CASE prep' = Resting /\ rt' = Fails([rt EXCEPT !.preps = id]) /\ UNCHANGED ledger
  <2>1. /\ rt' \in [timeout : BOOLEAN, blocked : BOOLEAN, created : Nat, committed : Nat,
                    discarded : Nat, threw : SUBSET Prep, preps : 0..MaxPreps]
        /\ rt'.timeout = rt.timeout /\ rt'.threw = rt.threw /\ rt'.preps = id
        /\ rt'.created = rt.created /\ rt'.committed = rt.committed /\ rt'.discarded = rt.discarded
    BY <1>5, <1>7 DEF PrepInv, Accounts, Fails
  <2>2. Accounts'
    BY <1>7, <2>1, RestingFits DEF PrepInv, Accounts, GenerationsAccounted
  <2>3. AbandonedJobsStayCharged'
    BY <1>1, <1>7, <2>1 DEF PrepInv, ChargesFit, AbandonedJobsStayCharged, Charged
  <2> QED BY <1>1, <1>3, <1>4, <1>5, <1>7, <2>1, <2>2, <2>3, RestKeeps
<1> QED BY <1>6, <1>7 DEF Begin

LEMMA ConsiderKeeps ==
  ASSUME PoolAssumption, CompressionAssumption, PrepInv, Consider \/ Reconsider
  PROVE  PrepInv'
<1>1. CASE Consider
  <2>1. prep.pc = "idle" /\ Begin(1) /\ UNCHANGED <<poolVars, jobPrep>>
    BY <1>1, RestingFits DEF Consider
  <2> QED BY <2>1, BeginKeeps
<1>2. CASE Reconsider
  <2>1. prep.pc = "again" /\ prep.attempt \in 0..3 /\ UNCHANGED <<poolVars, jobPrep>>
    BY <1>2 DEF Reconsider, PrepInv, PrepTypeOK
  <2>2. CASE prep.attempt < 3 /\ Begin(prep.attempt + 1)
    <3>1. prep.attempt + 1 \in 1..3
      BY <2>1, <2>2
    <3> QED BY <2>1, <2>2, <3>1, BeginKeeps
  <2>3. CASE prep' = Resting /\ UNCHANGED <<ledger, rt>>
    <3>1. job' = job /\ jobPrep' = jobPrep /\ rt' = rt /\ ledger' = ledger
      BY <2>1, <2>3 DEF poolVars
    <3>2. rt.timeout \/ (ledger.scratch = {} /\ ledger.candidate = {})
      BY <2>1 DEF PrepInv, ChargesFit
    <3>3. \A j \in Outstanding : rt.timeout \/ rt.threw # {}
      BY <2>1 DEF PrepInv, BatchFits, Gathered, IsPending
    <3>4. Accounts'
      BY <2>1, <2>3, <3>1, RestingFits DEF PrepInv, Accounts, GenerationsAccounted
    <3>5. AbandonedJobsStayCharged'
      BY <3>1 DEF PrepInv, ChargesFit, AbandonedJobsStayCharged, Charged, Submitted
    <3>6. rt.preps <= rt'.preps
      BY <3>1 DEF PrepInv, PrepTypeOK
    <3> QED BY <2>3, <3>1, <3>2, <3>3, <3>4, <3>5, <3>6, RestKeeps
  <2> QED BY <1>2, <2>2, <2>3 DEF Reconsider
<1> QED BY <1>1, <1>2

(* An attempt that ends gives back what it charged, or keeps it all.       *)
LEMMA EndKeeps ==
  ASSUME PoolAssumption, CompressionAssumption, PrepInv, Throws \/ PrepareFails \/ Commit
  PROVE  PrepInv'
<1>1. job' = job /\ jobPrep' = jobPrep /\ Submitted' = Submitted /\ Outstanding' = Outstanding
      /\ prep' = Resting /\ prep.pc \in {"submit", "collect", "decide"}
  BY DEF Throws, PrepareFails, Commit, poolVars, Submitted, Outstanding
<1>2. ledger' \in [scratch : SUBSET Prep, candidate : SUBSET Prep]
      /\ ((ledger' = ledger /\ rt.timeout) \/ ledger' = Without(prep.id))
  BY DEF Throws, PrepareFails, Commit, PrepInv, Accounts, Without, ReleaseUnlessTimedOut
<1>3. rt.timeout \/ (ledger'.scratch = {} /\ ledger'.candidate = {})
  BY <1>1, <1>2 DEF PrepInv, ChargesFit, Without
<1>4. prep.id \in 0..MaxPreps /\ (prep.pc = "submit" => prep.id \in Prep)
  BY DEF PrepInv, PrepTypeOK, ChargesFit
<1>5. /\ rt' \in [timeout : BOOLEAN, blocked : BOOLEAN, created : Nat, committed : Nat,
                  discarded : Nat, threw : SUBSET Prep, preps : 0..MaxPreps]
      /\ rt'.timeout = rt.timeout /\ rt'.preps = rt.preps
      /\ IF Throws THEN rt'.threw = rt.threw \union {prep.id} ELSE rt'.threw = rt.threw
      /\ rt'.created = rt'.committed + rt'.discarded
  <2>1. rt \in [timeout : BOOLEAN, blocked : BOOLEAN, created : Nat, committed : Nat,
                  discarded : Nat, threw : SUBSET Prep, preps : 0..MaxPreps]
        /\ rt.created = rt.committed + rt.discarded + (IF prep.pc = "decide" THEN 1 ELSE 0)
    BY DEF PrepInv, Accounts, GenerationsAccounted
  <2>2. CASE Throws
    <3> DEFINE q == [rt EXCEPT !.threw = rt.threw \union {prep.id}]
    <3>1. prep.pc = "submit" /\ prep.id \in Prep /\ rt' = Fails(q)
      BY <1>4, <2>2 DEF Throws
    <3>2. /\ q \in [timeout : BOOLEAN, blocked : BOOLEAN, created : Nat, committed : Nat,
                     discarded : Nat, threw : SUBSET Prep, preps : 0..MaxPreps]
          /\ q.timeout = rt.timeout /\ q.threw = rt.threw \union {prep.id} /\ q.preps = rt.preps
          /\ q.created = rt.created /\ q.committed = rt.committed /\ q.discarded = rt.discarded
      BY <2>1, <3>1
    <3> HIDE DEF q
    <3>3. rt.created = rt.committed + rt.discarded
      BY <2>1, <3>1
    <3> QED BY <2>2, <3>1, <3>2, <3>3, FailsFits
  <2>3. CASE PrepareFails
    <3>1. prep.pc = "collect" /\ rt' = [rt EXCEPT !.blocked = rt.blocked \/ rt.timeout] /\ ~Throws
      BY <2>1, <2>3 DEF PrepareFails, Fails, Throws
    <3> QED BY <2>1, <3>1
  <2>4. CASE Commit
    <3>1. prep.pc = "decide" /\ ~Throws
          /\ (rt' = [rt EXCEPT !.committed = rt.committed + 1]
              \/ rt' = [rt EXCEPT !.discarded = rt.discarded + 1])
      BY <2>4 DEF Commit, Discarded, Throws
    <3> QED BY <2>1, <3>1
  <2> QED BY <2>2, <2>3, <2>4
<1>6. Accounts'
  BY <1>1, <1>2, <1>5, RestingFits DEF Accounts, GenerationsAccounted
<1>7. ~Throws => prep.pending = <<>> /\ (rt.timeout /\ prep.bad => ledger' = ledger)
  BY DEF Throws, PrepareFails, Commit, PrepInv, BatchFits, ReleaseUnlessTimedOut
<1>8. \A j \in Outstanding : rt.timeout \/ rt'.threw # {}
  BY <1>5, <1>7, NoneOwed
<1>9. AbandonedJobsStayCharged'
  <2>1. SUFFICES ASSUME NEW j \in Submitted, jobPrep[j] \notin rt'.threw, job[j].kept
                 PROVE  jobPrep[j] \in ledger'.scratch
    BY <1>1 DEF AbandonedJobsStayCharged, Charged
  <2>2. jobPrep[j] \in ledger.scratch
    BY <1>5, <2>1 DEF PrepInv, ChargesFit, AbandonedJobsStayCharged, Charged
  <2>3. CASE Throws
    BY <1>2, <1>5, <2>1, <2>2, <2>3 DEF Without
  <2>4. CASE ~Throws
    <3>1. ledger' = ledger \/ jobPrep[j] # prep.id
      BY <1>7, <2>1, <2>4, NoneOwed DEF Outstanding
    <3> QED BY <1>2, <2>2, <3>1 DEF Without
  <2> QED BY <2>3, <2>4
<1>10. rt.preps <= rt'.preps
  BY <1>5 DEF PrepInv, PrepTypeOK
<1> QED BY <1>1, <1>3, <1>5, <1>6, <1>8, <1>9, <1>10, RestKeeps

-----------------------------------------------------------------------------
(* prepare_cpu_compression *)

(* A step over the blocks that submits nothing. *)
LEMMA AdvanceKeeps ==
  ASSUME PoolAssumption, CompressionAssumption, PrepInv,
         Repeats \/ SubmitFails \/ EndOfBatch \/ NextBatch
  PROVE  PrepInv'
<1>1. /\ job' = job /\ jobPrep' = jobPrep /\ ledger' = ledger /\ rt' = rt
      /\ Submitted' = Submitted /\ prep \in PrepFields /\ prep.pc \in {"submit", "collect"}
      /\ prep.next \in 0..Blocks /\ prep.end \in 0..Blocks /\ Blocks \in Nat /\ Capacity \in Nat
  BY DEF Repeats, SubmitFails, EndOfBatch, NextBatch, poolVars, Submitted, PrepInv, PrepTypeOK,
         PrepFields, CompressionAssumption, PoolAssumption
<1>2. /\ prep' \in PrepFields /\ prep'.id = prep.id /\ prep'.pending = prep.pending
      /\ prep'.pc \in {"submit", "collect"} /\ (prep.bad => prep'.bad)
      /\ prep'.pc = "submit" => /\ prep'.next <= prep'.end
                                /\ Len(prep'.pending) + prep'.end <= Capacity + prep'.next
  <2>1. CASE Repeats
    <3>1. prep.next + 1 \in 0..Blocks /\ prep' = [prep EXCEPT !.next = prep.next + 1]
          /\ prep.pc = "submit" /\ prep.next < prep.end /\ Len(prep.pending) \in Nat
          /\ Len(prep.pending) + prep.end <= Capacity + prep.next
      BY <1>1, <2>1 DEF Repeats, PrepFields, PrepInv, BatchFits
    <3> DEFINE n == prep.next + 1
    <3>2. n \in 0..Blocks /\ prep' = [prep EXCEPT !.next = n]
      BY <3>1
    <3>3. n <= prep.end /\ Len(prep.pending) + prep.end <= Capacity + n
      BY <1>1, <3>1
    <3> HIDE DEF n
    <3>4. prep' \in PrepFields /\ prep'.id = prep.id /\ prep'.pending = prep.pending
          /\ prep'.pc = "submit" /\ prep'.bad = prep.bad /\ prep'.next = n /\ prep'.end = prep.end
      BY <1>1, <3>1, <3>2 DEF PrepFields
    <3> QED BY <3>3, <3>4
  <2>2. CASE SubmitFails \/ EndOfBatch
    <3>1. prep' = [prep EXCEPT !.pc = "collect", !.bad = TRUE] \/ prep' = [prep EXCEPT !.pc = "collect"]
      BY <2>2 DEF SubmitFails, EndOfBatch
    <3>2. prep' \in PrepFields /\ prep'.id = prep.id /\ prep'.pending = prep.pending
          /\ prep'.pc = "collect" /\ (prep.bad => prep'.bad)
      BY <1>1, <3>1 DEF PrepFields
    <3> QED BY <3>2
  <2>3. CASE NextBatch
    <3> DEFINE e == BatchEnd(prep.next)
    <3>1. prep' = [prep EXCEPT !.pc = "submit", !.end = e] /\ prep.pending = <<>>
      BY <2>3 DEF NextBatch
    <3>2. e \in 0..Blocks /\ prep.next <= e /\ e <= prep.next + Capacity
      BY <1>1, BatchEndFits
    <3> HIDE DEF e
    <3>3. prep' \in PrepFields /\ prep'.id = prep.id /\ prep'.pending = prep.pending
          /\ prep'.pc = "submit" /\ prep'.bad = prep.bad /\ prep'.next = prep.next /\ prep'.end = e
      BY <1>1, <3>1, <3>2 DEF PrepFields
    <3>4. Len(prep'.pending) = 0
      BY <3>1, <3>3
    <3> QED BY <1>1, <3>2, <3>3, <3>4
  <2> QED BY <2>1, <2>2, <2>3
<1>3. BatchFits'
  BY <1>1, <1>2 DEF PrepInv, BatchFits
<1>4. ChargesFit'
  BY <1>1, <1>2 DEF PrepInv, ChargesFit, AbandonedJobsStayCharged, Charged
<1>5. GenerationsAccounted'
  BY <1>1, <1>2 DEF PrepInv, Accounts, GenerationsAccounted
<1> QED BY <1>1, <1>2, <1>3, <1>4, <1>5, MoveKeeps DEF PrepInv, Accounts

LEMMA BuiltKeeps ==
  ASSUME PoolAssumption, CompressionAssumption, PrepInv, Built
  PROVE  PrepInv'
<1>1. /\ job' = job /\ jobPrep' = jobPrep /\ Submitted' = Submitted /\ Outstanding' = Outstanding
      /\ prep \in PrepFields /\ prep.pc = "collect" /\ prep.pending = <<>> /\ ~prep.bad
      /\ prep' = [prep EXCEPT !.pc = "decide"]
      /\ ledger \in [scratch : SUBSET Prep, candidate : SUBSET Prep]
      /\ ledger' = [ledger EXCEPT !.scratch = ledger.scratch \ {prep.id}]
  BY DEF Built, poolVars, Submitted, Outstanding, PrepInv, PrepTypeOK, PrepFields, Accounts
<1>2. /\ prep' \in PrepFields /\ prep'.id = prep.id /\ prep'.pending = prep.pending
      /\ prep'.pc = "decide" /\ prep'.bad = prep.bad
  BY <1>1 DEF PrepFields
<1>3. /\ ledger' \in [scratch : SUBSET Prep, candidate : SUBSET Prep]
      /\ ledger'.scratch = ledger.scratch \ {prep.id} /\ ledger'.candidate = ledger.candidate
  BY <1>1
<1>4. /\ rt' \in [timeout : BOOLEAN, blocked : BOOLEAN, created : Nat, committed : Nat,
                  discarded : Nat, threw : SUBSET Prep, preps : 0..MaxPreps]
      /\ rt'.timeout = rt.timeout /\ rt'.threw = rt.threw /\ rt'.preps = rt.preps
      /\ GenerationsAccounted'
  <2> DEFINE n == rt.created + 1
  <2>1. rt' = [rt EXCEPT !.created = n]
        /\ rt \in [timeout : BOOLEAN, blocked : BOOLEAN, created : Nat, committed : Nat,
                   discarded : Nat, threw : SUBSET Prep, preps : 0..MaxPreps]
    BY DEF Built, PrepInv, Accounts
  <2>2. n \in Nat /\ n = rt.committed + rt.discarded + 1
    BY <1>1, <2>1 DEF PrepInv, Accounts, GenerationsAccounted
  <2> HIDE DEF n
  <2>3. /\ rt' \in [timeout : BOOLEAN, blocked : BOOLEAN, created : Nat, committed : Nat,
                    discarded : Nat, threw : SUBSET Prep, preps : 0..MaxPreps]
        /\ rt'.timeout = rt.timeout /\ rt'.threw = rt.threw /\ rt'.preps = rt.preps
        /\ rt'.created = n /\ rt'.committed = rt.committed /\ rt'.discarded = rt.discarded
    BY <2>1, <2>2
  <2> QED BY <1>2, <2>2, <2>3 DEF GenerationsAccounted
<1>5. BatchFits'
  BY <1>1, <1>2 DEF PrepInv, BatchFits
<1>6. ChargesFit'
  <2>1. AbandonedJobsStayCharged'
    <3>1. SUFFICES ASSUME NEW j \in Submitted, jobPrep[j] \notin rt.threw, job[j].kept
                   PROVE  jobPrep[j] \in ledger.scratch \ {prep.id}
      BY <1>1, <1>3, <1>4 DEF AbandonedJobsStayCharged, Charged
    <3>2. jobPrep[j] \in ledger.scratch
      BY <3>1 DEF PrepInv, ChargesFit, AbandonedJobsStayCharged, Charged
    <3> QED BY <1>1, <3>1, <3>2, NoneOwed DEF Outstanding
  <2> QED BY <1>1, <1>2, <1>3, <1>4, <2>1 DEF PrepInv, ChargesFit
<1> QED BY <1>1, <1>2, <1>3, <1>4, <1>5, <1>6, MoveKeeps

LEMMA RejectKeeps ==
  ASSUME PoolAssumption, CompressionAssumption, PrepInv, Reject
  PROVE  PrepInv'
<1>1. /\ job' = job /\ jobPrep' = jobPrep /\ Submitted' = Submitted /\ Outstanding' = Outstanding
      /\ prep \in PrepFields /\ prep.pc = "decide" /\ prep.pending = <<>> /\ ~prep.bad
      /\ ledger \in [scratch : SUBSET Prep, candidate : SUBSET Prep]
      /\ ledger' = Without(prep.id)
  BY DEF Reject, poolVars, Submitted, Outstanding, PrepInv, PrepTypeOK, PrepFields, Accounts, BatchFits
<1>2. /\ ledger' \in [scratch : SUBSET Prep, candidate : SUBSET Prep]
      /\ ledger'.scratch = ledger.scratch \ {prep.id} /\ ledger'.candidate = ledger.candidate \ {prep.id}
  BY <1>1 DEF Without
<1> DEFINE n == rt.discarded + 1
           q == [rt EXCEPT !.discarded = n]
<1>3. n \in Nat /\ rt.created = rt.committed + n
      /\ rt \in [timeout : BOOLEAN, blocked : BOOLEAN, created : Nat, committed : Nat,
                 discarded : Nat, threw : SUBSET Prep, preps : 0..MaxPreps]
      /\ q = Discarded
  BY <1>1 DEF PrepInv, Accounts, GenerationsAccounted, Discarded
<1> HIDE DEF n
<1>4. /\ q \in [timeout : BOOLEAN, blocked : BOOLEAN, created : Nat, committed : Nat,
                discarded : Nat, threw : SUBSET Prep, preps : 0..MaxPreps]
      /\ q.timeout = rt.timeout /\ q.threw = rt.threw /\ q.preps = rt.preps
      /\ q.created = q.committed + q.discarded
  BY <1>3
<1> HIDE DEF q
<1>5. /\ rt' \in [timeout : BOOLEAN, blocked : BOOLEAN, created : Nat, committed : Nat,
                  discarded : Nat, threw : SUBSET Prep, preps : 0..MaxPreps]
      /\ rt'.timeout = rt.timeout /\ rt'.threw = rt.threw /\ rt'.preps = rt.preps
      /\ rt'.created = rt'.committed + rt'.discarded
  <2>1. rt' = Fails(q) \/ rt' = q
    BY <1>3 DEF Reject
  <2> QED BY <1>4, <2>1, FailsFits
<1>6. rt.timeout \/ (ledger'.scratch = {} /\ ledger'.candidate = {})
  BY <1>1, <1>2 DEF PrepInv, ChargesFit
<1>7. AbandonedJobsStayCharged'
  <2>1. SUFFICES ASSUME NEW j \in Submitted, jobPrep[j] \notin rt.threw, job[j].kept
                 PROVE  jobPrep[j] \in ledger.scratch \ {prep.id}
    BY <1>1, <1>2, <1>5 DEF AbandonedJobsStayCharged, Charged
  <2>2. jobPrep[j] \in ledger.scratch
    BY <2>1 DEF PrepInv, ChargesFit, AbandonedJobsStayCharged, Charged
  <2> QED BY <1>1, <2>1, <2>2, NoneOwed DEF Outstanding
<1>8. CASE prep' = Resting
  <2>1. Accounts'
    BY <1>2, <1>5, <1>8, RestingFits DEF Accounts, GenerationsAccounted
  <2>2. \A j \in Outstanding : rt.timeout \/ rt'.threw # {}
    BY <1>1, <1>5, NoneOwed
  <2>3. rt.preps <= rt'.preps
    BY <1>3, <1>5
  <2> QED BY <1>1, <1>5, <1>6, <1>7, <1>8, <2>1, <2>2, <2>3, RestKeeps
<1>9. CASE prep' = [prep EXCEPT !.pc = "again"]
  <2>1. /\ prep' \in PrepFields /\ prep'.id = prep.id /\ prep'.pending = prep.pending
        /\ prep'.pc = "again" /\ prep'.bad = prep.bad
    BY <1>1, <1>9 DEF PrepFields
  <2>2. GenerationsAccounted' /\ BatchFits' /\ ChargesFit'
    <3>1. GenerationsAccounted'
      BY <1>5, <2>1 DEF GenerationsAccounted
    <3>2. BatchFits'
      BY <1>1, <2>1 DEF BatchFits
    <3>3. ChargesFit'
      BY <1>5, <1>6, <1>7, <2>1 DEF ChargesFit
    <3> QED BY <3>1, <3>2, <3>3
  <2> QED BY <1>1, <1>2, <1>5, <2>1, <2>2, MoveKeeps
<1> QED BY <1>8, <1>9 DEF Reject

LEMMA SubmitBlockKeeps ==
  ASSUME PoolAssumption, CompressionAssumption, PoolInv, PrepInv, SubmitBlock
  PROVE  PrepInv'
<1> DEFINE n == NextJob
           k == prep.next + 1
           ps == Append(prep.pending, n)
<1>1. /\ n \notin Submitted /\ n \in Nat \ {0} /\ Submitted \union {n} = 1..n
  BY NumberNext DEF PoolInv
<1>2. /\ job' = [j \in Submitted \union {n} |->
                   IF j = n THEN [stage |-> "queued", status |-> "none", runs |-> 0, taken |-> 0,
                                  kept |-> TRUE]
                   ELSE job[j]]
      /\ prep' = [prep EXCEPT !.next = k, !.pending = ps]
      /\ jobPrep' = Append(jobPrep, prep.id)
      /\ ledger' = ledger /\ rt' = rt /\ prep.pc = "submit" /\ prep.next < prep.end
  BY DEF SubmitBlock, Accept, PrepInv, PrepTypeOK
<1>3. Submitted' = Submitted \union {n} /\ \A j \in Submitted : job'[j] = job[j]
  BY <1>1, <1>2 DEF Submitted
<1>4. Outstanding' = Outstanding \union {n}
  BY <1>1, <1>2, <1>3 DEF Outstanding
<1>5. /\ prep \in PrepFields /\ prep.pending \in Seq(Submitted) /\ prep.id \in Prep
      /\ prep.next \in 0..Blocks /\ prep.end \in 0..Blocks /\ Blocks \in Nat /\ Capacity \in Nat
      /\ prep.id \in ledger.scratch /\ prep.id <= rt.preps
      /\ Len(prep.pending) \in Nat /\ Len(prep.pending) + prep.end <= Capacity + prep.next
  BY <1>2 DEF PrepInv, PrepTypeOK, PrepFields, ChargesFit, NumberedSoFar, BatchFits,
              CompressionAssumption, PoolAssumption
<1>6. /\ k \in 0..Blocks /\ k <= prep.end
      /\ Len(prep.pending) + 1 + prep.end <= Capacity + k /\ Len(prep.pending) + 1 <= Capacity
  <2>1. ASSUME NEW i \in 0..Blocks, NEW e \in 0..Blocks, i < e, NEW l \in Nat, l + e <= Capacity + i
        PROVE  /\ i + 1 \in 0..Blocks /\ i + 1 <= e
               /\ l + 1 + e <= Capacity + (i + 1) /\ l + 1 <= Capacity
    BY <1>5, <2>1
  <2> QED BY <1>2, <1>5, <2>1
<1>7. /\ jobPrep \in Seq(Prep) /\ DOMAIN jobPrep = Submitted
  BY DEF PrepInv, PrepTypeOK
<1>8. /\ jobPrep' \in Seq(Prep) /\ DOMAIN jobPrep' = Submitted' /\ jobPrep'[n] = prep.id
      /\ \A j \in Submitted : jobPrep'[j] = jobPrep[j]
  <2>1. Len(jobPrep) + 1 = n /\ Len(jobPrep) \in Nat
    <3>1. DOMAIN jobPrep = 1..Len(jobPrep) /\ Len(jobPrep) \in Nat
      BY <1>7
    <3>2. 1..n = (1..Len(jobPrep)) \union {n} /\ n \notin 1..Len(jobPrep)
      BY <1>1, <1>7, <3>1
    <3> DEFINE m == Len(jobPrep)
    <3> HIDE DEF m, n
    <3>3. 1..n = (1..m) \union {n} /\ n \notin 1..m /\ n \in Nat \ {0} /\ m \in Nat
      BY <1>1, <3>1, <3>2 DEF m
    <3>4. n > m
      BY <3>3
    <3>5. m + 1 \in 1..n
      BY <3>3, <3>4
    <3>6. m + 1 \notin 1..m
      BY <3>3
    <3>7. m + 1 = n
      BY <3>3, <3>5, <3>6
    <3> QED BY <3>3, <3>7 DEF m
  <2>2. /\ jobPrep' \in Seq(Prep) /\ Len(jobPrep') = Len(jobPrep) + 1
        /\ jobPrep'[Len(jobPrep) + 1] = prep.id
        /\ \A j \in 1..Len(jobPrep) : jobPrep'[j] = jobPrep[j]
    BY <1>2, <1>5, <1>7, AppendProperties
  <2>3. DOMAIN jobPrep' = 1..n /\ DOMAIN jobPrep = 1..Len(jobPrep)
    BY <1>7, <2>1, <2>2
  <2> QED BY <1>1, <1>3, <1>7, <2>1, <2>2, <2>3
<1>9. /\ ps \in Seq(Submitted') /\ Len(ps) = Len(prep.pending) + 1 /\ ps[Len(ps)] = n
      /\ DOMAIN ps = 1..Len(ps) /\ DOMAIN prep.pending = 1..Len(prep.pending)
      /\ \A i \in DOMAIN prep.pending : ps[i] = prep.pending[i] /\ prep.pending[i] \in Submitted
  <2>1. prep.pending \in Seq(Submitted') /\ n \in Submitted'
    BY <1>3, <1>5
  <2>2. /\ ps \in Seq(Submitted') /\ Len(ps) = Len(prep.pending) + 1 /\ ps[Len(prep.pending) + 1] = n
        /\ \A i \in 1..Len(prep.pending) : ps[i] = prep.pending[i]
    BY <2>1, AppendProperties
  <2> QED BY <1>5, <2>2
<1> HIDE DEF n, k, ps
<1>10. /\ prep' \in [pc : {"idle", "submit", "collect", "decide", "again"}, id : 0..MaxPreps,
               attempt : 0..3, next : 0..Blocks, end : 0..Blocks, pending : Seq(Submitted'),
               bad : BOOLEAN]
       /\ prep'.pc = "submit" /\ prep'.id = prep.id /\ prep'.next = k /\ prep'.end = prep.end
       /\ prep'.pending = ps /\ prep'.bad = prep.bad
  BY <1>2, <1>5, <1>6, <1>9 DEF PrepFields
<1>11. PrepTypeOK'
  BY <1>2, <1>6, <1>8, <1>9, <1>10 DEF PrepInv, PrepTypeOK
<1>12. Accounts'
  BY <1>2, <1>10 DEF PrepInv, Accounts, GenerationsAccounted
<1>13. BatchFits'
  <2>1. \A i \in DOMAIN ps : jobPrep'[ps[i]] = prep.id
    <3> SUFFICES ASSUME NEW i \in DOMAIN ps PROVE jobPrep'[ps[i]] = prep.id
      OBVIOUS
    <3>1. CASE i \in DOMAIN prep.pending
      BY <1>8, <1>9, <3>1 DEF PrepInv, BatchFits
    <3>2. CASE i = Len(ps)
      BY <1>8, <1>9, <3>2
    <3> QED BY <1>5, <1>9, <3>1, <3>2
  <2>2. Len(prep'.pending) + prep'.end <= Capacity + prep'.next /\ prep'.next <= prep'.end
    BY <1>5, <1>6, <1>9, <1>10
  <2> QED BY <1>10, <2>1, <2>2 DEF BatchFits
<1>14. /\ \E i \in DOMAIN ps : ps[i] = n
       /\ \A j : IsPending(j) => \E i \in DOMAIN ps : ps[i] = j
  <2>1. Len(ps) \in DOMAIN ps /\ \A i \in DOMAIN prep.pending : i \in DOMAIN ps
    BY <1>5, <1>9
  <2> QED BY <1>9, <1>10, <2>1 DEF IsPending
<1>15. Gathered'
  <2>1. \A j \in Outstanding : j \in Submitted
    BY DEF Outstanding
  <2>2. \A j : IsPending(j)' <=> \E i \in DOMAIN ps : ps[i] = j
    BY <1>10 DEF IsPending
  <2> SUFFICES ASSUME NEW j \in Outstanding \union {n}
               PROVE  /\ jobPrep'[j] = prep.id => IsPending(j)' \/ (rt.timeout /\ prep.bad)
                      /\ rt.timeout \/ rt.threw # {} \/ IsPending(j)'
    BY <1>2, <1>4, <1>10 DEF Gathered
  <2>3. CASE j = n
    BY <1>14, <2>2, <2>3
  <2>4. CASE j \in Outstanding
    BY <1>8, <1>14, <2>1, <2>2, <2>4 DEF PrepInv, Gathered
  <2> QED BY <2>3, <2>4
<1>16. NumberedSoFar'
  BY <1>2, <1>3, <1>5, <1>8, <1>10 DEF PrepInv, NumberedSoFar
<1>17. ChargesFit'
  <2>1. AbandonedJobsStayCharged'
    BY <1>2, <1>3, <1>5, <1>8 DEF PrepInv, ChargesFit, AbandonedJobsStayCharged, Charged
  <2> QED BY <1>2, <1>10, <2>1 DEF PrepInv, ChargesFit
<1> QED BY <1>10, <1>11, <1>12, <1>13, <1>15, <1>16, <1>17 DEF PrepInv

LEMMA CollectKeeps ==
  ASSUME PoolAssumption, CompressionAssumption, PoolInv, PrepInv, Collect \/ CollectTimesOut
  PROVE  PrepInv'
<1> DEFINE h == Head(prep.pending)
           ps == Tail(prep.pending)
<1>1. /\ prep \in PrepFields /\ prep.pc = "collect" /\ prep.pending # <<>>
      /\ prep.pending \in Seq(Submitted) /\ h \in Submitted
      /\ jobPrep' = jobPrep /\ ledger' = ledger
  <2>1. prep \in PrepFields /\ prep.pending \in Seq(Submitted)
    BY DEF PrepInv, PrepTypeOK, PrepFields
  <2>2. prep.pc = "collect" /\ prep.pending # <<>> /\ jobPrep' = jobPrep /\ ledger' = ledger
    BY DEF Collect, CollectTimesOut
  <2> QED BY <2>1, <2>2, HeadTailProperties
<1>2. Submitted' = Submitted /\ Outstanding' \subseteq Outstanding
      /\ (\A j \in Submitted : job'[j].kept => job[j].kept)
      /\ (Collect => h \notin Outstanding')
  <2>1. CASE Collect
    <3>1. job' = [job EXCEPT ![h].taken = @ + 1, ![h].kept = FALSE]
      BY <2>1 DEF Collect, Deliver
    <3>2. \A j \in Submitted :
            job[j] \in [stage : {"queued", "running", "complete"}, status : Status \union {"none"},
                        runs : Nat, taken : Nat, kept : BOOLEAN]
      BY DEF PoolInv, TypeOK
    <3>3. DOMAIN job' = DOMAIN job /\ job'[h].kept = FALSE
          /\ \A j \in Submitted : j # h => job'[j] = job[j]
      BY <1>1, <3>1, <3>2 DEF Submitted
    <3> QED BY <3>3 DEF Submitted, Outstanding
  <2>2. CASE CollectTimesOut
    <3>1. job' = job /\ ~Collect
      BY <2>2 DEF CollectTimesOut, poolVars, Collect, Deliver
    <3> QED BY <3>1 DEF Submitted, Outstanding
  <2> QED BY <2>1, <2>2
<1>3. /\ ps \in Seq(Submitted) /\ Len(ps) = Len(prep.pending) - 1 /\ DOMAIN ps = 1..Len(ps)
      /\ DOMAIN prep.pending = 1..Len(prep.pending) /\ Len(prep.pending) \in Nat
      /\ h = prep.pending[1] /\ \A i \in 1..Len(ps) : ps[i] = prep.pending[i + 1]
  BY <1>1, HeadTailProperties
<1>4. Len(ps) \in Nat /\ Len(ps) <= Capacity /\ \A i \in DOMAIN ps : i + 1 \in DOMAIN prep.pending
  BY <1>1, <1>3 DEF PrepInv, PrepTypeOK, PoolAssumption
<1>5. PICK b \in BOOLEAN : /\ prep' = [prep EXCEPT !.pending = ps, !.bad = b]
                           /\ prep.bad => b
                           /\ CollectTimesOut => b
  <2>1. CASE Collect
    <3> DEFINE b == prep.bad \/ job[h].status # "success"
    <3>1. prep' = [prep EXCEPT !.pending = ps, !.bad = b] /\ ~CollectTimesOut
      BY <2>1 DEF Collect, LeftAfter, Deliver, CollectTimesOut
    <3> QED BY <3>1
  <2>2. CASE CollectTimesOut
    BY <2>2 DEF CollectTimesOut
  <2> QED BY <2>1, <2>2
<1> HIDE DEF h, ps
<1>6. /\ prep' \in PrepFields /\ prep'.pc = "collect" /\ prep'.id = prep.id
      /\ prep'.pending = ps /\ prep'.bad = b
  BY <1>1, <1>3, <1>5 DEF PrepFields
<1>7. /\ rt' \in [timeout : BOOLEAN, blocked : BOOLEAN, created : Nat, committed : Nat,
                  discarded : Nat, threw : SUBSET Prep, preps : 0..MaxPreps]
      /\ (rt.timeout => rt'.timeout) /\ (CollectTimesOut => rt'.timeout)
      /\ rt'.threw = rt.threw /\ rt'.preps = rt.preps /\ rt'.created = rt.created
      /\ rt'.committed = rt.committed /\ rt'.discarded = rt.discarded
  BY DEF Collect, CollectTimesOut, PrepInv, Accounts
<1>8. PrepTypeOK'
  BY <1>1, <1>2, <1>3, <1>4, <1>6, <1>7 DEF PrepInv, PrepTypeOK, PrepFields
<1>9. Accounts'
  BY <1>1, <1>6, <1>7 DEF PrepInv, Accounts, GenerationsAccounted
<1>10. BatchFits'
  BY <1>1, <1>3, <1>4, <1>6 DEF PrepInv, BatchFits
<1>11. \A j : IsPending(j) => j = h \/ IsPending(j)'
  <2>1. ASSUME NEW i \in DOMAIN prep.pending, i # 1
        PROVE  i - 1 \in DOMAIN ps /\ ps[i - 1] = prep.pending[i]
    <3>1. i \in 1..Len(prep.pending) /\ i - 1 \in 1..Len(ps)
      BY <1>3, <2>1
    <3> QED BY <1>3, <3>1
  <2>2. \A j : IsPending(j)' <=> \E i \in DOMAIN ps : ps[i] = j
    BY <1>6 DEF IsPending
  <2> QED BY <1>3, <2>1, <2>2 DEF IsPending
<1>12. Gathered'
  <2> SUFFICES ASSUME NEW j \in Outstanding'
               PROVE  /\ jobPrep[j] = prep.id => IsPending(j)' \/ (rt'.timeout /\ b)
                      /\ rt'.timeout \/ rt'.threw # {} \/ IsPending(j)'
    BY <1>1, <1>6 DEF Gathered
  <2>1. j \in Outstanding
    BY <1>2
  <2>2. CASE Collect
    BY <1>2, <1>5, <1>7, <1>11, <2>1, <2>2 DEF PrepInv, Gathered
  <2>3. CASE CollectTimesOut
    BY <1>5, <1>7, <2>3
  <2> QED BY <2>2, <2>3
<1>13. NumberedSoFar'
  BY <1>1, <1>2, <1>6, <1>7 DEF PrepInv, NumberedSoFar
<1>14. ChargesFit'
  <2>1. AbandonedJobsStayCharged'
    BY <1>1, <1>2, <1>7 DEF PrepInv, ChargesFit, AbandonedJobsStayCharged, Charged
  <2> QED BY <1>1, <1>6, <1>7, <2>1 DEF PrepInv, ChargesFit
<1> QED BY <1>6, <1>8, <1>9, <1>10, <1>12, <1>13, <1>14 DEF PrepInv

(* The pool's own steps neither add a job nor keep one longer.             *)
LEMMA OutsideKeeps ==
  ASSUME PrepInv, UNCHANGED <<prep, ledger, jobPrep, rt>>, Submitted' = Submitted,
         \A j \in Submitted : job'[j].kept = job[j].kept
  PROVE  PrepInv'
<1>1. Outstanding' = Outstanding
  BY DEF Outstanding
<1>2. PrepTypeOK' /\ Accounts' /\ BatchFits' /\ NumberedSoFar'
  BY DEF PrepInv, PrepTypeOK, Accounts, GenerationsAccounted, BatchFits, NumberedSoFar
<1>3. Gathered'
  BY <1>1 DEF PrepInv, Gathered, IsPending
<1>4. ChargesFit'
  BY DEF PrepInv, ChargesFit, AbandonedJobsStayCharged, Charged
<1> QED BY <1>2, <1>3, <1>4 DEF PrepInv

LEMMA PoolStepAside ==
  ASSUME PoolAssumption, CompressionAssumption, PoolInv, PrepInv, ClosePool \/ PoolStep
  PROVE  PoolInv' /\ PrepInv'
<1>1. UNCHANGED <<prep, ledger, jobPrep, rt>>
  BY DEF ClosePool, PoolStep
<1>2. \A j \in Submitted :
        job[j] \in [stage : {"queued", "running", "complete"}, status : Status \union {"none"},
                    runs : Nat, taken : Nat, kept : BOOLEAN]
  BY DEF PoolInv, TypeOK
<1>3. CASE ClosePool
  <2>1. Runtime \in Client
    <3>1. Client # {}
      BY FS_EmptySet DEF CompressionAssumption
    <3> QED BY <3>1 DEF Runtime
  <2>2. CallClose(Runtime) \/ CloseStops(Runtime) \/ CloseNotifies(Runtime) \/ CloseJoins(Runtime)
    BY <1>3 DEF ClosePool, CloseStep
  <2> HIDE DEF Runtime
  <2>3. PoolInv'
    BY <2>1, <2>2, FlagStep, AwokenStep
  <2>4. job' = job
    BY <2>2 DEF CallClose, CloseStops, CloseNotifies, CloseJoins
  <2> QED BY <1>1, <2>3, <2>4, OutsideKeeps DEF Submitted
<1>4. CASE UndoNotify \/ UndoJoin
  <2>1. job' = job
    BY <1>4 DEF UndoNotify, UndoJoin
  <2>2. PoolInv'
    BY <1>4, FlagStep, AwokenStep
  <2> QED BY <1>1, <2>1, <2>2, OutsideKeeps DEF Submitted
<1>5. ASSUME NEW w \in Worker, Spawn(w) \/ Exit(w) \/ Park(w) \/ Sleep(w) PROVE PoolInv' /\ PrepInv'
  <2>1. job' = job
    BY <1>5 DEF Spawn, Exit, Park, Sleep
  <2>2. PoolInv'
    BY <1>5, LoopStep
  <2> QED BY <1>1, <2>1, <2>2, OutsideKeeps DEF Submitted
<1>6. ASSUME NEW w \in Worker, TakeJob(w) PROVE PoolInv' /\ PrepInv'
  <2>1. job' = [job EXCEPT ![Head(queue)].stage = "running", ![Head(queue)].runs = @ + 1]
    BY <1>6 DEF TakeJob
  <2>2. Submitted' = Submitted /\ \A j \in Submitted : job'[j].kept = job[j].kept
    BY <1>2, <2>1 DEF Submitted
  <2>3. PoolInv'
    BY <1>6, TakeJobStep
  <2> QED BY <1>1, <2>2, <2>3, OutsideKeeps
<1>7. ASSUME NEW w \in Worker, Execute(w) PROVE PoolInv' /\ PrepInv'
  <2>1. PICK s \in Status :
          job' = [job EXCEPT ![worker[w].job].stage = "complete", ![worker[w].job].status = s]
    BY <1>7 DEF Execute
  <2>2. Submitted' = Submitted /\ \A j \in Submitted : job'[j].kept = job[j].kept
    BY <1>2, <2>1 DEF Submitted
  <2>3. PoolInv'
    BY <1>7, ExecuteStep
  <2> QED BY <1>1, <2>2, <2>3, OutsideKeeps
<1> QED BY <1>3, <1>4, <1>5, <1>6, <1>7 DEF PoolStep, ConstructorStep, WorkerStep

LEMMA StillKeeps ==
  ASSUME PoolInv, UNCHANGED poolVars
  PROVE  PoolInv'
<1>1. Aside
  BY DEF Aside, Runs, poolVars
<1> QED BY <1>1, AsideKeeps DEF poolVars, PoolInv, TypeOK, WaitersFit, EndFits,
           NoJobBesideSleepers, Parked, Ready, Submitted

LEMMA InitPrep == PoolAssumption /\ CompressionAssumption /\ Init => PoolInv /\ PrepInv
<1> SUFFICES ASSUME PoolAssumption, CompressionAssumption, Init PROVE PoolInv /\ PrepInv
  OBVIOUS
<1>1. PoolInv /\ Submitted = {} /\ Outstanding = {}
  BY InitPool DEF Init, PoolInit, Submitted, Outstanding
<1>2. /\ prep \in PrepFields /\ prep.pc = "idle" /\ prep.id = 0 /\ prep.pending = <<>>
      /\ prep.bad = FALSE /\ DOMAIN prep.pending = {} /\ Len(prep.pending) = 0
  BY RestingFits DEF Init
<1>3. PrepTypeOK /\ Accounts /\ NumberedSoFar
  BY <1>1, <1>2 DEF Init, PrepTypeOK, PrepFields, Accounts, GenerationsAccounted, NumberedSoFar,
                    CompressionAssumption, PoolAssumption
<1>4. BatchFits /\ Gathered /\ ChargesFit
  BY <1>1, <1>2 DEF Init, BatchFits, Gathered, ChargesFit, AbandonedJobsStayCharged
<1> QED BY <1>1, <1>3, <1>4 DEF PrepInv, Init

LEMMA PrepStepKeeps ==
  PoolAssumption /\ CompressionAssumption /\ PoolInv /\ PrepInv /\ [Next]_vars => PoolInv' /\ PrepInv'
<1> SUFFICES ASSUME PoolAssumption, CompressionAssumption, PoolInv, PrepInv, [Next]_vars
             PROVE  PoolInv' /\ PrepInv'
  OBVIOUS
<1>1. CASE ClosePool \/ PoolStep
  BY <1>1, PoolStepAside
<1>2. CASE SubmitBlock
  <2>1. Accept(NextJob) /\ client' = client
    BY <1>2 DEF SubmitBlock
  <2> QED BY <1>2, <2>1, AcceptStep, SubmitBlockKeeps
<1>3. CASE Collect
  <2> DEFINE j == Head(prep.pending)
  <2>1. Deliver(j, TRUE) /\ client' = client
    BY <1>3 DEF Collect
  <2>2. j \in Submitted
    BY <1>3 DEF Collect, PrepInv, PrepTypeOK
  <2> HIDE DEF j
  <2> QED BY <1>3, <2>1, <2>2, DeliverStep, CollectKeeps
<1>4. CASE CollectTimesOut
  <2>1. UNCHANGED poolVars
    BY <1>4 DEF CollectTimesOut
  <2> QED BY <1>4, <2>1, StillKeeps, CollectKeeps
<1>5. CASE \/ Consider \/ Reconsider \/ Repeats \/ SubmitFails \/ EndOfBatch \/ NextBatch
           \/ Built \/ Reject \/ Throws \/ PrepareFails \/ Commit
  <2>1. UNCHANGED poolVars
    BY <1>5 DEF Consider, Reconsider, Repeats, SubmitFails, EndOfBatch, NextBatch, Built, Reject,
                Throws, PrepareFails, Commit
  <2> QED BY <1>5, <2>1, StillKeeps, ConsiderKeeps, AdvanceKeeps, BuiltKeeps, RejectKeeps, EndKeeps
<1>6. CASE UNCHANGED vars
  <2>1. UNCHANGED poolVars /\ UNCHANGED <<prep, ledger, jobPrep, rt>> /\ job' = job
    BY <1>6 DEF vars, poolVars
  <2>2. PoolInv'
    BY <2>1, StillKeeps
  <2> QED BY <2>1, <2>2, OutsideKeeps DEF Submitted
<1> QED BY <1>1, <1>2, <1>3, <1>4, <1>5, <1>6 DEF Next, PrepareStep

LEMMA PrepInvSafe ==
  PoolAssumption /\ CompressionAssumption /\ PoolInv /\ PrepInv => BatchesSafe
<1> SUFFICES ASSUME PoolAssumption, CompressionAssumption, PoolInv, PrepInv PROVE BatchesSafe
  OBVIOUS
<1>1. PoolLeftEmpty
  <2> SUFFICES ASSUME ~rt.timeout, rt.threw = {}
               PROVE  /\ \A j \in Outstanding : jobPrep[j] = prep.id
                      /\ prep.pc = "submit" /\ prep.next < prep.end => ~Full
    BY DEF PoolLeftEmpty
  <2>1. \A j \in Outstanding : IsPending(j)
    BY DEF PrepInv, Gathered
  <2>2. \A j \in Outstanding : jobPrep[j] = prep.id
    BY <2>1 DEF IsPending, PrepInv, BatchFits
  <2>3. ASSUME prep.pc = "submit", prep.next < prep.end PROVE ~Full
    <3> DEFINE n == Len(prep.pending)
               R == {prep.pending[i] : i \in 1..n}
    <3>1. /\ n \in Nat /\ DOMAIN prep.pending = 1..n /\ prep.pending = [i \in 1..n |-> prep.pending[i]]
          /\ n + prep.end <= Capacity + prep.next
          /\ Capacity \in Nat /\ prep.next \in Nat /\ prep.end \in Nat
      BY <2>3 DEF PrepInv, PrepTypeOK, BatchFits, PoolAssumption, CompressionAssumption
    <3>2. prep.pending \in Surjection(1..n, R)
      BY <3>1 DEF Surjection
    <3>3. IsFiniteSet(1..n) /\ Cardinality(1..n) = n
      BY <3>1, FS_Interval
    <3>4. IsFiniteSet(R) /\ Cardinality(R) <= n
      BY <3>2, <3>3, FS_Surjection
    <3>5. Outstanding \subseteq R
      BY <2>1, <3>1 DEF IsPending
    <3>6. Cardinality(Outstanding) <= Cardinality(R) /\ Cardinality(R) \in Nat
          /\ Cardinality(Outstanding) \in Nat
      BY <3>4, <3>5, FS_Subset, FS_CardinalityType
    <3> QED BY <2>3, <3>1, <3>4, <3>6 DEF Full
  <2> QED BY <2>2, <2>3
<1>2. NothingChargedAtRest
  BY RestingFits DEF NothingChargedAtRest, PrepInv, ChargesFit
<1> QED BY <1>1, <1>2 DEF PrepInv, ChargesFit, Accounts, BatchesSafe

(* Whatever the workers are doing, and whichever block fails, times out or  *)
(* throws (prepare_cpu_compression): while a worker may touch the buffers   *)
(* of a job its preparation's scratch stays charged, unless an exception    *)
(* forgot the job; before the first timeout or exception every batch finds  *)
(* the pool empty and room for all of it, and nothing stays charged between *)
(* preparations; every complete generation is committed or counted as       *)
(* discarded (consider_compression).                                        *)
THEOREM BatchesAreSafe ==
  PoolAssumption /\ CompressionAssumption => (Spec => [](BatchesSafe /\ PoolSafe))
<1> SUFFICES ASSUME PoolAssumption, CompressionAssumption
             PROVE  Spec => [](BatchesSafe /\ PoolSafe)
  OBVIOUS
<1>1. Init => PoolInv /\ PrepInv
  BY InitPrep
<1>2. PoolInv /\ PrepInv /\ [Next]_vars => PoolInv' /\ PrepInv'
  BY PrepStepKeeps
<1>3. PoolInv /\ PrepInv => BatchesSafe /\ PoolSafe
  BY PoolInvSafe, PrepInvSafe
<1> QED BY <1>1, <1>2, <1>3, PTL DEF Spec

=============================================================================
