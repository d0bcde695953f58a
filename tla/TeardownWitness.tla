--------------------------- MODULE TeardownWitness ---------------------------
(***************************************************************************)
(* The observer of library loads and primary contexts                      *)
(* (teardown_witness.cpp): generations of libraries, references of         *)
(* contexts, and a trace that goes on after the checkpoint at exit.        *)
(*                                                                         *)
(* api() runs under the census's lock, so callbacks do not overlap, but it *)
(* only tries its own lock: while a checkpoint or a snapshot holds it, a   *)
(* callback counts an error and sees nothing.  The driver's side, what is  *)
(* loaded and which context is how often retained, is kept beside it.      *)
(***************************************************************************)
EXTENDS Integers, FiniteSets, FiniteSetsExt, TLC

CONSTANTS Thread, Library, Device,
          NativeContext,  \* addresses of contexts, used again after destruction
          RecordCap, ObjectCap,
          MaxCalls,       \* bound: calls of the program
          MaxMissed,      \* bound: callbacks that find the lock taken
          MaxFaults       \* bound: refused calls and failing writes

TeardownAssumption == {RecordCap, ObjectCap, MaxCalls, MaxMissed, MaxFaults} \subseteq Nat

NoCall == [op |-> "none"]

VARIABLES libraries,      \* native handle -> generation and life, for those seen
          primaries,      \* device -> native context, identity and references
          pending, producer, nextContext,
          sequence,       \* rows, failed ones included
          errors,         \* 0 or more
          checkpointed,
          counts,         \* loads, unloads, retains, releases, live, references, pairs, late
          thread,
          loaded, held, context,     \* the driver: loaded libraries, references, contexts
          incarnation,               \* ghost: how often a device's context was created
          calls, missed, faults

witness == <<libraries, primaries, pending, producer, nextContext, sequence, errors, checkpointed, counts>>
driver == <<loaded, held, context, incarnation>>
vars == <<witness, thread, driver, calls, missed, faults>>

Loads == [op : {"load"}, lib : Library]
Unloads == [op : {"unload"}, lib : Library]
Retains == [op : {"retain"}, dev : Device]
Releases == [op : {"release"}, dev : Device]
Strangers == [op : {"reset", "other"}]
Call == Loads \cup Unloads \cup Retains \cup Releases \cup Strangers

Idle == [pc |-> "idle", call |-> NoCall, id |-> 0, ok |-> FALSE, native |-> 0]

Init == /\ libraries = <<>> /\ primaries = <<>> /\ pending = NoCall /\ producer = NoCall /\ nextContext = 1
        /\ sequence = 1 /\ errors = 0 /\ checkpointed = FALSE
        /\ counts = [loads |-> 0, unloads |-> 0, retains |-> 0, releases |-> 0,
                     live |-> 0, references |-> 0, pairs |-> 0, late |-> 0]
        /\ thread = [t \in Thread |-> Idle]
        /\ loaded = {} /\ held = [d \in Device |-> 0] /\ incarnation = [d \in Device |-> 0]
        /\ context \in {f \in [Device -> NativeContext] : \A d, e \in Device : d # e => f[d] # f[e]}
        /\ calls = 0 /\ missed = 0 /\ faults = 0

(***************************************************************************)
(* What api() refuses before it looks at the call.                         *)
(***************************************************************************)
\* A reset has no rule, and after the checkpoint only the tail has.
Unknown(c) == c.op = "reset" \/ (checkpointed /\ c.op \notin {"unload", "release"})

Ignored(c) == ~Unknown(c) /\ c.op = "other"

OtherProducer(t) == producer # NoCall /\ producer # t

Refused(t, c) == Unknown(c) \/ (~Ignored(c) /\ OtherProducer(t))

Entry(t) == [op |-> "pending", call |-> thread[t].call, id |-> thread[t].id, thread |-> t]

\* error_record: a row, which takes its number even when it is not written.
Fails == errors' = 1 /\ sequence' = IF sequence < RecordCap THEN sequence + 1 ELSE sequence

SeesNothing == UNCHANGED <<libraries, primaries, pending, nextContext, checkpointed, counts>>

\* The lock is taken.
Misses == /\ missed < MaxMissed /\ missed' = missed + 1
          /\ errors' = 1
          /\ SeesNothing /\ UNCHANGED <<producer, sequence>>

(***************************************************************************)
(* ENTER                                                                   *)
(***************************************************************************)
Enter(t, c) ==
    LET at == [Idle EXCEPT !.pc = "driver", !.call = c, !.id = calls + 1]
    IN  /\ thread[t].pc = "idle" /\ calls < MaxCalls
        /\ calls' = calls + 1
        /\ thread' = [thread EXCEPT ![t] = at]
        /\ UNCHANGED <<driver, faults>>
        /\ \/ Misses
           \/ /\ UNCHANGED missed
              /\ IF Refused(t, c) THEN Fails /\ SeesNothing /\ UNCHANGED producer
                 ELSE IF Ignored(c) THEN SeesNothing /\ UNCHANGED <<producer, sequence, errors>>
                 ELSE IF pending # NoCall THEN Fails /\ SeesNothing /\ producer' = t
                 ELSE /\ pending' = [op |-> "pending", call |-> c, id |-> calls + 1, thread |-> t]
                      /\ producer' = t
                      /\ UNCHANGED <<libraries, primaries, nextContext, sequence, errors, checkpointed, counts>>

(***************************************************************************)
(* The driver.  A context that nobody holds is destroyed; the next one may *)
(* lie anywhere, at the old address too.                                   *)
(***************************************************************************)
DriverLoads(c) == /\ c.op = "load" /\ c.lib \notin loaded
                  /\ loaded' = loaded \cup {c.lib}
                  /\ UNCHANGED <<held, context, incarnation>>

DriverUnloads(c) == /\ c.op = "unload" /\ c.lib \in loaded
                    /\ loaded' = loaded \ {c.lib}
                    /\ UNCHANGED <<held, context, incarnation>>

DriverRetains(c) ==
    /\ c.op = "retain"
    /\ held' = [held EXCEPT ![c.dev] = @ + 1]
    /\ IF held[c.dev] = 0
       THEN /\ incarnation' = [incarnation EXCEPT ![c.dev] = @ + 1]
            /\ \E n \in NativeContext : /\ \A d \in Device \ {c.dev} : held[d] > 0 => context[d] # n
                                        /\ context' = [context EXCEPT ![c.dev] = n]
       ELSE UNCHANGED <<context, incarnation>>
    /\ UNCHANGED loaded

DriverReleases(c) == /\ c.op = "release" /\ held[c.dev] > 0
                     /\ held' = [held EXCEPT ![c.dev] = @ - 1]
                     /\ UNCHANGED <<loaded, context, incarnation>>

Stranger(c) == c.op \in {"reset", "other"} /\ UNCHANGED driver

Native(t) ==
    LET c == thread[t].call
    IN  /\ thread[t].pc = "driver"
        /\ \/ /\ DriverLoads(c) \/ DriverUnloads(c) \/ DriverRetains(c) \/ DriverReleases(c) \/ Stranger(c)
              /\ thread' = [thread EXCEPT ![t].pc = "exit", ![t].ok = TRUE,
                                          ![t].native = IF c.op = "retain" THEN context'[c.dev] ELSE 0]
              /\ UNCHANGED faults
           \/ /\ faults < MaxFaults /\ faults' = faults + 1
              /\ thread' = [thread EXCEPT ![t].pc = "exit"]
              /\ UNCHANGED driver
        /\ UNCHANGED <<witness, calls, missed>>

(***************************************************************************)
(* EXIT and complete: an operator for what makes it throw before it        *)
(* changes anything, one for what it changes.                              *)
(***************************************************************************)
Seen(c) == c.lib \in DOMAIN libraries

Held(c) == c.dev \in DOMAIN primaries /\ primaries[c.dev].references > 0

CanLoad(c) == /\ IF Seen(c) THEN ~libraries[c.lib].live ELSE Cardinality(DOMAIN libraries) < ObjectCap
              /\ Seen(c) => libraries[c.lib].generation < ObjectCap

\* A context whose references were once given back cannot be told from its
\* successor, and two devices cannot share one.
CanRetain(c, native) ==
    IF c.dev \in DOMAIN primaries THEN Held(c) /\ primaries[c.dev].native = native
    ELSE \A d \in DOMAIN primaries : primaries[d].native # native

CanComplete(c, native) ==
    \/ c.op = "load" /\ CanLoad(c)
    \/ c.op = "unload" /\ Seen(c) /\ libraries[c.lib].live
    \/ c.op = "retain" /\ CanRetain(c, native)
    \/ c.op = "release" /\ Held(c)

NextGeneration(c) == IF Seen(c) THEN libraries[c.lib].generation + 1 ELSE 1

Counted(c) == LET field == [load |-> "loads", unload |-> "unloads", retain |-> "retains", release |-> "releases"]
              IN  [counts EXCEPT ![field[c.op]] = @ + 1,
                                 !.live = @ + (IF c.op = "load" THEN 1 ELSE IF c.op = "unload" THEN -1 ELSE 0),
                                 !.references = @ + (IF c.op = "retain" THEN 1
                                                     ELSE IF c.op = "release" THEN -1 ELSE 0)]

Changes(c, native) ==
    /\ libraries' = IF c.op = "load"
                    THEN (c.lib :> [generation |-> NextGeneration(c), live |-> TRUE]) @@ libraries
                    ELSE IF c.op = "unload" THEN [libraries EXCEPT ![c.lib].live = FALSE]
                    ELSE libraries
    /\ IF c.op = "retain" /\ c.dev \notin DOMAIN primaries
       THEN /\ primaries' = (c.dev :> [native |-> native, id |-> nextContext, references |-> 1]) @@ primaries
            /\ nextContext' = nextContext + 1
       ELSE /\ primaries' = IF c.op = "retain" THEN [primaries EXCEPT ![c.dev].references = @ + 1]
                            ELSE IF c.op = "release" THEN [primaries EXCEPT ![c.dev].references = @ - 1]
                            ELSE primaries
            /\ UNCHANGED nextContext

Matched(t) == pending = Entry(t) /\ thread[t].ok /\ CanComplete(thread[t].call, thread[t].native)

\* The call's row, then the pair is counted and the entry goes.
RowWritten(c) ==
    /\ sequence < RecordCap /\ sequence' = sequence + 1
    /\ counts' = [Counted(c) EXCEPT !.pairs = @ + 1, !.late = @ + (IF checkpointed THEN 1 ELSE 0)]
    /\ pending' = NoCall
    /\ UNCHANGED <<errors, faults>>

\* The row fails, mostly with its number taken: the change stays, and so does
\* the open entry; the row of the error takes the next number.
RowLost(c) ==
    /\ IF sequence < RecordCap THEN faults < MaxFaults /\ faults' = faults + 1 ELSE UNCHANGED faults
    /\ errors' = 1 /\ \E taken \in 1..2 : sequence' = Min({sequence + taken, RecordCap})
    /\ counts' = Counted(c)
    /\ UNCHANGED pending

Exit(t) ==
    LET c == thread[t].call
    IN  /\ thread[t].pc = "exit"
        /\ thread' = [thread EXCEPT ![t] = Idle]
        /\ UNCHANGED <<driver, calls>>
        /\ \/ Misses /\ UNCHANGED faults
           \/ /\ UNCHANGED <<missed, checkpointed>>
              /\ producer' = IF Refused(t, c) \/ Ignored(c) THEN producer ELSE t
              /\ IF ~Refused(t, c) /\ Ignored(c)
                 THEN SeesNothing /\ UNCHANGED <<sequence, errors, faults>>
                 ELSE IF Refused(t, c) \/ ~Matched(t)
                 THEN Fails /\ SeesNothing /\ UNCHANGED faults
                 ELSE Changes(c, thread[t].native) /\ (RowWritten(c) \/ RowLost(c))

\* The checkpoint at exit; it finds the lock taken or says what is open.
Checkpoint ==
    /\ ~checkpointed
    /\ checkpointed' = TRUE
    /\ sequence' = IF sequence < RecordCap THEN sequence + 1 ELSE sequence
    /\ \/ /\ errors' = IF pending # NoCall \/ sequence = RecordCap THEN 1 ELSE errors
          /\ UNCHANGED faults
       \/ /\ faults < MaxFaults /\ faults' = faults + 1
          /\ errors' = 1
    /\ UNCHANGED <<libraries, primaries, pending, producer, nextContext, counts, thread, driver, calls, missed>>

CheckpointMisses ==
    /\ ~checkpointed
    /\ Misses
    /\ UNCHANGED <<thread, driver, calls, faults>>

Next == \/ \E t \in Thread, c \in Call : Enter(t, c)
        \/ \E t \in Thread : Native(t) \/ Exit(t)
        \/ Checkpoint \/ CheckpointMisses

Spec == Init /\ [][Next]_vars

-----------------------------------------------------------------------------
(***************************************************************************)
(* Properties                                                              *)
(***************************************************************************)
\* Numbers stay in range, and the counters are never below zero.
TeardownTypeOK ==
    /\ DOMAIN libraries \subseteq Library /\ DOMAIN primaries \subseteq Device
    /\ \A k \in DOMAIN counts : counts[k] \in 0..MaxCalls
    /\ sequence \in 1..RecordCap /\ errors \in {0, 1} /\ checkpointed \in BOOLEAN
    /\ nextContext \in 1..(Cardinality(Device) + 1)

LiveLibraries == {k \in DOMAIN libraries : libraries[k].live}
References(d) == IF d \in DOMAIN primaries THEN primaries[d].references ELSE 0

\* The balances that the snapshot reports are those of the tables, also after
\* errors: an observer that failed still reports true balances of what it saw.
BalancesHold ==
    /\ counts.live = Cardinality(LiveLibraries) /\ counts.live = counts.loads - counts.unloads
    /\ counts.references = MapThenSumSet(References, Device)
    /\ counts.references = counts.retains - counts.releases

Healthy == errors = 0

\* A healthy snapshot without an open call is the driver's state: no call got
\* past the observer, not for a taken lock, a second thread or a lost row.
HealthyIsComplete ==
    Healthy /\ pending = NoCall =>
        /\ LiveLibraries = loaded /\ \A d \in Device : References(d) = held[d]
        /\ counts.pairs = counts.loads + counts.unloads + counts.retains + counts.releases

\* An identity that the trace gives a context names one creation of it, as
\* long as the observer is healthy: none that came back under an old name.
ContextNamesOneCreation ==
    Healthy /\ pending = NoCall =>
        \A d \in DOMAIN primaries : incarnation[d] = 1 /\ (held[d] > 0 => primaries[d].native = context[d])

\* A library that is loaded again gets a generation it never had.
GenerationsGrow ==
    \A k \in DOMAIN libraries :
       ~libraries[k].live /\ libraries'[k].live => libraries'[k].generation > libraries[k].generation
=============================================================================
