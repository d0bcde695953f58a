--------------------------- MODULE MemoryWitness ---------------------------
(***************************************************************************)
(* The observer of driver memory calls (memory_witness.cpp).  A thread     *)
(* that makes a call runs the ENTER callback, the driver does the call,    *)
(* the EXIT callback enters it in the ledger and writes its rows.  The     *)
(* census calls api() under its own lock (census.cpp:106-137), so that no  *)
(* two callbacks overlap; resolve(), which a kernel launch calls to name a *)
(* pointer, takes only the observer's lock.                                *)
(*                                                                         *)
(* A callback that throws gives the lock up before failure() counts the    *)
(* error and takes it again: "thrown" and "report" are these two moments.  *)
(* A call is made on objects the driver has; the driver's own state is a   *)
(* second ledger without limits.                                           *)
(***************************************************************************)
EXTENDS MemoryCalls

CONSTANTS Thread,
          MemoryCall,     \* the calls the program may make
          RecordCap, ApiCap,
          MaxRefusals, MaxFaults,     \* bounds: calls the driver refuses, failing writes
          Plenty                      \* a limit that no instance reaches

WitnessAssumption == {RecordCap, ApiCap, MaxRefusals, MaxFaults, Plenty} \subseteq Nat

VARIABLES reg, pending, sequence, lastApi, apiCount, failures, nullFrees,
          errors,         \* 0 or more: the code only asks whether there are any
          closed,
          thread,         \* thread -> where it is, its call, its number and the driver's answer
          drv,            \* the driver's memory
          told,           \* ghost: revision in the last operation row
          finished,       \* finish: "no", "complete" or "thrown"
          refusals, faults

vars == <<reg, pending, sequence, lastApi, apiCount, failures, nullFrees, errors, closed, thread, drv,
          told, finished, refusals, faults>>

Driver == INSTANCE MemoryCalls WITH ObjectCap <- Plenty, AccessCap <- Plenty, ByteCap <- Plenty,
                                    IdCap <- Plenty, SegmentCap <- Plenty

Idle == [pc |-> "idle", call |-> [op |-> "none"], id |-> 0, ok |-> FALSE, then |-> "idle"]

Init == /\ reg = Empty /\ drv = Empty /\ pending = {}
        /\ sequence = 1 /\ lastApi = 0 /\ apiCount = 0 /\ failures = 0 /\ nullFrees = 0
        /\ errors = 0 /\ closed = FALSE /\ told = 0 /\ finished = "no"
        /\ thread = [t \in Thread |-> Idle] /\ refusals = 0 /\ faults = 0

Throws(t, then) == thread' = [thread EXCEPT ![t].pc = "thrown", ![t].then = then]

\* No callback is between its throw and the end of failure().
CensusFree == \A t \in Thread : thread[t].pc \notin {"thrown", "report"}

Sick == closed \/ errors > 0

\* ENTER refuses what it cannot follow: a second call in flight, a call it has
\* no parameters for, a number beyond the cap.
Rejects(c, id) == id > ApiCap \/ pending # {} \/ c.op = "unsupported"

\* The bound on the numbers of calls keeps the instances finite.
Enter(t, c) ==
    LET id == lastApi + 1
        at == [Idle EXCEPT !.call = c, !.id = id]
    IN  /\ thread[t].pc = "idle" /\ CensusFree
        /\ id <= ApiCap + 1
        /\ lastApi' = id
        /\ IF Sick
           THEN /\ errors' = 1
                /\ thread' = [thread EXCEPT ![t] = [at EXCEPT !.pc = "driver"]]
                /\ UNCHANGED pending
           ELSE IF Rejects(c, id)
           THEN /\ thread' = [thread EXCEPT ![t] = [at EXCEPT !.pc = "thrown", !.then = "driver"]]
                /\ UNCHANGED <<errors, pending>>
           ELSE /\ pending' = pending \cup {[id |-> id, thread |-> t, call |-> c]}
                /\ thread' = [thread EXCEPT ![t] = [at EXCEPT !.pc = "driver"]]
                /\ UNCHANGED errors
        /\ UNCHANGED <<reg, sequence, apiCount, failures, nullFrees, closed, drv, told, finished, refusals, faults>>

\* The driver does the call or refuses it.
Native(t) ==
    LET c == thread[t].call
        outcome == Driver!Outcome(drv, c)
    IN  /\ thread[t].pc = "driver"
        /\ \/ /\ outcome.all
              /\ drv' = outcome.reg
              /\ thread' = [thread EXCEPT ![t].pc = "exit", ![t].ok = TRUE]
              /\ UNCHANGED refusals
           \/ /\ refusals < MaxRefusals
              /\ refusals' = refusals + 1
              /\ thread' = [thread EXCEPT ![t].pc = "exit", ![t].ok = FALSE]
              /\ UNCHANGED drv
        /\ UNCHANGED <<reg, pending, sequence, lastApi, apiCount, failures, nullFrees, errors, closed, told,
                       finished, faults>>

\* apply: the rows of an unmap are asked for before the ledger changes.
RoomFor(c) ==
    c.op = "unmap" => \/ Owner(reg, c.a, c.n) = NoOwner
                      \/ Cardinality(OfOwner(reg, c.a, c.n)) + 1 <= RecordCap - sequence

Apply(c, ok) ==
    IF ~ok THEN [reg |-> reg, all |-> TRUE]
    ELSE IF c.op # "flagged" /\ RoomFor(c) THEN Outcome(reg, c)
    ELSE [reg |-> reg, all |-> FALSE]

\* The operation row, then one per retired mapping beyond a single one or per
\* access descriptor.
Rows(c, ok) ==
    IF ~ok THEN 1
    ELSE IF c.op = "access" THEN 1 + Len(c.descriptors)
    ELSE IF c.op = "unmap" /\ Cardinality(Hits(reg, c.a, c.n)) > 1 THEN 1 + Cardinality(Hits(reg, c.a, c.n))
    ELSE 1

Exit(t) ==
    LET c     == thread[t].call
        ok    == thread[t].ok
        mine  == {p \in pending : p.id = thread[t].id /\ p.call = c}
        after == Apply(c, ok)
        rows  == Rows(c, ok)
    IN  /\ thread[t].pc = "exit" /\ CensusFree
        /\ IF Sick
           THEN /\ errors' = 1 /\ thread' = [thread EXCEPT ![t] = Idle]
                /\ UNCHANGED <<reg, pending, sequence, apiCount, failures, nullFrees, told, faults>>
           ELSE IF mine = {}
           THEN /\ Throws(t, "idle")
                /\ UNCHANGED <<reg, pending, sequence, apiCount, failures, nullFrees, errors, told, faults>>
           ELSE /\ pending' = pending \ mine
                /\ UNCHANGED errors
                /\ IF sequence >= RecordCap
                   THEN /\ Throws(t, "idle")
                        /\ UNCHANGED <<reg, sequence, apiCount, failures, nullFrees, told, faults>>
                   ELSE /\ reg' = after.reg
                        /\ failures' = failures + (IF ok THEN 0 ELSE 1)
                        /\ nullFrees' = nullFrees + (IF ok /\ NullFree(c) THEN 1 ELSE 0)
                        /\ IF ~after.all
                           THEN Throws(t, "idle") /\ UNCHANGED <<sequence, apiCount, told, faults>>
                           ELSE \E written \in 0..rows :
                                   /\ sequence + written <= RecordCap
                                   /\ sequence' = sequence + written
                                   /\ apiCount' = apiCount + (IF written > 0 THEN 1 ELSE 0)
                                   /\ told' = IF written > 0 THEN after.reg.revision ELSE told
                                   /\ IF written = rows
                                      THEN thread' = [thread EXCEPT ![t] = Idle] /\ UNCHANGED faults
                                      ELSE /\ Throws(t, "idle")
                                           /\ IF sequence + written = RecordCap
                                              THEN UNCHANGED faults
                                              ELSE faults < MaxFaults /\ faults' = faults + 1
        /\ UNCHANGED <<lastApi, closed, drv, finished, refusals>>

CountError(t) ==
    /\ thread[t].pc = "thrown"
    /\ errors' = 1
    /\ thread' = [thread EXCEPT ![t].pc = "report"]
    /\ UNCHANGED <<reg, pending, sequence, lastApi, apiCount, failures, nullFrees, closed, drv, told, finished,
                   refusals, faults>>

\* The error row, where there is room for it.
Report(t) ==
    /\ thread[t].pc = "report"
    /\ sequence' = IF closed \/ sequence >= RecordCap THEN sequence ELSE sequence + 1
    /\ thread' = [thread EXCEPT ![t] = IF thread[t].then = "idle" THEN Idle
                                       ELSE [thread[t] EXCEPT !.pc = thread[t].then]]
    /\ UNCHANGED <<reg, pending, lastApi, apiCount, failures, nullFrees, errors, closed, drv, told, finished,
                   refusals, faults>>

\* resolve with more rows than an answer may have.
AskTooMuch ==
    /\ ~Sick /\ pending = {}
    /\ \E a \in Address, n \in Size, d \in Device : Valid(a, n) /\ ~Answerable(reg, a, n, d)
    /\ errors' = 1
    /\ UNCHANGED <<reg, pending, sequence, lastApi, apiCount, failures, nullFrees, closed, thread, drv, told,
                   finished, refusals, faults>>

\* finish, after callbacks are quiet: the summary, then the verdict.
Finish ==
    /\ CensusFree /\ finished = "no"
    /\ IF closed \/ sequence >= RecordCap
       THEN finished' = "thrown" /\ UNCHANGED <<sequence, closed>>
       ELSE /\ sequence' = sequence + 1 /\ closed' = TRUE
            /\ finished' = IF errors = 0 /\ pending = {} THEN "complete" ELSE "thrown"
    /\ UNCHANGED <<reg, pending, lastApi, apiCount, failures, nullFrees, errors, thread, drv, told, refusals, faults>>

\* atexit, while the other threads are wherever they are.
Footer ==
    /\ ~closed
    /\ IF sequence >= RecordCap
       THEN errors' = 1 /\ UNCHANGED <<sequence, closed>>
       ELSE sequence' = sequence + 1 /\ closed' = TRUE /\ UNCHANGED errors
    /\ UNCHANGED <<reg, pending, lastApi, apiCount, failures, nullFrees, thread, drv, told, finished, refusals, faults>>

Next == \/ \E t \in Thread, c \in MemoryCall : Enter(t, c)
        \/ \E t \in Thread : Native(t) \/ Exit(t) \/ CountError(t) \/ Report(t)
        \/ AskTooMuch \/ Finish \/ Footer

Spec == Init /\ [][Next]_vars

-----------------------------------------------------------------------------
(***************************************************************************)
(* Properties                                                              *)
(***************************************************************************)
\* Places, numbers and counters stay in range.
WitnessTypeOK ==
    /\ \A t \in Thread : /\ thread[t].pc \in {"idle", "driver", "exit", "thrown", "report"}
                         /\ thread[t].id \in 0..lastApi
    /\ sequence \in 1..RecordCap /\ lastApi \in 0..(ApiCap + 1)
    /\ apiCount + failures + nullFrees <= 2 * lastApi /\ told <= reg.revision
    /\ errors \in {0, 1} /\ closed \in BOOLEAN /\ finished \in {"no", "complete", "thrown"}

\* While the observer thinks itself healthy and no call is open, its ledger is
\* the driver's memory: whatever was refused, cut short or not written has
\* been counted, and nothing a failed call said was believed.
LedgerFollowsDriver == ~Sick /\ pending = {} /\ CensusFree => reg = drv

\* A trace that finish calls complete told every change, up to the last one.
CompleteTellsAll ==
    finished' = "complete" /\ finished = "no" => /\ reg = drv /\ told = drv.revision
                                               /\ apiCount = lastApi

\* An open call belongs to a thread that is in it, and while the observer is
\* healthy it is the only one: EXIT joins what ENTER saw with what is there.
OpenCallIsInFlight ==
    /\ \A p \in pending : ~Sick => /\ thread[p.thread].id = p.id
                                   /\ thread[p.thread].pc \in {"driver", "exit"}
    /\ Cardinality(pending) <= 1
    /\ ~Sick /\ CensusFree => \A t \in Thread : thread[t].pc = "idle" \/ \E p \in pending : p.thread = t
=============================================================================
