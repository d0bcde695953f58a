--------------------------- MODULE SessionPromise ---------------------------
(***************************************************************************)
(* What a session promises: operations are served one at a time in the     *)
(* order in which they were accepted, a closing session accepts none, and  *)
(* closing comes after all of them.                                        *)
(***************************************************************************)
EXTENDS Sequences

CONSTANTS Op, NoOp

VARIABLES
  pending,  (* Accepted and not yet looked at.  *)
  serving,  (* The one the worker has.          *)
  done,
  state     (* open, closing or closed.         *)

pvars == <<pending, serving, done, state>>

Known == done \union {serving} \union {pending[i] : i \in DOMAIN pending}

Init == pending = << >> /\ serving = NoOp /\ done = {} /\ state = "open"

Accept(o) ==
  /\ state = "open" /\ o \notin Known
  /\ pending' = Append(pending, o)
  /\ UNCHANGED <<serving, done, state>>

Serve ==
  /\ serving = NoOp /\ pending # << >>
  /\ serving' = Head(pending) /\ pending' = Tail(pending)
  /\ UNCHANGED <<done, state>>

(* It ran, or it was cancelled or late. *)
Retire ==
  /\ serving # NoOp
  /\ done' = done \union {serving} /\ serving' = NoOp
  /\ UNCHANGED <<pending, state>>

AskToClose ==
  /\ state = "open" /\ state' = "closing"
  /\ UNCHANGED <<pending, serving, done>>

Close ==
  /\ state = "closing" /\ pending = << >> /\ serving = NoOp
  /\ state' = "closed"
  /\ UNCHANGED <<pending, serving, done>>

Next == (\E o \in Op : Accept(o)) \/ Serve \/ Retire \/ AskToClose \/ Close

(* A step of the promise, or one that it does not see. *)
Step == Next \/ UNCHANGED pvars

Spec == Init /\ [][Next]_pvars
=============================================================================
