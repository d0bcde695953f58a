--------------------------- MODULE NvcompPipeline ---------------------------
(***************************************************************************)
(* The nvCOMP codec pipeline (src/residency/nvcomp_pipeline.cpp): slots    *)
(* that each own a stream, an event and buffers, and tickets for the       *)
(* operations that run in them.                                            *)
(*                                                                         *)
(* One thread calls the pipeline; the device runs beside it. A call is one *)
(* step, close() a step for each slot it drains. A stream holds what was   *)
(* submitted and has not completed, in order: "work" (copies, kernels,     *)
(* codec) and the slot's "event". Contents are left out: an operation is   *)
(* found good or bad when it is checked.                                   *)
(***************************************************************************)
EXTENDS Naturals, Sequences, FiniteSets, FiniteSetsExt

CONSTANTS
  SlotCount,       (* slot_count                                             *)
  MaxGeneration,   (* The largest slot generation (UINT64_MAX).              *)
  MaxOperation,    (* The largest operation identifier (UINT64_MAX).         *)
  NoTicket

ASSUME PipelineAssumption ==
  /\ SlotCount \in Nat \ {0} /\ MaxGeneration \in Nat \ {0} /\ MaxOperation \in Nat \ {0}

Slot == 0..(SlotCount - 1)
Kind == {"decode", "encode"}
Resource == {"stream", "memory"}
Ticket == [op : 1..MaxOperation, generation : 1..MaxGeneration, slot : Slot, kind : Kind]

VARIABLES
  slots,    (* slots_: the operation of each slot, and what the slot owns.   *)
  pipe,     (* setup_, closed_, cleanup_pending_, quarantined_, the module,
               next_slot_, next_operation_id_, slots_exhausted_; whether
               close() is under way.                                         *)
  stream,   (* What the device has still to do for each slot.                *)
  events,   (* events_recorded - events_retired                              *)
  issued,   (* Tickets the caller was given.                                 *)
  open,     (* Tickets whose operation the caller still waits for.           *)
  dirty     (* Encodes whose candidate was verified, until the caller says
               that the host has it.                                         *)

pipelineVars == <<slots, pipe, stream, events, issued, open, dirty>>

Phase == {"idle", "decode_event", "encode_codec_event", "encode_transfer_event", "encode_ready"}
EventPhase == {"decode_event", "encode_codec_event", "encode_transfer_event"}

Empty == [active |-> FALSE, generation |-> 0, phase |-> "idle", ticket |-> NoTicket,
          delivered |-> FALSE, owns |-> {}, accounted |-> FALSE]

PipelineInit ==
  /\ slots = [s \in Slot |-> Empty]
  /\ pipe = [setup |-> FALSE, closed |-> FALSE, cleanup |-> FALSE, quarantined |-> FALSE,
             module |-> FALSE, next |-> 0, operation |-> 1, exhausted |-> FALSE,
             closing |-> FALSE]
  /\ stream = [s \in Slot |-> <<>>]
  /\ events = 0 /\ issued = {} /\ open = {} /\ dirty = {}

Operational == pipe.setup /\ ~pipe.closed /\ ~pipe.quarantined
Calling == ~pipe.closing
Active == {s \in Slot : slots[s].active}
Done(s) == \A i \in DOMAIN stream[s] : stream[s][i] # "event"

-----------------------------------------------------------------------------
(* Cleaning up. A resource that cannot be released is kept for a retry.     *)

AllReleased(kept) == \A s \in Slot : kept[s] = {}

Cleanup ==
  \E kept \in [Slot -> SUBSET Resource], module \in BOOLEAN :
    /\ \A s \in Slot : kept[s] \subseteq slots[s].owns
    /\ module => pipe.module
    /\ slots' = [s \in Slot |->
         IF kept[s] = {} THEN [slots[s] EXCEPT !.owns = {}, !.accounted = FALSE]
         ELSE [slots[s] EXCEPT !.owns = kept[s]]]
    /\ LET clean == AllReleased(kept) /\ ~module IN
         pipe' = [pipe EXCEPT !.module = module, !.cleanup = ~clean, !.setup = FALSE,
                              !.closing = FALSE, !.closed = clean]

(* setup(): the slots are created in order, then the verification module.   *)
SetupCompletes ==
  /\ Calling /\ ~pipe.setup /\ ~pipe.closed /\ ~pipe.cleanup
  /\ slots' = [s \in Slot |-> [Empty EXCEPT !.owns = Resource, !.accounted = TRUE]]
  /\ pipe' = [pipe EXCEPT !.setup = TRUE, !.module = TRUE]
  /\ UNCHANGED <<stream, events, issued, open, dirty>>

(* What the slots own when setup fails: those before `last` everything, it  *)
(* what had been created, and those after it nothing.                       *)
SetupFails ==
  /\ Calling /\ ~pipe.setup /\ ~pipe.closed /\ ~pipe.cleanup
  /\ \E last \in Slot, part \in {{}, {"stream"}, Resource}, kept \in [Slot -> SUBSET Resource] :
       LET made(s) == IF s < last THEN Resource ELSE IF s = last THEN part ELSE {} IN
       /\ \A s \in Slot : kept[s] \subseteq made(s)
       /\ slots' = [s \in Slot |-> [Empty EXCEPT !.owns = kept[s],
                                                 !.accounted = kept[s] # {} /\ made(s) = Resource]]
       /\ \E module \in BOOLEAN :
            /\ module => \A s \in Slot : made(s) = Resource
            /\ pipe' = [pipe EXCEPT !.module = module, !.cleanup = module \/ ~AllReleased(kept)]
  /\ UNCHANGED <<stream, events, issued, open, dirty>>

-----------------------------------------------------------------------------
(* Slots and tickets. *)

TicketSlot(t) == {s \in Slot : s = t.slot /\ slots[s].active /\ slots[s].ticket = t}

(* The order in which acquire_slot looks at the slots. *)
Nth(offset) == (pipe.next + offset) % SlotCount
Usable(s) == ~slots[s].active /\ slots[s].generation < MaxGeneration
Offsets == {o \in Slot : Usable(Nth(o))}

NextOperation(operation) == IF operation = MaxOperation THEN 0 ELSE operation + 1

ExhaustedAfter(seen) == \A o \in seen : ~slots[Nth(o)].active

Fresh(slot, ticket) ==
  [slot EXCEPT !.active = TRUE, !.generation = ticket.generation, !.ticket = ticket,
               !.phase = "idle"]

(* reset_operation *)
Reset(slot) ==
  [slot EXCEPT !.active = FALSE, !.phase = "idle", !.ticket = NoTicket, !.delivered = FALSE]

Quarantine(p) == [p EXCEPT !.quarantined = TRUE]

FirstPhase(kind) == IF kind = "decode" THEN "decode_event" ELSE "encode_codec_event"

RecoverAtOnce(s) == stream'[s] \in {<<>>, <<"work">>}  \* mutant
Synchronized(s) == stream'[s] = <<>>

(* decode() and encode() once they have a slot.                             *)
NothingSubmitted(s, t) ==
  /\ slots' = [slots EXCEPT ![s] = Reset(Fresh(@, t))]
  /\ UNCHANGED <<stream, events, open, issued>>

(* A copy or the codec launch failed after something had been submitted:    *)
(* the slot is given back once its stream is known to be idle.              *)
PartlySubmitted(s, t) ==
  /\ stream' \in [Slot -> {<<>>, <<"work">>}] /\ Synchronized(s)
  /\ \A r \in Slot \ {s} : stream'[r] = stream[r]
  /\ slots' = [slots EXCEPT ![s] = Reset(Fresh(@, t))]
  /\ UNCHANGED <<events, open, issued>>

FullySubmitted(s, t) ==
  /\ stream' = [stream EXCEPT ![s] = @ \o <<"work", "event">>]
  /\ slots' = [slots EXCEPT ![s] = [Fresh(@, t) EXCEPT !.phase = FirstPhase(t.kind)]]
  /\ events' = events + 1
  /\ issued' = issued \union {t} /\ open' = open \union {t}

SubmissionUnknown(s, t) ==
  /\ stream' = [stream EXCEPT ![s] = Append(@, "work")]
  /\ slots' = [slots EXCEPT ![s] = [Fresh(@, t) EXCEPT !.phase = FirstPhase(t.kind)]]
  /\ UNCHANGED <<events, open, issued>>

Submit(kind) ==
  /\ Calling /\ Operational /\ UNCHANGED dirty
  /\ LET seen == IF Offsets = {} THEN Slot ELSE 0..(Min(Offsets) - 1) IN
     IF Offsets = {} \/ pipe.operation = 0
     THEN /\ pipe' = [pipe EXCEPT !.exhausted = ExhaustedAfter(seen)]
          /\ UNCHANGED <<slots, stream, events, issued, open>>
     ELSE LET s == Nth(Min(Offsets))
              t == [op |-> pipe.operation, generation |-> slots[s].generation + 1, slot |-> s,
                    kind |-> kind]
              p == [pipe EXCEPT !.operation = NextOperation(@),
                                !.next = (s + 1) % SlotCount, !.exhausted = FALSE]
          IN \/ NothingSubmitted(s, t) /\ pipe' = p
             \/ PartlySubmitted(s, t) /\ pipe' = p
             \/ FullySubmitted(s, t) /\ pipe' = p
             \/ SubmissionUnknown(s, t) /\ pipe' = Quarantine(p)

Decode == Submit("decode")
Encode == Submit("encode")

-----------------------------------------------------------------------------
(* The operation of slot s is finished. *)
Leaves(s) == slots' = [slots EXCEPT ![s] = Reset(@)]

(* The caller who asked about t no longer waits once it was told the end.   *)
Told(s, t) == open' = IF slots'[s].active THEN open ELSE open \ {t}

EventRetired == events' = events - 1

(* finish_decode *)
FinishDecode(s) ==
  /\ slots[s].phase = "decode_event"
  /\ Leaves(s) /\ EventRetired
  /\ UNCHANGED <<pipe, stream, dirty>>

(* begin_encode_transfer: a bad codec status, no memory, or a copy that     *)
(* fails and leaves a synchronized stream end the operation.                *)
EncodeRejected(s) ==
  /\ slots[s].phase = "encode_codec_event"
  /\ Leaves(s) /\ EventRetired
  /\ UNCHANGED <<pipe, stream, dirty>>

TransferPhase == "encode_transfer_event"

BeginTransfer(s) ==
  /\ slots[s].phase = "encode_codec_event"
  /\ slots' = [slots EXCEPT ![s].phase = TransferPhase]
  /\ stream' = [stream EXCEPT ![s] = @ \o <<"work", "event">>]
  /\ UNCHANGED <<pipe, events, dirty>>      \* one retired, one recorded

TransferUnknown(s) ==
  /\ slots[s].phase = "encode_codec_event"
  /\ \E phase \in {"encode_codec_event", "encode_transfer_event"} :
       slots' = [slots EXCEPT ![s].phase = phase]
  /\ stream' = [stream EXCEPT ![s] = Append(@, "work")]
  /\ pipe' = Quarantine(pipe) /\ EventRetired
  /\ UNCHANGED dirty

(* finish_encode_transfer *)
TransferRejected(s) ==
  /\ slots[s].phase = "encode_transfer_event"
  /\ Leaves(s) /\ EventRetired
  /\ UNCHANGED <<pipe, stream, dirty>>

Deliver(slot) == [slot EXCEPT !.phase = "encode_ready", !.delivered = TRUE]

TransferVerified(s, candidate) ==
  /\ slots[s].phase = "encode_transfer_event"
  /\ slots' = [slots EXCEPT ![s] = IF candidate THEN Deliver(@)
                                   ELSE [@ EXCEPT !.phase = "encode_ready"]]
  /\ dirty' = dirty \union {slots[s].ticket} /\ EventRetired
  /\ UNCHANGED <<pipe, stream>>

Redeliver(s, candidate) ==
  /\ slots[s].phase = "encode_ready" /\ candidate /\ ~slots[s].delivered
  /\ slots' = [slots EXCEPT ![s] = Deliver(@)]
  /\ UNCHANGED <<pipe, stream, events, dirty>>

(* The event query, or a wait beyond its deadline, says that the state of   *)
(* the operation cannot be known.                                           *)
Unknown(s) ==
  /\ slots[s].phase \in EventPhase
  /\ pipe' = Quarantine(pipe)
  /\ UNCHANGED <<slots, stream, events, dirty>>

EventDone(s) == Done(s)

(* poll() of the operation in slot s, where something happens.              *)
PollSlot(s, candidate) ==
  \/ Redeliver(s, candidate)
  \/ Unknown(s)
  \/ /\ slots[s].phase \in EventPhase /\ EventDone(s)
     /\ \/ FinishDecode(s) \/ EncodeRejected(s) \/ BeginTransfer(s) \/ TransferUnknown(s)
        \/ TransferRejected(s) \/ TransferVerified(s, candidate)

(* poll() and wait() with any ticket that was ever issued. *)
Poll ==
  /\ Calling /\ Operational
  /\ \E t \in issued, candidate \in BOOLEAN :
     \E s \in TicketSlot(t) : PollSlot(s, candidate) /\ Told(s, t)
  /\ UNCHANGED issued

Ackable(s) == slots[s].phase = "encode_ready" /\ slots[s].delivered

(* acknowledge_host_commit(): the caller has made the content of the dirty  *)
(* generation authoritative in the host, from this candidate or raw.        *)
Acknowledge ==
  /\ Calling /\ Operational
  /\ \E t \in issued : \E s \in TicketSlot(t) :
       /\ t.kind = "encode" /\ Ackable(s)
       /\ Leaves(s) /\ Told(s, t) /\ dirty' = dirty \ {t}
  /\ UNCHANGED <<pipe, stream, events, issued>>

QuarantineUncommitted ==
  /\ Calling /\ ~pipe.quarantined
  /\ \E t \in issued : \E s \in TicketSlot(t) :
       /\ t.kind = "encode" /\ slots[s].phase = "encode_ready"
       /\ pipe' = Quarantine(pipe)
  /\ UNCHANGED <<slots, stream, events, issued, open, dirty>>

-----------------------------------------------------------------------------
(* close(), also the destructor. *)
CloseBegins ==
  /\ Calling /\ ~pipe.closed
  /\ pipe' = IF pipe.quarantined THEN [pipe EXCEPT !.closed = TRUE, !.setup = FALSE]
             ELSE [pipe EXCEPT !.closing = TRUE]
  /\ UNCHANGED <<slots, stream, events, issued, open, dirty>>

Abandon == pipe' = [Quarantine(pipe) EXCEPT !.closed = TRUE, !.setup = FALSE, !.closing = FALSE]

KeepReady(s) == Abandon /\ UNCHANGED <<slots, stream, events, dirty>>

(* One turn of the loop over an active slot: its event is waited for, then  *)
(* it is polled. A candidate nobody committed makes close() quarantine.     *)
CloseDrains ==
  /\ pipe.closing /\ Active # {}
  /\ LET s == Min(Active) IN
       /\ \/ slots[s].phase = "encode_ready" /\ KeepReady(s)
          \/ /\ slots[s].phase \in EventPhase
             /\ Abandon /\ UNCHANGED <<slots, stream, events, dirty>>
          \/ /\ slots[s].phase \in EventPhase /\ EventDone(s)
             /\ \/ FinishDecode(s) \/ EncodeRejected(s) \/ BeginTransfer(s)
                \/ TransferRejected(s) \/ TransferVerified(s, TRUE)
                \/ /\ slots[s].phase = "encode_codec_event" /\ Abandon
                   /\ stream' = [stream EXCEPT ![s] = Append(@, "work")] /\ EventRetired
                   /\ UNCHANGED <<slots, dirty>>
       /\ Told(s, slots[s].ticket)
  /\ UNCHANGED issued

CloseCleansUp ==
  /\ pipe.closing /\ Active = {}
  /\ Cleanup
  /\ UNCHANGED <<stream, events, issued, open, dirty>>

(* The device completes what is first in a stream. *)
DeviceStep(s) ==
  /\ stream[s] # <<>>
  /\ stream' = [stream EXCEPT ![s] = Tail(@)]
  /\ UNCHANGED <<slots, pipe, events, issued, open, dirty>>

PipelineNext ==
  \/ SetupCompletes \/ SetupFails \/ Decode \/ Encode \/ Poll \/ Acknowledge
  \/ QuarantineUncommitted \/ CloseBegins \/ CloseDrains \/ CloseCleansUp
  \/ \E s \in Slot : DeviceStep(s)

PipelineSpec == PipelineInit /\ [][PipelineNext]_pipelineVars

-----------------------------------------------------------------------------
(* The types of the pipeline's state. *)
PipelineTypeOK ==
  /\ \A s \in Slot :
       /\ slots[s].phase \in Phase /\ slots[s].generation \in 0..MaxGeneration
       /\ slots[s].ticket \in Ticket \union {NoTicket}
       /\ slots[s].active <=> slots[s].phase # "idle"
       /\ slots[s].owns \subseteq Resource
  /\ events \in Nat /\ pipe.operation \in 0..MaxOperation /\ pipe.next \in Slot
  /\ open \subseteq issued /\ issued \subseteq Ticket

(* A slot is given back only when the device has nothing left to do in its  *)
(* buffers or at the address it was lent: whoever gets them next, no copy   *)
(* or kernel of an earlier operation still runs.                            *)
NoReuseInFlight ==
  ~pipe.quarantined => \A s \in Slot : stream[s] # <<>> => slots[s].active

(* Nothing a stream still uses is released, after a quarantine and a close  *)
(* neither.                                                                 *)
NoReleaseInFlight ==
  \A s \in Slot : stream[s] # <<>> => slots[s].owns = Resource

Held(t) == slots[t.slot].active /\ slots[t.slot].ticket = t

(* An operation its caller still waits for is found under its ticket: no    *)
(* other operation, no older ticket takes it out of its slot.               *)
OpenTicketsAreValid ==
  Operational => \A t \in open : Held(t)

(* The candidate of a dirty generation is never dropped before the host has *)
(* the content: its slot keeps it, or everything is kept.                   *)
DirtyCandidateKept ==
  \A t \in dirty : Held(t) \/ pipe.quarantined

(* What the reports compare as drained: every event recorded was retired    *)
(* once no slot waits for one.                                              *)
EventsMatch ==
  ~pipe.quarantined => events = Cardinality({s \in Slot : slots[s].phase \in EventPhase})

(* A pipeline that says it is closed holds nothing. *)
ClosedHoldsNothing ==
  pipe.closed /\ ~pipe.quarantined =>
    ~pipe.module /\ \A s \in Slot : slots[s].owns = {} /\ ~slots[s].accounted

(* resource_exhausted, unlike busy, is final: no later call gets a slot. *)
ExhaustedIsFinal == pipe.exhausted => pipe'.operation = pipe.operation

(* No identifier is given twice, at the largest one neither. *)
TicketsAreUnique == \A t, u \in issued : t.op = u.op => t = u

(* What the runtime relies on: a slot is not reused and its memory not     *)
(* released while the GPU may use it, a ticket opens what it was given for *)
(* and nothing else, and a candidate that was produced is committed or     *)
(* discarded, once.                                                        *)
PipelineSafe ==
  /\ PipelineTypeOK /\ NoReuseInFlight /\ NoReleaseInFlight /\ OpenTicketsAreValid
  /\ DirtyCandidateKept /\ EventsMatch /\ ClosedHoldsNothing /\ TicketsAreUnique
=============================================================================
