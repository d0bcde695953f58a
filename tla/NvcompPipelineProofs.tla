------------------------ MODULE NvcompPipelineProofs ------------------------
(***************************************************************************)
(* Proofs about the nvCOMP pipeline, for every number of slots and every   *)
(* largest generation and operation identifier.                            *)
(*                                                                         *)
(* PipelineSafe is not inductive: that a slot is idle on the device when   *)
(* its operation leaves it depends on what a stream may hold in each phase *)
(* (StreamsFit), that a ticket finds its operation depends on the slot and *)
(* generation written in it (SlotsFit), and that nothing is set up twice   *)
(* over a running slot depends on the life of the pipeline (LifeFits).     *)
(***************************************************************************)
EXTENDS NvcompPipeline, FiniteSetTheorems, WellFoundedInduction, TLAPS

(* The records behind the variables.                                       *)
SlotType ==
  [active : BOOLEAN, generation : 0..MaxGeneration, phase : Phase,
   ticket : Ticket \union {NoTicket}, delivered : BOOLEAN, owns : SUBSET Resource,
   accounted : BOOLEAN]
PipeType ==
  [setup : BOOLEAN, closed : BOOLEAN, cleanup : BOOLEAN, quarantined : BOOLEAN,
   module : BOOLEAN, next : Slot, operation : 0..MaxOperation, exhausted : BOOLEAN,
   closing : BOOLEAN]
Types ==
  /\ slots \in [Slot -> SlotType] /\ pipe \in PipeType
  /\ stream \in [Slot -> Seq({"work", "event"})]
  /\ events \in Nat /\ issued \in SUBSET Ticket
  /\ open \in SUBSET issued /\ dirty \in SUBSET Ticket

(* setup() runs once; who quarantines or closes does not come back.        *)
LifeFits ==
  /\ pipe.setup => ~pipe.closed /\ ~pipe.cleanup
  /\ pipe.setup => \A s \in Slot : slots[s].owns = Resource
  /\ pipe.quarantined => ~pipe.closing /\ (pipe.setup \/ pipe.closed)
  /\ pipe.closing => ~pipe.closed
  /\ \A s \in Slot : slots[s].active => pipe.setup \/ pipe.quarantined

(* An active slot runs the operation of its ticket.                        *)
SlotsFit ==
  \A s \in Slot :
    /\ slots[s].active <=> slots[s].phase # "idle"
    /\ slots[s].active => /\ slots[s].ticket \in Ticket
                          /\ slots[s].ticket.slot = s

(* What was submitted for the phase a slot is in ends with the event of    *)
(* that phase; nothing else is under way.                                  *)
Shapes(phase) ==
  IF phase \in EventPhase THEN {<<"work", "event">>, <<"event">>, <<>>} ELSE {<<>>}
StreamsFit ==
  ~pipe.quarantined => \A s \in Slot : stream[s] \in Shapes(slots[s].phase)

(* The tickets somebody still needs are in their slots.                    *)
TicketsFit ==
  /\ ~pipe.quarantined => \A t \in open : Held(t)
  /\ ~pipe.quarantined =>
       \A t \in dirty : Held(t) /\ slots[t.slot].phase = "encode_ready"
  /\ pipe.operation # 0 => \A t \in issued : t.op < pipe.operation

(* A pipeline that ran out of operations or generations stays so.          *)
ExhaustionFits ==
  pipe.exhausted =>
    /\ pipe.setup \/ pipe.closed \/ pipe.cleanup
    /\ \/ pipe.operation = 0
       \/ \A s \in Slot : ~slots[s].active /\ slots[s].generation = MaxGeneration

PipelineInv ==
  /\ Types /\ LifeFits /\ SlotsFit /\ StreamsFit /\ TicketsFit /\ ExhaustionFits
  /\ NoReleaseInFlight /\ EventsMatch /\ ClosedHoldsNothing /\ TicketsAreUnique

-----------------------------------------------------------------------------
(* Facts about the operators of the pipeline.                              *)

(* The minimum that close() and acquire_slot look for exists.              *)
Less == {p \in Nat \X Nat : p[1] < p[2]}
LEMMA MinIsMember ==
  ASSUME NEW S \in SUBSET Nat, S # {}
  PROVE  Min(S) \in S /\ \A x \in S : Min(S) <= x
<1>1. IsWellFoundedOn(Less, Nat)
  BY NatLessThanWellFounded, Zenon DEF OpToRel, Less
<1>2. PICK x \in S : \A y \in S : <<y, x>> \notin Less
  BY <1>1, WFMin
<1>3. ASSUME NEW y \in S PROVE x <= y
  <2>1. x \in Nat /\ y \in Nat /\ (y < x => <<y, x>> \in Less)
    BY Zenon DEF Less
  <2>2. QED BY <1>2, <2>1
<1>4. QED BY <1>3 DEF Min

LEMMA ModuloFacts ==
  ASSUME NEW n \in Nat \ {0}, NEW k \in 0..(n - 1)
  PROVE  /\ k % n = k /\ (k + n) % n = k
         /\ (k + 1) % n \in 0..(n - 1)
  OBVIOUS

(* The slots, looked at from next_slot_ on, are all the slots.             *)
LEMMA NthIsSlot ==
  ASSUME pipe.next \in Slot
  PROVE  /\ \A o \in Slot : Nth(o) \in Slot
         /\ \A s \in Slot : \E o \in Slot : Nth(o) = s
<1>1. ASSUME NEW o \in Slot PROVE Nth(o) \in Slot
  BY PipelineAssumption, SMT DEF Nth, Slot
<1>2. ASSUME NEW s \in Slot PROVE \E o \in Slot : Nth(o) = s
  <2>1. CASE pipe.next <= s
    <3>1. s - pipe.next \in Slot /\ pipe.next + (s - pipe.next) = s
      BY <2>1, PipelineAssumption DEF Slot
    <3>2. s % SlotCount = s
      BY ModuloFacts, PipelineAssumption DEF Slot
    <3>3. QED BY <3>1, <3>2 DEF Nth
  <2>2. CASE s < pipe.next
    <3>1. s + SlotCount - pipe.next \in Slot
          /\ pipe.next + (s + SlotCount - pipe.next) = s + SlotCount
      BY <2>2, PipelineAssumption DEF Slot
    <3>2. (s + SlotCount) % SlotCount = s
      BY ModuloFacts, PipelineAssumption DEF Slot
    <3>3. QED BY <3>1, <3>2 DEF Nth
  <2>3. QED BY <2>1, <2>2, PipelineAssumption DEF Slot
<1>3. QED BY <1>1, <1>2

LEMMA SlotFacts ==
  /\ IsFiniteSet(Slot) /\ Slot \subseteq Nat /\ 0 \in Slot
  /\ \A s \in Slot : (s + 1) % SlotCount \in Slot
<1>1. IsFiniteSet(Slot)
  BY PipelineAssumption, FS_Interval DEF Slot
<1>2. \A s \in Slot : (s + 1) % SlotCount \in Slot
  BY PipelineAssumption, ModuloFacts DEF Slot
<1>3. QED BY <1>1, <1>2, PipelineAssumption DEF Slot

LEMMA ResetFacts ==
  ASSUME NEW x \in SlotType
  PROVE  /\ Reset(x) \in SlotType
         /\ ~Reset(x).active /\ Reset(x).phase = "idle" /\ Reset(x).owns = x.owns
         /\ Reset(x).generation = x.generation /\ Reset(x).accounted = x.accounted
  BY DEF Reset, SlotType, Phase

LEMMA FreshFacts ==
  ASSUME NEW x \in SlotType, NEW t \in Ticket, NEW phase \in Phase \ {"idle"}
  PROVE  LET y == [Fresh(x, t) EXCEPT !.phase = phase] IN
         /\ y \in SlotType /\ Fresh(x, t) \in SlotType /\ Fresh(x, t).owns = x.owns
         /\ y.active /\ y.phase = phase /\ y.owns = x.owns /\ y.ticket = t
         /\ y.accounted = x.accounted
<1>1. t.generation \in 0..MaxGeneration
  BY PipelineAssumption DEF Ticket
<1>2. t \in Ticket \union {NoTicket}
  OBVIOUS
<1> HIDE DEF Ticket
<1> DEFINE y == Fresh(x, t)
<1>3. /\ y \in SlotType /\ y.active /\ y.owns = x.owns /\ y.ticket = t
      /\ y.accounted = x.accounted
  BY <1>1, <1>2 DEF Fresh, SlotType, Phase
<1> HIDE DEF y
<1>4. LET z == [y EXCEPT !.phase = phase] IN
      /\ z \in SlotType /\ z.active /\ z.phase = phase /\ z.owns = y.owns /\ z.ticket = y.ticket
      /\ z.accounted = y.accounted
  BY <1>3 DEF SlotType, Phase
<1>5. QED BY <1>3, <1>4 DEF y

(* How many slots wait for an event when one slot changes.                 *)
Waiting == {s \in Slot : slots[s].phase \in EventPhase}
Counts(b) == IF b THEN 1 ELSE 0
LEMMA WaitingChanges ==
  ASSUME NEW s \in Slot, \A r \in Slot \ {s} : slots'[r] = slots[r]
  PROVE  /\ Cardinality(Waiting) \in Nat
         /\ Cardinality(Waiting') = Cardinality(Waiting)
              + Counts(slots'[s].phase \in EventPhase) - Counts(slots[s].phase \in EventPhase)
         /\ slots[s].phase \in EventPhase => Cardinality(Waiting) > 0
<1> DEFINE Rest == {r \in Slot \ {s} : slots[r].phase \in EventPhase}
<1>1. IsFiniteSet(Rest) /\ s \notin Rest
  BY SlotFacts, FS_Subset
<1>2. Cardinality(Rest) \in Nat /\ Cardinality(Rest \union {s}) = Cardinality(Rest) + 1
  BY <1>1, FS_CardinalityType, FS_AddElement
<1>3. /\ Waiting = IF slots[s].phase \in EventPhase THEN Rest \union {s} ELSE Rest
      /\ Waiting' = IF slots'[s].phase \in EventPhase THEN Rest \union {s} ELSE Rest
  BY DEF Waiting
<1> HIDE DEF Rest
<1>4. QED BY <1>2, <1>3 DEF Counts

(* The slot of an operation that leaves, with its ticket and its candidate *)
(* gone: polled, acknowledged or drained.                                  *)
LEMMA LeavingKeeps ==
  ASSUME PipelineInv, NEW s \in Slot, slots[s].active, stream[s] = <<>>, ~pipe.quarantined,
         Leaves(s), open' = open \ {slots[s].ticket},
         dirty' \in {dirty, dirty \ {slots[s].ticket}},
         slots[s].phase = "encode_ready" => dirty' = dirty \ {slots[s].ticket},
         events' = events - Counts(slots[s].phase \in EventPhase),
         UNCHANGED <<pipe, stream, issued>>
  PROVE  PipelineInv'
<1>1. slots[s] \in SlotType
  BY DEF PipelineInv, Types
<1>2. /\ slots'[s] = Reset(slots[s]) /\ slots' \in [Slot -> SlotType]
      /\ \A r \in Slot \ {s} : slots'[r] = slots[r]
  BY <1>1, ResetFacts DEF PipelineInv, Types, Leaves
<1>3. /\ ~slots'[s].active /\ slots'[s].phase = "idle" /\ slots'[s].owns = slots[s].owns
      /\ slots'[s].generation = slots[s].generation
      /\ slots'[s].accounted = slots[s].accounted
  BY <1>1, <1>2, ResetFacts
<1>4. EventsMatch'
  BY <1>2, <1>3, WaitingChanges DEF PipelineInv, EventsMatch, Waiting, EventPhase, Counts
<1>5. Types'
  <2>1. events = Cardinality(Waiting)
    BY DEF PipelineInv, EventsMatch, Waiting
  <2>2. events' \in Nat
    BY <1>2, <2>1, WaitingChanges DEF Counts
  <2>3. QED BY <1>2, <2>2 DEF PipelineInv, Types
<1>6. LifeFits' /\ SlotsFit' /\ StreamsFit' /\ NoReleaseInFlight'
  BY <1>2, <1>3 DEF PipelineInv, LifeFits, SlotsFit, StreamsFit, NoReleaseInFlight, Shapes,
     EventPhase
<1>7. ASSUME NEW t \in Ticket, t # slots[s].ticket \/ slots[s].phase # slots[t.slot].phase, Held(t)
      PROVE  Held(t)' /\ slots'[t.slot] = slots[t.slot]
  <2>1. t.slot \in Slot /\ t.slot # s
    BY <1>7 DEF Held, Ticket
  <2>2. QED BY <2>1, <1>2, <1>7 DEF Held
<1>8. TicketsFit'
  <2>1. open \subseteq Ticket /\ dirty \subseteq Ticket
    BY DEF PipelineInv, Types
  <2>2. \A t \in open' : Held(t)'
    BY <1>7, <2>1 DEF PipelineInv, TicketsFit
  <2>3. \A t \in dirty' : Held(t)' /\ slots'[t.slot].phase = "encode_ready"
    BY <1>7, <2>1 DEF PipelineInv, TicketsFit
  <2>4. QED BY <2>2, <2>3 DEF PipelineInv, TicketsFit
<1>9. ExhaustionFits' /\ ClosedHoldsNothing' /\ TicketsAreUnique'
  BY <1>2, <1>3 DEF PipelineInv, ExhaustionFits, ClosedHoldsNothing, TicketsAreUnique,
     SlotsFit
<1>10. QED BY <1>4, <1>5, <1>6, <1>8, <1>9 DEF PipelineInv

(* A slot that goes on: to the transfer, to the verified candidate, to the *)
(* candidate delivered later.                                              *)
LEMMA StayingKeeps ==
  ASSUME PipelineInv, NEW s \in Slot, slots[s].active, ~pipe.quarantined,
         slots' \in [Slot -> SlotType], \A r \in Slot \ {s} : slots'[r] = slots[r],
         slots'[s].active, slots'[s].phase # "idle", slots'[s].ticket = slots[s].ticket,
         slots'[s].owns = slots[s].owns, slots'[s].accounted = slots[s].accounted,
         slots[s].phase = "encode_ready" => slots'[s].phase = "encode_ready",
         stream' \in [Slot -> Seq({"work", "event"})],
         \A r \in Slot \ {s} : stream'[r] = stream[r],
         stream'[s] \in Shapes(slots'[s].phase),
         events' = events + Counts(slots'[s].phase \in EventPhase)
                          - Counts(slots[s].phase \in EventPhase),
         dirty' \in SUBSET (dirty \union {slots[s].ticket}),
         slots[s].ticket \in dirty' => slots'[s].phase = "encode_ready",
         UNCHANGED <<pipe, open, issued>>
  PROVE  PipelineInv'
<1>1. slots[s].ticket \in Ticket /\ slots[s].ticket.slot = s
  BY DEF PipelineInv, SlotsFit
<1>2. EventsMatch' /\ events' \in Nat
  <2>1. events = Cardinality(Waiting)
    BY DEF PipelineInv, EventsMatch, Waiting
  <2>2. events' \in Nat /\ events' = Cardinality(Waiting')
    BY <2>1, WaitingChanges DEF Counts
  <2>3. QED BY <2>2 DEF EventsMatch, Waiting
<1>3. Types'
  BY <1>1, <1>2 DEF PipelineInv, Types
<1>4. LifeFits' /\ SlotsFit' /\ StreamsFit'
  <2>1. LifeFits'
    BY DEF PipelineInv, LifeFits
  <2>2. SlotsFit'
    BY DEF PipelineInv, SlotsFit
  <2>3. StreamsFit'
    BY DEF PipelineInv, StreamsFit
  <2>4. QED BY <2>1, <2>2, <2>3
<1>5. NoReleaseInFlight'
  BY DEF PipelineInv, LifeFits, NoReleaseInFlight
<1>6. ASSUME NEW t \in Ticket, Held(t) PROVE Held(t)'
  BY <1>6 DEF Held, Ticket
<1>7. TicketsFit'
  <2>1. \A t \in open' : Held(t)'
    BY <1>6 DEF PipelineInv, TicketsFit, Types
  <2>2. ASSUME NEW t \in dirty' PROVE Held(t)' /\ slots'[t.slot].phase = "encode_ready"
    <3>1. CASE t = slots[s].ticket
      BY <1>1, <2>2, <3>1 DEF Held
    <3>2. CASE t # slots[s].ticket
      <4>1. t \in Ticket /\ Held(t) /\ slots[t.slot].phase = "encode_ready"
        BY <2>2, <3>2 DEF PipelineInv, TicketsFit, Types
      <4>2. t.slot \in Slot \ {s}
        BY <3>2, <4>1 DEF Held, Ticket
      <4>3. QED BY <1>6, <4>1, <4>2
    <3>3. QED BY <3>1, <3>2
  <2>3. QED BY <2>1, <2>2 DEF PipelineInv, TicketsFit
<1>8. ExhaustionFits' /\ ClosedHoldsNothing' /\ TicketsAreUnique'
  BY DEF PipelineInv, ExhaustionFits, ClosedHoldsNothing, TicketsAreUnique, LifeFits
<1>9. QED BY <1>2, <1>3, <1>4, <1>5, <1>7, <1>8 DEF PipelineInv

(* What is quarantined keeps everything, whatever the device still does.   *)
LEMMA QuarantineKeeps ==
  ASSUME PipelineInv, NEW s \in Slot, slots[s].active, ~pipe.quarantined,
         slots' \in [Slot -> SlotType], \A r \in Slot \ {s} : slots'[r] = slots[r],
         slots'[s].active, slots'[s].phase # "idle", slots'[s].ticket = slots[s].ticket,
         slots'[s].owns = slots[s].owns,
         stream' \in [Slot -> Seq({"work", "event"})],
         events' \in {events, events - 1}, slots[s].phase \in EventPhase \/ events' = events,
         (Calling /\ pipe' = Quarantine(pipe)) \/ Abandon,
         UNCHANGED <<open, issued, dirty>>
  PROVE  PipelineInv'
<1>1. pipe.setup /\ ~pipe.closed
  BY DEF PipelineInv, LifeFits
<1>2. /\ pipe' \in PipeType /\ pipe'.quarantined /\ (pipe'.setup <=> ~pipe'.closed)
      /\ pipe'.operation = pipe.operation /\ pipe'.exhausted = pipe.exhausted
      /\ ~pipe'.cleanup /\ ~pipe'.closing
  <2>1. pipe \in PipeType /\ ~pipe.cleanup
    BY <1>1 DEF PipelineInv, LifeFits, Types
  <2>2. CASE Calling /\ pipe' = Quarantine(pipe)
    BY <1>1, <2>1, <2>2 DEF Quarantine, Calling, PipeType
  <2>3. CASE Abandon
    BY <2>1, <2>3 DEF Abandon, Quarantine, PipeType
  <2>4. QED BY <2>2, <2>3
<1>3. Types'
  <2>1. events' \in Nat
    <3>1. events = Cardinality(Waiting)
      BY DEF PipelineInv, EventsMatch, Waiting
    <3>2. QED BY <3>1, WaitingChanges
  <2>2. QED BY <1>2, <2>1 DEF PipelineInv, Types
<1>4. LifeFits'
  BY <1>1, <1>2 DEF PipelineInv, LifeFits
<1>5. SlotsFit'
  <2>1. SlotsFit
    BY DEF PipelineInv
  <2>2. QED BY <2>1 DEF SlotsFit
<1>6. StreamsFit' /\ TicketsFit' /\ EventsMatch' /\ ClosedHoldsNothing'
  BY <1>2 DEF PipelineInv, StreamsFit, TicketsFit, EventsMatch, ClosedHoldsNothing
<1>7. NoReleaseInFlight'
  BY <1>1 DEF PipelineInv, LifeFits, NoReleaseInFlight
<1>8. ExhaustionFits' /\ TicketsAreUnique'
  BY <1>2 DEF PipelineInv, ExhaustionFits, TicketsAreUnique
<1>9. QED BY <1>3, <1>4, <1>5, <1>6, <1>7, <1>8 DEF PipelineInv

-----------------------------------------------------------------------------
(* The actions.                                                            *)

LEMMA DoneIsEmpty ==
  ASSUME PipelineInv, NEW s \in Slot, ~pipe.quarantined, slots[s].phase \in EventPhase,
         EventDone(s)
  PROVE  stream[s] = <<>>
<1>1. stream[s] \in {<<"work", "event">>, <<"event">>, <<>>}
  BY DEF PipelineInv, StreamsFit, Shapes
<1>2. stream[s] # <<"event">>
  BY DEF EventDone, Done
<1>3. stream[s] # <<"work", "event">>
  BY DEF EventDone, Done
<1>4. QED BY <1>1, <1>2, <1>3

(* What poll(), wait() and close() do with an operation whose event is     *)
(* done.                                                                   *)
LEMMA EndsKeep ==
  ASSUME PipelineInv, NEW s \in Slot, slots[s].active, ~pipe.quarantined, stream[s] = <<>>,
         FinishDecode(s) \/ EncodeRejected(s) \/ TransferRejected(s),
         Told(s, slots[s].ticket), UNCHANGED issued
  PROVE  PipelineInv'
<1>1. /\ Leaves(s) /\ UNCHANGED <<pipe, stream, issued, dirty>> /\ events' = events - 1
      /\ slots[s].phase \in EventPhase /\ slots[s].phase # "encode_ready"
  BY DEF FinishDecode, EncodeRejected, TransferRejected, EventRetired, EventPhase
<1>2. slots[s] \in SlotType /\ slots' = [slots EXCEPT ![s] = Reset(@)]
  BY <1>1 DEF PipelineInv, Types, Leaves
<1>3. ~slots'[s].active
  BY <1>2, ResetFacts DEF PipelineInv, Types
<1>4. open' = open \ {slots[s].ticket}
  BY <1>3 DEF Told
<1>5. QED BY <1>1, <1>4, LeavingKeeps DEF Counts

LEMMA BeginTransferKeeps ==
  ASSUME PipelineInv, NEW s \in Slot, slots[s].active, ~pipe.quarantined, stream[s] = <<>>,
         BeginTransfer(s), Told(s, slots[s].ticket), UNCHANGED issued
  PROVE  PipelineInv'
<1>1. slots[s] \in SlotType /\ slots \in [Slot -> SlotType]
  BY DEF PipelineInv, Types
<1>2. /\ slots' \in [Slot -> SlotType] /\ \A r \in Slot \ {s} : slots'[r] = slots[r]
      /\ slots'[s] = [slots[s] EXCEPT !.phase = "encode_transfer_event"]
  BY <1>1 DEF BeginTransfer, TransferPhase, SlotType, Phase
<1>3. /\ slots'[s].active /\ slots'[s].phase = "encode_transfer_event"
      /\ slots'[s].ticket = slots[s].ticket /\ slots'[s].owns = slots[s].owns
      /\ slots'[s].accounted = slots[s].accounted
  BY <1>1, <1>2 DEF SlotType
<1>4. /\ stream' \in [Slot -> Seq({"work", "event"})]
      /\ \A r \in Slot \ {s} : stream'[r] = stream[r]
      /\ stream'[s] = <<"work", "event">>
  BY DEF BeginTransfer, PipelineInv, Types
<1>5. UNCHANGED <<pipe, events, dirty>> /\ slots[s].phase = "encode_codec_event"
  BY DEF BeginTransfer
<1>6. slots[s].ticket \notin dirty
  BY <1>5 DEF PipelineInv, TicketsFit, SlotsFit
<1>7. open' = open
  BY <1>3 DEF Told
<1>8. stream'[s] \in Shapes(slots'[s].phase)
  BY <1>3, <1>4 DEF Shapes, EventPhase
<1>9. events' = events + Counts(slots'[s].phase \in EventPhase)
                       - Counts(slots[s].phase \in EventPhase)
  BY <1>3, <1>5 DEF Counts, EventPhase, PipelineInv, Types
<1>10. QED
  BY <1>2, <1>3, <1>4, <1>5, <1>6, <1>7, <1>8, <1>9, StayingKeeps

LEMMA DeliverFacts ==
  ASSUME NEW x \in SlotType, x.active
  PROVE  \A y \in {Deliver(x), [x EXCEPT !.phase = "encode_ready"]} :
           /\ y \in SlotType /\ y.active /\ y.phase = "encode_ready"
           /\ y.ticket = x.ticket /\ y.owns = x.owns /\ y.accounted = x.accounted
  BY DEF Deliver, SlotType, Phase

LEMMA VerifiedKeeps ==
  ASSUME PipelineInv, NEW s \in Slot, slots[s].active, ~pipe.quarantined, stream[s] = <<>>,
         NEW candidate \in BOOLEAN, TransferVerified(s, candidate) \/ Redeliver(s, candidate),
         Told(s, slots[s].ticket), UNCHANGED issued
  PROVE  PipelineInv'
<1>1. slots[s] \in SlotType /\ slots \in [Slot -> SlotType] /\ slots[s].phase # "idle"
  BY DEF PipelineInv, Types, SlotsFit
<1>2. PICK y \in {Deliver(slots[s]), [slots[s] EXCEPT !.phase = "encode_ready"]} :
        slots' = [slots EXCEPT ![s] = y]
  BY <1>1 DEF TransferVerified, Redeliver
<1>a. /\ y \in SlotType /\ y.active /\ y.phase = "encode_ready"
      /\ y.ticket = slots[s].ticket /\ y.owns = slots[s].owns
      /\ y.accounted = slots[s].accounted
  BY <1>1, DeliverFacts
<1>3. /\ slots' \in [Slot -> SlotType] /\ \A r \in Slot \ {s} : slots'[r] = slots[r]
      /\ slots'[s] = y
  BY <1>1, <1>2, <1>a
<1>4. /\ slots'[s].active /\ slots'[s].phase = "encode_ready"
      /\ slots'[s].ticket = slots[s].ticket /\ slots'[s].owns = slots[s].owns
      /\ slots'[s].accounted = slots[s].accounted
  BY <1>3, <1>a
<1>5. open' = open
  BY <1>4 DEF Told
<1>6. UNCHANGED <<pipe, stream>> /\ dirty' \in {dirty, dirty \union {slots[s].ticket}}
  BY DEF TransferVerified, Redeliver
<1>7. events' = events + Counts(slots'[s].phase \in EventPhase)
                       - Counts(slots[s].phase \in EventPhase)
  BY <1>4 DEF TransferVerified, Redeliver, EventRetired, Counts, EventPhase, PipelineInv, Types
<1>8. stream' \in [Slot -> Seq({"work", "event"})] /\ stream'[s] \in Shapes(slots'[s].phase)
  BY <1>4, <1>6 DEF Shapes, EventPhase, PipelineInv, Types
<1>9. QED
  BY <1>3, <1>4, <1>5, <1>6, <1>7, <1>8, StayingKeeps

(* The ways poll() and close() give an operation up.                       *)
LEMMA GivingUpKeeps ==
  ASSUME PipelineInv, NEW s \in Slot, slots[s].active, ~pipe.quarantined,
         \/ Calling /\ Unknown(s) /\ Told(s, slots[s].ticket)
         \/ Calling /\ TransferUnknown(s) /\ Told(s, slots[s].ticket)
         \/ Abandon /\ UNCHANGED <<slots, stream, events, dirty, open>>
         \/ /\ slots[s].phase = "encode_codec_event" /\ Abandon /\ EventRetired
            /\ stream' = [stream EXCEPT ![s] = Append(@, "work")]
            /\ UNCHANGED <<slots, dirty, open>>,
         UNCHANGED issued
  PROVE  PipelineInv'
<1>1. slots[s] \in SlotType /\ slots \in [Slot -> SlotType] /\ slots[s].phase # "idle"
  BY DEF PipelineInv, Types, SlotsFit
<1>2. /\ slots' \in [Slot -> SlotType] /\ \A r \in Slot \ {s} : slots'[r] = slots[r]
      /\ slots'[s].active /\ slots'[s].phase # "idle" /\ slots'[s].ticket = slots[s].ticket
      /\ slots'[s].owns = slots[s].owns
  <2>1. CASE UNCHANGED slots
    BY <1>1, <2>1
  <2>2. CASE TransferUnknown(s)
    <3>1. PICK phase \in {"encode_codec_event", "encode_transfer_event"} :
            slots' = [slots EXCEPT ![s].phase = phase]
      BY <2>2 DEF TransferUnknown
    <3>2. slots'[s] = [slots[s] EXCEPT !.phase = phase]
      BY <1>1, <3>1
    <3>3. QED BY <1>1, <3>1, <3>2 DEF SlotType, Phase
  <2>3. QED BY <2>1, <2>2 DEF Unknown
<1>3. stream' \in [Slot -> Seq({"work", "event"})]
  <2>1. stream \in [Slot -> Seq({"work", "event"})]
    BY DEF PipelineInv, Types
  <2>2. Append(stream[s], "work") \in Seq({"work", "event"})
    BY <2>1
  <2>3. stream' = stream \/ stream' = [stream EXCEPT ![s] = Append(stream[s], "work")]
    BY DEF Unknown, TransferUnknown
  <2>4. QED BY <2>1, <2>2, <2>3
<1>4. /\ events' \in {events, events - 1}
      /\ slots[s].phase \in EventPhase \/ events' = events
  BY DEF Unknown, TransferUnknown, EventRetired, EventPhase
<1>5. UNCHANGED <<open, issued, dirty>> /\ ((Calling /\ pipe' = Quarantine(pipe)) \/ Abandon)
  BY <1>2 DEF Unknown, TransferUnknown, Told
<1>6. QED BY <1>2, <1>3, <1>4, <1>5, QuarantineKeeps

LEMMA PollKeeps ==
  ASSUME PipelineInv, Poll
  PROVE  PipelineInv'
<1>1. PICK t \in issued, candidate \in BOOLEAN :
        \E s \in TicketSlot(t) : PollSlot(s, candidate) /\ Told(s, t)
  BY DEF Poll
<1>2. PICK s \in TicketSlot(t) : PollSlot(s, candidate) /\ Told(s, t)
  BY <1>1
<1>3. s \in Slot /\ slots[s].active /\ slots[s].ticket = t
  BY <1>2 DEF TicketSlot
<1>4. Calling /\ ~pipe.quarantined /\ UNCHANGED issued
  BY DEF Poll, Operational
<1>5. CASE Redeliver(s, candidate)
  <2>1. stream[s] = <<>>
    BY <1>3, <1>4, <1>5 DEF Redeliver, PipelineInv, StreamsFit, Shapes, EventPhase
  <2>2. QED BY <1>2, <1>3, <1>4, <1>5, <2>1, VerifiedKeeps
<1>6. CASE Unknown(s)
  BY <1>2, <1>3, <1>4, <1>6, GivingUpKeeps
<1>7. CASE slots[s].phase \in EventPhase /\ EventDone(s)
  <2>1. stream[s] = <<>>
    BY <1>3, <1>4, <1>7, DoneIsEmpty
  <2>2. CASE FinishDecode(s) \/ EncodeRejected(s) \/ TransferRejected(s)
    BY <1>2, <1>3, <1>4, <2>1, <2>2, EndsKeep
  <2>3. CASE BeginTransfer(s)
    BY <1>2, <1>3, <1>4, <2>1, <2>3, BeginTransferKeeps
  <2>4. CASE TransferUnknown(s)
    BY <1>2, <1>3, <1>4, <2>4, GivingUpKeeps
  <2>5. CASE TransferVerified(s, candidate)
    BY <1>2, <1>3, <1>4, <2>1, <2>5, VerifiedKeeps
  <2>6. QED BY <1>2, <1>5, <1>6, <2>2, <2>3, <2>4, <2>5 DEF PollSlot
<1>8. QED BY <1>2, <1>5, <1>6, <1>7 DEF PollSlot

LEMMA AcknowledgeKeeps ==
  ASSUME PipelineInv, Acknowledge
  PROVE  PipelineInv'
<1>1. PICK t \in issued : \E s \in TicketSlot(t) :
        /\ t.kind = "encode" /\ Ackable(s)
        /\ Leaves(s) /\ Told(s, t) /\ dirty' = dirty \ {t}
  BY DEF Acknowledge
<1>2. PICK s \in TicketSlot(t) :
        Ackable(s) /\ Leaves(s) /\ Told(s, t) /\ dirty' = dirty \ {t}
  BY <1>1
<1>3. s \in Slot /\ slots[s].active /\ slots[s].ticket = t /\ slots[s].phase = "encode_ready"
  BY <1>2 DEF TicketSlot, Ackable
<1>4. ~pipe.quarantined /\ UNCHANGED <<pipe, stream, events, issued>>
  BY DEF Acknowledge, Operational
<1>5. stream[s] = <<>>
  BY <1>3, <1>4 DEF PipelineInv, StreamsFit, Shapes, EventPhase
<1>6. open' = open \ {t}
  <2>1. slots[s] \in SlotType /\ slots'[s] = Reset(slots[s])
    BY <1>2, <1>3 DEF Leaves, PipelineInv, Types
  <2>2. QED BY <1>2, <2>1, ResetFacts DEF Told
<1>7. events' = events - Counts(slots[s].phase \in EventPhase)
  BY <1>3, <1>4 DEF Counts, EventPhase, PipelineInv, Types
<1>8. QED BY <1>2, <1>3, <1>4, <1>5, <1>6, <1>7, LeavingKeeps

LEMMA QuarantineUncommittedKeeps ==
  ASSUME PipelineInv, QuarantineUncommitted
  PROVE  PipelineInv'
<1>1. PICK t \in issued : \E s \in TicketSlot(t) : pipe' = Quarantine(pipe)
  BY DEF QuarantineUncommitted
<1>2. PICK s \in TicketSlot(t) : pipe' = Quarantine(pipe)
  BY <1>1
<1>3. s \in Slot /\ slots[s].active
  BY <1>2 DEF TicketSlot
<1>4. /\ slots \in [Slot -> SlotType] /\ stream \in [Slot -> Seq({"work", "event"})]
      /\ slots[s].phase # "idle"
  BY <1>3 DEF PipelineInv, Types, SlotsFit
<1>5. /\ Calling /\ ~pipe.quarantined
      /\ UNCHANGED <<slots, stream, events, issued, open, dirty>>
  BY DEF QuarantineUncommitted
<1>6. QED BY <1>2, <1>3, <1>4, <1>5, QuarantineKeeps

LEMMA CloseDrainsKeeps ==
  ASSUME PipelineInv, CloseDrains
  PROVE  PipelineInv'
<1> DEFINE s == Min(Active)
<1>1. s \in Slot /\ slots[s].active
  BY MinIsMember, SlotFacts DEF CloseDrains, Active
<1>2. ~pipe.quarantined /\ UNCHANGED issued
  BY DEF CloseDrains, PipelineInv, LifeFits
<1>3. Told(s, slots[s].ticket)
  BY DEF CloseDrains
<1>4. \/ slots[s].phase = "encode_ready" /\ KeepReady(s)
      \/ /\ slots[s].phase \in EventPhase
         /\ Abandon /\ UNCHANGED <<slots, stream, events, dirty>>
      \/ /\ slots[s].phase \in EventPhase /\ EventDone(s)
         /\ \/ FinishDecode(s) \/ EncodeRejected(s) \/ BeginTransfer(s)
            \/ TransferRejected(s) \/ TransferVerified(s, TRUE)
            \/ /\ slots[s].phase = "encode_codec_event" /\ Abandon
               /\ stream' = [stream EXCEPT ![s] = Append(@, "work")] /\ EventRetired
               /\ UNCHANGED <<slots, dirty>>
  BY DEF CloseDrains
<1> HIDE DEF s
<1>5. UNCHANGED slots => UNCHANGED open
  BY <1>1, <1>3 DEF Told
<1>6. CASE Abandon /\ UNCHANGED <<slots, stream, events, dirty>>
  BY <1>1, <1>2, <1>5, <1>6, GivingUpKeeps
<1>7. CASE slots[s].phase \in EventPhase /\ EventDone(s)
  <2>1. stream[s] = <<>>
    BY <1>1, <1>2, <1>7, DoneIsEmpty
  <2>2. CASE FinishDecode(s) \/ EncodeRejected(s) \/ TransferRejected(s)
    BY <1>1, <1>2, <1>3, <2>1, <2>2, EndsKeep
  <2>3. CASE BeginTransfer(s)
    BY <1>1, <1>2, <1>3, <2>1, <2>3, BeginTransferKeeps
  <2>4. CASE TransferVerified(s, TRUE)
    BY <1>1, <1>2, <1>3, <2>1, <2>4, VerifiedKeeps
  <2>5. CASE /\ slots[s].phase = "encode_codec_event" /\ Abandon
             /\ stream' = [stream EXCEPT ![s] = Append(@, "work")] /\ EventRetired
             /\ UNCHANGED <<slots, dirty>>
    BY <1>1, <1>2, <1>5, <2>5, GivingUpKeeps
  <2>6. QED BY <1>4, <1>6, <2>2, <2>3, <2>4, <2>5 DEF KeepReady
<1>8. QED BY <1>4, <1>6, <1>7 DEF KeepReady

LEMMA CloseBeginsKeeps ==
  ASSUME PipelineInv, CloseBegins
  PROVE  PipelineInv'
<1>1. UNCHANGED <<slots, stream, events, issued, open, dirty>> /\ Calling /\ ~pipe.closed
  BY DEF CloseBegins
<1>2. CASE pipe.quarantined
  <2>1. pipe' = [pipe EXCEPT !.closed = TRUE, !.setup = FALSE]
    BY <1>2 DEF CloseBegins
  <2>2. /\ pipe' \in PipeType /\ pipe'.quarantined /\ pipe'.closed /\ ~pipe'.setup
        /\ ~pipe'.closing /\ pipe'.operation = pipe.operation
        /\ pipe'.exhausted = pipe.exhausted
    BY <1>1, <1>2, <2>1 DEF PipelineInv, Types, PipeType, Calling
  <2>3. Types' /\ LifeFits' /\ SlotsFit' /\ StreamsFit' /\ TicketsFit'
    BY <1>1, <2>2 DEF PipelineInv, Types, LifeFits, SlotsFit, StreamsFit, TicketsFit
  <2>4. /\ ExhaustionFits' /\ NoReleaseInFlight' /\ EventsMatch' /\ ClosedHoldsNothing'
        /\ TicketsAreUnique'
    BY <1>1, <2>2 DEF PipelineInv, ExhaustionFits, NoReleaseInFlight, EventsMatch,
       ClosedHoldsNothing, TicketsAreUnique
  <2>5. QED BY <2>3, <2>4 DEF PipelineInv
<1>3. CASE ~pipe.quarantined
  <2>1. pipe' = [pipe EXCEPT !.closing = TRUE]
    BY <1>3 DEF CloseBegins
  <2>2. /\ pipe' \in PipeType /\ ~pipe'.quarantined /\ ~pipe'.closed
        /\ pipe'.setup = pipe.setup /\ pipe'.cleanup = pipe.cleanup
        /\ pipe'.operation = pipe.operation /\ pipe'.exhausted = pipe.exhausted
    BY <1>1, <1>3, <2>1 DEF PipelineInv, Types, PipeType
  <2>3. Types' /\ LifeFits' /\ SlotsFit' /\ StreamsFit'
    BY <1>1, <1>3, <2>2 DEF PipelineInv, Types, LifeFits, SlotsFit, StreamsFit
  <2>4. TicketsFit'
    BY <1>1, <1>3, <2>2 DEF PipelineInv, TicketsFit, Held
  <2>5. /\ ExhaustionFits' /\ NoReleaseInFlight' /\ EventsMatch' /\ ClosedHoldsNothing'
        /\ TicketsAreUnique'
    BY <1>1, <1>3, <2>2 DEF PipelineInv, ExhaustionFits, NoReleaseInFlight, EventsMatch,
       ClosedHoldsNothing, TicketsAreUnique
  <2>6. QED BY <2>3, <2>4, <2>5 DEF PipelineInv
<1>4. QED BY <1>2, <1>3

(* Where no operation is active nothing is under way and nobody waits.     *)
LEMMA InactiveIsQuiet ==
  ASSUME PipelineInv, ~pipe.quarantined, \A s \in Slot : ~slots[s].active
  PROVE  /\ \A s \in Slot : stream[s] = <<>>
         /\ open = {} /\ dirty = {} /\ events = 0
<1>1. \A s \in Slot : slots[s].phase = "idle"
  BY DEF PipelineInv, SlotsFit
<1>2. \A s \in Slot : stream[s] = <<>>
  BY <1>1 DEF PipelineInv, StreamsFit, Shapes, EventPhase
<1>3. \A t \in Ticket : ~Held(t)
  BY DEF Held, Ticket
<1>4. open = {} /\ dirty = {}
  BY <1>3 DEF PipelineInv, TicketsFit, Types
<1>5. {s \in Slot : slots[s].phase \in EventPhase} = {}
  BY <1>1 DEF EventPhase
<1>6. events = 0
  BY <1>5, FS_EmptySet DEF PipelineInv, EventsMatch
<1>7. QED BY <1>2, <1>4, <1>6

(* A quiet pipeline changes what its slots own: setup() and the end of     *)
(* close().                                                                *)
LEMMA OwningKeeps ==
  ASSUME PipelineInv, ~pipe.quarantined, ~pipe.closed, \A s \in Slot : ~slots[s].active,
         slots' \in [Slot -> SlotType],
         \A s \in Slot : ~slots'[s].active /\ slots'[s].phase = "idle",
         pipe' \in PipeType, ~pipe'.quarantined, ~pipe'.closing,
         pipe'.operation = pipe.operation, pipe'.exhausted = pipe.exhausted,
         pipe'.setup => /\ ~pipe'.closed /\ ~pipe'.cleanup
                        /\ \A s \in Slot : slots'[s].owns = Resource,
         pipe.exhausted => /\ pipe'.closed \/ pipe'.cleanup
                           /\ \A s \in Slot : slots'[s].generation = slots[s].generation,
         ClosedHoldsNothing',
         UNCHANGED <<stream, events, issued, open, dirty>>
  PROVE  PipelineInv'
<1>1. /\ \A s \in Slot : stream[s] = <<>>
      /\ open = {} /\ dirty = {} /\ events = 0
  BY InactiveIsQuiet
<1>2. Types' /\ LifeFits' /\ SlotsFit'
  BY DEF PipelineInv, Types, LifeFits, SlotsFit
<1>3. StreamsFit' /\ TicketsFit' /\ NoReleaseInFlight'
  BY <1>1 DEF PipelineInv, StreamsFit, Shapes, EventPhase, TicketsFit, NoReleaseInFlight
<1>4. EventsMatch'
  <2>1. {s \in Slot : slots'[s].phase \in EventPhase} = {}
    BY DEF EventPhase
  <2>2. QED BY <1>1, <2>1, FS_EmptySet DEF EventsMatch
<1>5. ExhaustionFits' /\ TicketsAreUnique'
  BY DEF PipelineInv, ExhaustionFits, TicketsAreUnique
<1>6. QED BY <1>2, <1>3, <1>4, <1>5 DEF PipelineInv

LEMMA SetupKeeps ==
  ASSUME PipelineInv, SetupCompletes \/ SetupFails
  PROVE  PipelineInv'
<1>1. /\ Calling /\ ~pipe.setup /\ ~pipe.closed /\ ~pipe.cleanup
      /\ UNCHANGED <<stream, events, issued, open, dirty>>
  BY DEF SetupCompletes, SetupFails
<1>2. ~pipe.quarantined /\ ~pipe.exhausted /\ \A s \in Slot : ~slots[s].active
  BY <1>1 DEF PipelineInv, LifeFits, ExhaustionFits
<1> DEFINE New(owns, accounted) == [Empty EXCEPT !.owns = owns, !.accounted = accounted]
<1>3. \A owns \in SUBSET Resource, accounted \in BOOLEAN :
        /\ New(owns, accounted) \in SlotType /\ ~New(owns, accounted).active
        /\ New(owns, accounted).phase = "idle" /\ New(owns, accounted).owns = owns
  <2>1. Empty \in SlotType /\ ~Empty.active /\ Empty.phase = "idle"
    BY PipelineAssumption DEF Empty, SlotType, Phase
  <2>2. QED BY <2>1 DEF SlotType
<1> HIDE DEF New
<1>4. CASE SetupCompletes
  <2>1. slots' = [s \in Slot |-> New(Resource, TRUE)]
    BY <1>4 DEF SetupCompletes, New
  <2>2. /\ slots' \in [Slot -> SlotType]
        /\ \A s \in Slot : /\ ~slots'[s].active /\ slots'[s].phase = "idle"
                           /\ slots'[s].owns = Resource
    BY <1>3, <2>1
  <2>3. /\ pipe' \in PipeType /\ ~pipe'.quarantined /\ ~pipe'.closing /\ ~pipe'.closed
        /\ ~pipe'.cleanup /\ pipe'.operation = pipe.operation
        /\ pipe'.exhausted = pipe.exhausted
    BY <1>1, <1>2, <1>4 DEF SetupCompletes, Calling, PipelineInv, Types, PipeType
  <2>4. QED BY <1>1, <1>2, <2>2, <2>3, OwningKeeps DEF ClosedHoldsNothing
<1>5. CASE SetupFails
  <2>1. /\ slots' \in [Slot -> SlotType]
        /\ \A s \in Slot : ~slots'[s].active /\ slots'[s].phase = "idle"
    <3>1. PICK kept \in [Slot -> SUBSET Resource], accounted \in [Slot -> BOOLEAN] :
            slots' = [s \in Slot |->
                        [Empty EXCEPT !.owns = kept[s], !.accounted = accounted[s]]]
      <4>1. PICK last \in Slot, part \in {{}, {"stream"}, Resource},
                 kept \in [Slot -> SUBSET Resource] :
              LET made(s) == IF s < last THEN Resource ELSE IF s = last THEN part ELSE {} IN
              /\ \A s \in Slot : kept[s] \subseteq made(s)
              /\ slots' = [s \in Slot |-> [Empty EXCEPT !.owns = kept[s],
                                           !.accounted = kept[s] # {} /\ made(s) = Resource]]
              /\ \E module \in BOOLEAN :
                   /\ module => \A s \in Slot : made(s) = Resource
                   /\ pipe' = [pipe EXCEPT !.module = module,
                                           !.cleanup = module \/ ~AllReleased(kept)]
        BY <1>5, Zenon DEF SetupFails
      <4> DEFINE made(s) == IF s < last THEN Resource ELSE IF s = last THEN part ELSE {}
      <4> DEFINE accounted == [s \in Slot |-> kept[s] # {} /\ made(s) = Resource]
      <4>2. accounted \in [Slot -> BOOLEAN]
        OBVIOUS
      <4>3. slots' = [s \in Slot |-> [Empty EXCEPT !.owns = kept[s], !.accounted = accounted[s]]]
        BY <4>1, Zenon
      <4>4. QED BY <4>2, <4>3
    <3>2. \A s \in Slot : slots'[s] = New(kept[s], accounted[s])
      BY <3>1 DEF New
    <3>3. ASSUME NEW s \in Slot
          PROVE  slots'[s] \in SlotType /\ ~slots'[s].active /\ slots'[s].phase = "idle"
      <4>1. kept[s] \in SUBSET Resource /\ accounted[s] \in BOOLEAN
        OBVIOUS
      <4>2. QED BY <1>3, <3>2, <4>1
    <3>4. QED BY <3>1, <3>3
  <2>2. PICK module, cleanup \in BOOLEAN :
          pipe' = [pipe EXCEPT !.module = module, !.cleanup = cleanup]
    BY <1>5 DEF SetupFails, AllReleased
  <2>3. /\ pipe' \in PipeType /\ ~pipe'.quarantined /\ ~pipe'.closing /\ ~pipe'.closed
        /\ ~pipe'.setup /\ pipe'.operation = pipe.operation
        /\ pipe'.exhausted = pipe.exhausted
    BY <1>1, <1>2, <2>2 DEF Calling, PipelineInv, Types, PipeType
  <2>4. QED BY <1>1, <1>2, <2>1, <2>3, OwningKeeps DEF ClosedHoldsNothing
<1>6. QED BY <1>4, <1>5

LEMMA CloseCleansUpKeeps ==
  ASSUME PipelineInv, CloseCleansUp
  PROVE  PipelineInv'
<1>1. /\ ~pipe.quarantined /\ ~pipe.closed /\ \A s \in Slot : ~slots[s].active
      /\ UNCHANGED <<stream, events, issued, open, dirty>>
  BY DEF CloseCleansUp, Active, PipelineInv, LifeFits
<1>2. PICK kept \in [Slot -> SUBSET Resource], module \in BOOLEAN :
        /\ slots' = [s \in Slot |->
             IF kept[s] = {} THEN [slots[s] EXCEPT !.owns = {}, !.accounted = FALSE]
             ELSE [slots[s] EXCEPT !.owns = kept[s]]]
        /\ LET clean == AllReleased(kept) /\ ~module IN
             pipe' = [pipe EXCEPT !.module = module, !.cleanup = ~clean, !.setup = FALSE,
                                  !.closing = FALSE, !.closed = clean]
  BY DEF CloseCleansUp, Cleanup
<1>3. ASSUME NEW s \in Slot
      PROVE  /\ slots'[s] \in SlotType /\ ~slots'[s].active /\ slots'[s].phase = "idle"
             /\ slots'[s].generation = slots[s].generation
             /\ kept[s] = {} => slots'[s].owns = {} /\ ~slots'[s].accounted
  <2>1. slots[s] \in SlotType /\ slots[s].phase = "idle" /\ ~slots[s].active
    BY <1>1 DEF PipelineInv, Types, SlotsFit
  <2>2. CASE kept[s] = {}
    BY <1>2, <2>1, <2>2 DEF SlotType
  <2>3. CASE kept[s] # {}
    BY <1>2, <2>1, <2>3 DEF SlotType
  <2>4. QED BY <2>2, <2>3
<1>4. slots' \in [Slot -> SlotType]
  BY <1>2, <1>3
<1>5. /\ pipe' \in PipeType /\ ~pipe'.quarantined /\ ~pipe'.closing /\ ~pipe'.setup
      /\ pipe'.operation = pipe.operation /\ pipe'.exhausted = pipe.exhausted
      /\ pipe'.closed \/ pipe'.cleanup
      /\ pipe'.closed => AllReleased(kept) /\ ~pipe'.module
  BY <1>1, <1>2 DEF PipelineInv, Types, PipeType, AllReleased
<1>6. ClosedHoldsNothing'
  BY <1>3, <1>5 DEF ClosedHoldsNothing, AllReleased
<1>7. QED BY <1>1, <1>3, <1>4, <1>5, <1>6, OwningKeeps

LEMMA DeviceKeeps ==
  ASSUME PipelineInv, NEW s \in Slot, DeviceStep(s)
  PROVE  PipelineInv'
<1>1. /\ stream[s] # <<>> /\ stream' = [stream EXCEPT ![s] = Tail(@)]
      /\ UNCHANGED <<slots, pipe, events, issued, open, dirty>>
  BY DEF DeviceStep
<1>2. /\ Types' /\ stream'[s] = Tail(stream[s])
      /\ \A r \in Slot \ {s} : stream'[r] = stream[r]
  BY <1>1 DEF PipelineInv, Types
<1>3. StreamsFit'
  <2>1. ASSUME ~pipe.quarantined PROVE stream'[s] \in Shapes(slots[s].phase)
    <3>1. /\ slots[s].phase \in EventPhase
          /\ stream[s] \in {<<"work", "event">>, <<"event">>}
      BY <1>1, <2>1 DEF PipelineInv, StreamsFit, Shapes
    <3>2. Tail(<<"work", "event">>) = <<"event">> /\ Tail(<<"event">>) = <<>>
      OBVIOUS
    <3>3. QED BY <1>2, <3>1, <3>2 DEF Shapes
  <2>2. QED BY <1>1, <1>2, <2>1 DEF PipelineInv, StreamsFit
<1>4. NoReleaseInFlight'
  BY <1>1, <1>2 DEF PipelineInv, NoReleaseInFlight
<1>5. LifeFits' /\ SlotsFit' /\ ExhaustionFits' /\ TicketsFit'
  BY <1>1 DEF PipelineInv, LifeFits, SlotsFit, ExhaustionFits, TicketsFit, Held
<1>6. EventsMatch' /\ ClosedHoldsNothing' /\ TicketsAreUnique'
  BY <1>1 DEF PipelineInv, EventsMatch, ClosedHoldsNothing, TicketsAreUnique
<1>7. QED BY <1>2, <1>3, <1>4, <1>5, <1>6 DEF PipelineInv

(* decode() and encode() find no slot, or no identifier.                   *)
LEMMA RefusedKeeps ==
  ASSUME PipelineInv, Operational, Offsets = {} \/ pipe.operation = 0,
         pipe' = [pipe EXCEPT !.exhausted =
                    ExhaustedAfter(IF Offsets = {} THEN Slot ELSE 0..(Min(Offsets) - 1))],
         UNCHANGED <<slots, stream, events, issued, open, dirty>>
  PROVE  PipelineInv'
<1>1. /\ pipe' \in PipeType /\ pipe'.setup = pipe.setup /\ pipe'.closed = pipe.closed
      /\ pipe'.cleanup = pipe.cleanup /\ pipe'.quarantined = pipe.quarantined
      /\ pipe'.closing = pipe.closing /\ pipe'.operation = pipe.operation
      /\ pipe'.module = pipe.module
      /\ pipe'.exhausted = ExhaustedAfter(IF Offsets = {} THEN Slot ELSE 0..(Min(Offsets) - 1))
  BY DEF PipelineInv, Types, PipeType, ExhaustedAfter
<1>2. ExhaustionFits'
  <2>1. CASE pipe.operation = 0
    BY <1>1, <2>1 DEF ExhaustionFits, Operational
  <2>2. CASE Offsets = {} /\ pipe'.exhausted
    <3>1. \A o \in Slot : ~slots[Nth(o)].active /\ ~Usable(Nth(o))
      BY <1>1, <2>2 DEF ExhaustedAfter, Offsets
    <3>2. \A s \in Slot : ~slots[s].active /\ ~Usable(s)
      BY <3>1, NthIsSlot DEF PipelineInv, Types, PipeType
    <3>3. \A s \in Slot : slots[s].generation = MaxGeneration
      BY <3>2, PipelineAssumption DEF Usable, PipelineInv, Types, SlotType
    <3>4. QED BY <1>1, <3>2, <3>3 DEF ExhaustionFits, Operational
  <2>3. QED BY <2>1, <2>2 DEF ExhaustionFits
<1>3. Types' /\ LifeFits' /\ SlotsFit' /\ StreamsFit' /\ TicketsFit'
  BY <1>1 DEF PipelineInv, Types, LifeFits, SlotsFit, StreamsFit, TicketsFit, Held
<1>4. NoReleaseInFlight' /\ EventsMatch' /\ ClosedHoldsNothing' /\ TicketsAreUnique'
  BY <1>1 DEF PipelineInv, NoReleaseInFlight, EventsMatch, ClosedHoldsNothing,
     TicketsAreUnique
<1>5. QED BY <1>2, <1>3, <1>4 DEF PipelineInv

(* The operation that decode() and encode() begin: its slot, its ticket    *)
(* and what becomes of the pipeline.                                       *)
Begun(s, t, p) ==
  /\ s \in Slot /\ ~slots[s].active
  /\ t \in Ticket /\ t.slot = s /\ t.op = pipe.operation
  /\ p \in PipeType /\ ~p.exhausted /\ p.setup /\ ~p.closed /\ ~p.cleanup /\ ~p.closing
  /\ ~p.quarantined /\ p.operation \in {0, pipe.operation + 1}

LEMMA BegunFacts ==
  ASSUME PipelineInv, Calling, Operational, NEW kind \in Kind,
         Offsets # {}, pipe.operation # 0
  PROVE  LET s == Nth(Min(Offsets))
             t == [op |-> pipe.operation, generation |-> slots[s].generation + 1, slot |-> s,
                   kind |-> kind]
             p == [pipe EXCEPT !.operation = NextOperation(@),
                               !.next = (s + 1) % SlotCount, !.exhausted = FALSE]
         IN Begun(s, t, p)
<1> DEFINE s == Nth(Min(Offsets))
<1>1. Min(Offsets) \in Offsets
  BY MinIsMember, SlotFacts DEF Offsets
<1>2. s \in Slot /\ Usable(s)
  BY <1>1, NthIsSlot DEF Offsets, PipelineInv, Types, PipeType
<1> HIDE DEF s
<1>3. slots[s].generation + 1 \in 1..MaxGeneration /\ ~slots[s].active
  BY <1>2, PipelineAssumption DEF Usable, PipelineInv, Types, SlotType
<1>4. pipe.operation \in 1..MaxOperation
  BY PipelineAssumption DEF PipelineInv, Types, PipeType
<1>5. (s + 1) % SlotCount \in Slot
  BY <1>2, SlotFacts
<1>6. NextOperation(pipe.operation) \in 0..MaxOperation
      /\ NextOperation(pipe.operation) \in {0, pipe.operation + 1}
  BY <1>4, PipelineAssumption DEF NextOperation
<1> DEFINE p == [pipe EXCEPT !.operation = NextOperation(@),
                             !.next = (s + 1) % SlotCount, !.exhausted = FALSE]
<1>7. /\ p \in PipeType /\ ~p.exhausted /\ p.setup /\ ~p.closed /\ ~p.cleanup /\ ~p.closing
      /\ ~p.quarantined /\ p.operation \in {0, pipe.operation + 1}
  BY <1>5, <1>6 DEF PipelineInv, Types, LifeFits, PipeType, Calling, Operational
<1> DEFINE t == [op |-> pipe.operation, generation |-> slots[s].generation + 1, slot |-> s,
                 kind |-> kind]
<1>8. t \in Ticket /\ t.slot = s /\ t.op = pipe.operation
  BY <1>2, <1>3, <1>4 DEF Ticket
<1>9. Begun(s, t, p)
  BY <1>2, <1>3, <1>7, <1>8 DEF Begun
<1>10. QED BY <1>9 DEF s

(* Nothing was submitted, or the stream is idle again: the slot is as it   *)
(* was, a generation older.                                                *)
LEMMA NothingSubmittedKeeps ==
  ASSUME PipelineInv, Operational, NEW s, NEW t, NEW p, Begun(s, t, p),
         NothingSubmitted(s, t) \/ PartlySubmitted(s, t), pipe' = p, UNCHANGED dirty
  PROVE  PipelineInv'
<1>1. /\ slots[s] \in SlotType /\ slots[s].phase = "idle" /\ stream[s] = <<>>
      /\ slots \in [Slot -> SlotType] /\ s \in Slot /\ t \in Ticket /\ ~slots[s].active
  BY DEF PipelineInv, Types, SlotsFit, StreamsFit, Shapes, EventPhase, Operational, Begun
<1>2. UNCHANGED <<stream, events, open, issued, dirty>>
  <2>1. CASE PartlySubmitted(s, t)
    <3>1. stream' \in [Slot -> {<<>>, <<"work">>}] /\ \A r \in Slot : stream'[r] = stream[r]
      BY <1>1, <2>1 DEF PartlySubmitted, Synchronized
    <3>2. stream' = stream
      BY <3>1 DEF PipelineInv, Types
    <3>3. QED BY <2>1, <3>2 DEF PartlySubmitted
  <2>2. QED BY <2>1 DEF NothingSubmitted
<1>3. slots' = [slots EXCEPT ![s] = Reset(Fresh(slots[s], t))]
  BY DEF NothingSubmitted, PartlySubmitted
<1>4. Fresh(slots[s], t) \in SlotType /\ Fresh(slots[s], t).owns = slots[s].owns
  <2>1. "decode_event" \in Phase \ {"idle"}
    BY DEF Phase
  <2>2. QED BY <1>1, <2>1, FreshFacts
<1>5. /\ slots' \in [Slot -> SlotType] /\ \A r \in Slot \ {s} : slots'[r] = slots[r]
      /\ ~slots'[s].active /\ slots'[s].phase = "idle" /\ slots'[s].owns = slots[s].owns
  BY <1>1, <1>3, <1>4, ResetFacts
<1>6. /\ pipe' \in PipeType /\ ~pipe'.exhausted /\ pipe'.setup /\ ~pipe'.closed
      /\ ~pipe'.cleanup /\ ~pipe'.closing /\ ~pipe'.quarantined
      /\ pipe'.operation \in {0, pipe.operation + 1}
  BY DEF Begun
<1>7. EventsMatch'
  <2>1. Cardinality(Waiting') = Cardinality(Waiting)
    BY <1>1, <1>5, WaitingChanges DEF Counts
  <2>2. QED BY <1>2, <2>1 DEF PipelineInv, EventsMatch, Waiting, Operational
<1>8. Types'
  BY <1>2, <1>5, <1>6 DEF PipelineInv, Types
<1>9. LifeFits'
  BY <1>5, <1>6 DEF PipelineInv, LifeFits, Operational
<1>10. SlotsFit' /\ StreamsFit'
  BY <1>1, <1>2, <1>5 DEF PipelineInv, SlotsFit, StreamsFit, Operational
<1>11. NoReleaseInFlight' /\ ClosedHoldsNothing' /\ TicketsAreUnique' /\ ExhaustionFits'
  BY <1>2, <1>5, <1>6 DEF PipelineInv, NoReleaseInFlight, ClosedHoldsNothing,
     TicketsAreUnique, ExhaustionFits
<1>12. TicketsFit'
  <2>1. ASSUME NEW u \in Ticket, Held(u) PROVE Held(u)' /\ slots'[u.slot] = slots[u.slot]
    BY <1>1, <1>5, <2>1 DEF Held, Ticket
  <2>2. \A u \in open' : Held(u)'
    BY <1>2, <2>1 DEF PipelineInv, TicketsFit, Types, Operational
  <2>3. \A u \in dirty' : Held(u)' /\ slots'[u.slot].phase = "encode_ready"
    BY <1>2, <2>1 DEF PipelineInv, TicketsFit, Types, Operational
  <2>4. pipe'.operation # 0 => \A u \in issued' : u.op < pipe'.operation
    <3>1. \A u \in issued : u.op \in Nat /\ pipe.operation \in Nat
      BY DEF PipelineInv, Types, Ticket, PipeType
    <3>2. pipe.operation # 0
      BY DEF Begun, Ticket
    <3>3. QED BY <1>2, <1>6, <3>1, <3>2 DEF PipelineInv, TicketsFit
  <2>5. QED BY <2>2, <2>3, <2>4 DEF TicketsFit
<1>13. QED BY <1>7, <1>8, <1>9, <1>10, <1>11, <1>12 DEF PipelineInv

(* The operation runs, or nobody knows what was submitted and the pipeline *)
(* is quarantined.                                                         *)
LEMMA SubmittedKeeps ==
  ASSUME PipelineInv, Operational, NEW s, NEW t, NEW p, Begun(s, t, p),
         \/ FullySubmitted(s, t) /\ pipe' = p
         \/ SubmissionUnknown(s, t) /\ pipe' = Quarantine(p),
         UNCHANGED dirty
  PROVE  PipelineInv'
<1>1. /\ slots[s] \in SlotType /\ slots[s].phase = "idle" /\ stream[s] = <<>>
      /\ slots \in [Slot -> SlotType] /\ s \in Slot /\ t \in Ticket /\ t.slot = s
      /\ ~slots[s].active /\ stream \in [Slot -> Seq({"work", "event"})]
  BY DEF PipelineInv, Types, SlotsFit, StreamsFit, Shapes, EventPhase, Operational, Begun
<1>2. PICK phase \in {"decode_event", "encode_codec_event"} :
        slots' = [slots EXCEPT ![s] = [Fresh(slots[s], t) EXCEPT !.phase = phase]]
  BY DEF FullySubmitted, SubmissionUnknown, FirstPhase
<1>3. phase \in Phase \ {"idle"} /\ phase \in EventPhase
  BY DEF Phase, EventPhase
<1>4. /\ slots' \in [Slot -> SlotType] /\ \A r \in Slot \ {s} : slots'[r] = slots[r]
      /\ slots'[s].active /\ slots'[s].phase = phase /\ slots'[s].owns = slots[s].owns
      /\ slots'[s].ticket = t
  <2> DEFINE y == [Fresh(slots[s], t) EXCEPT !.phase = phase]
  <2>1. /\ y \in SlotType /\ y.active /\ y.phase = phase /\ y.owns = slots[s].owns
        /\ y.ticket = t
    BY <1>1, <1>3, FreshFacts
  <2>2. slots' = [slots EXCEPT ![s] = y]
    BY <1>2
  <2> HIDE DEF y
  <2>3. QED BY <1>1, <2>1, <2>2
<1>5. /\ stream'[s] \in {<<"work", "event">>, <<"work">>}
      /\ FullySubmitted(s, t) => stream'[s] = <<"work", "event">>
      /\ stream' \in [Slot -> Seq({"work", "event"})]
      /\ \A r \in Slot \ {s} : stream'[r] = stream[r]
  <2> DEFINE full == stream[s] \o <<"work", "event">>
             part == Append(stream[s], "work")
  <2>1. full = <<"work", "event">> /\ part = <<"work">>
    BY <1>1
  <2>2. <<"work", "event">> \in Seq({"work", "event"}) /\ <<"work">> \in Seq({"work", "event"})
    OBVIOUS
  <2>3. /\ FullySubmitted(s, t) => stream' = [stream EXCEPT ![s] = full]
        /\ SubmissionUnknown(s, t) => stream' = [stream EXCEPT ![s] = part]
    BY DEF FullySubmitted, SubmissionUnknown
  <2> HIDE DEF full, part
  <2>4. /\ full \in Seq({"work", "event"}) /\ part \in Seq({"work", "event"})
        /\ stream' \in {[stream EXCEPT ![s] = full], [stream EXCEPT ![s] = part]}
    BY <2>1, <2>2, <2>3
  <2>5. /\ stream'[s] \in {full, part} /\ stream' \in [Slot -> Seq({"work", "event"})]
        /\ \A r \in Slot \ {s} : stream'[r] = stream[r]
    BY <1>1, <2>4
  <2>6. FullySubmitted(s, t) => stream'[s] = full
    BY <1>1, <2>3
  <2>7. QED BY <2>1, <2>5, <2>6
<1>6. /\ pipe' \in PipeType /\ ~pipe'.exhausted /\ pipe'.setup /\ ~pipe'.closed
      /\ ~pipe'.cleanup /\ ~pipe'.closing /\ pipe'.operation \in {0, pipe.operation + 1}
      /\ ~pipe'.quarantined => FullySubmitted(s, t)
  <2>1. /\ p \in PipeType /\ ~p.exhausted /\ p.setup /\ ~p.closed /\ ~p.cleanup /\ ~p.closing
        /\ p.operation \in {0, pipe.operation + 1}
    BY DEF Begun
  <2>2. CASE FullySubmitted(s, t) /\ pipe' = p
    BY <2>1, <2>2
  <2>3. CASE pipe' = Quarantine(p)
    BY <2>1, <2>3 DEF Quarantine, PipeType
  <2>4. QED BY <2>2, <2>3
<1>7. /\ pipe.operation \in Nat \ {0} /\ t.op = pipe.operation
      /\ \A u \in issued : u.op \in Nat /\ u.op < pipe.operation
  BY DEF Begun, Ticket, PipelineInv, Types, TicketsFit
<1>8. /\ issued' \in {issued, issued \union {t}} /\ open' \in SUBSET (open \union {t})
      /\ open' \subseteq issued' /\ UNCHANGED dirty
  BY DEF FullySubmitted, SubmissionUnknown, PipelineInv, Types
<1>9. EventsMatch' /\ events' \in Nat
  <2>1. Cardinality(Waiting') = Cardinality(Waiting) + 1 /\ Cardinality(Waiting) \in Nat
    <3>1. slots'[s].phase \in EventPhase /\ slots[s].phase \notin EventPhase
      BY <1>1, <1>3, <1>4 DEF EventPhase
    <3>2. Counts(slots'[s].phase \in EventPhase) = 1 /\ Counts(slots[s].phase \in EventPhase) = 0
      BY <3>1 DEF Counts
    <3>3. Cardinality(Waiting) \in Nat
          /\ Cardinality(Waiting') = Cardinality(Waiting)
               + Counts(slots'[s].phase \in EventPhase) - Counts(slots[s].phase \in EventPhase)
      BY <1>1, <1>4, WaitingChanges
    <3>4. QED BY <3>2, <3>3
  <2>2. events = Cardinality(Waiting)
    BY DEF PipelineInv, EventsMatch, Waiting, Operational
  <2>3. FullySubmitted(s, t) => events' = Cardinality(Waiting')
    BY <2>1, <2>2 DEF FullySubmitted
  <2>4. events' \in Nat
    BY <2>1, <2>2 DEF FullySubmitted, SubmissionUnknown
  <2>5. QED BY <1>6, <2>3, <2>4 DEF EventsMatch, Waiting
<1>10. Types'
  BY <1>1, <1>4, <1>5, <1>6, <1>8, <1>9 DEF PipelineInv, Types
<1>11. LifeFits'
  BY <1>4, <1>6 DEF PipelineInv, LifeFits, Operational
<1>12. SlotsFit'
  BY <1>1, <1>3, <1>4 DEF PipelineInv, SlotsFit
<1>13. StreamsFit'
  <2>1. ~pipe'.quarantined => stream'[s] \in Shapes(slots'[s].phase)
    BY <1>3, <1>4, <1>5, <1>6 DEF Shapes
  <2>2. QED BY <1>4, <1>5, <2>1 DEF PipelineInv, StreamsFit, Operational
<1>14. NoReleaseInFlight'
  BY <1>1, <1>4, <1>5 DEF PipelineInv, LifeFits, NoReleaseInFlight, Operational
<1>15. TicketsFit'
  <2>1. ASSUME NEW u \in Ticket, Held(u) PROVE Held(u)' /\ slots'[u.slot] = slots[u.slot]
    BY <1>1, <1>4, <2>1 DEF Held, Ticket
  <2>2. Held(t)'
    BY <1>1, <1>4 DEF Held
  <2>3. \A u \in open' : Held(u)'
    BY <1>8, <2>1, <2>2 DEF PipelineInv, TicketsFit, Types, Operational
  <2>4. \A u \in dirty' : Held(u)' /\ slots'[u.slot].phase = "encode_ready"
    BY <1>8, <2>1 DEF PipelineInv, TicketsFit, Types, Operational
  <2>5. pipe'.operation # 0 => \A u \in issued' : u.op < pipe'.operation
    BY <1>6, <1>7, <1>8
  <2>6. QED BY <2>3, <2>4, <2>5 DEF TicketsFit
<1>16. TicketsAreUnique'
  BY <1>7, <1>8 DEF PipelineInv, TicketsAreUnique
<1>17. ClosedHoldsNothing' /\ ExhaustionFits'
  BY <1>6 DEF ClosedHoldsNothing, ExhaustionFits
<1>18. QED
  BY <1>9, <1>10, <1>11, <1>12, <1>13, <1>14, <1>15, <1>16, <1>17 DEF PipelineInv

LEMMA SubmitKeeps ==
  ASSUME PipelineInv, NEW kind \in Kind, Submit(kind)
  PROVE  PipelineInv'
<1>1. Calling /\ Operational /\ UNCHANGED dirty
  BY DEF Submit
<1>2. CASE Offsets = {} \/ pipe.operation = 0
  BY <1>1, <1>2, RefusedKeeps DEF Submit
<1>3. CASE Offsets # {} /\ pipe.operation # 0
  <2> DEFINE s == Nth(Min(Offsets))
             t == [op |-> pipe.operation, generation |-> slots[s].generation + 1, slot |-> s,
                   kind |-> kind]
             p == [pipe EXCEPT !.operation = NextOperation(@),
                               !.next = (s + 1) % SlotCount, !.exhausted = FALSE]
  <2>1. \/ NothingSubmitted(s, t) /\ pipe' = p
        \/ PartlySubmitted(s, t) /\ pipe' = p
        \/ FullySubmitted(s, t) /\ pipe' = p
        \/ SubmissionUnknown(s, t) /\ pipe' = Quarantine(p)
    BY <1>3 DEF Submit
  <2>2. Begun(s, t, p)
    BY <1>1, <1>3, BegunFacts
  <2> HIDE DEF s, t, p
  <2>3. QED BY <1>1, <2>1, <2>2, NothingSubmittedKeeps, SubmittedKeeps
<1>4. QED BY <1>2, <1>3

-----------------------------------------------------------------------------
LEMMA PipelineInvInit == PipelineInit => PipelineInv
<1> SUFFICES ASSUME PipelineInit PROVE PipelineInv
  OBVIOUS
<1>1. Empty \in SlotType /\ ~Empty.active /\ Empty.phase = "idle"
  BY PipelineAssumption DEF Empty, SlotType, Phase
<1>2. \A s \in Slot : slots[s] = Empty /\ stream[s] = <<>>
  BY DEF PipelineInit
<1>3. pipe \in PipeType /\ ~pipe.setup /\ ~pipe.closed /\ ~pipe.quarantined /\ ~pipe.exhausted
      /\ ~pipe.closing
  BY PipelineAssumption, SlotFacts DEF PipelineInit, PipeType
<1>4. Types
  <2>1. slots \in [Slot -> SlotType] /\ stream \in [Slot -> Seq({"work", "event"})]
    BY <1>1 DEF PipelineInit
  <2>2. QED BY <1>3, <2>1 DEF PipelineInit, Types
<1>5. LifeFits /\ SlotsFit /\ StreamsFit /\ TicketsFit /\ ExhaustionFits
  BY <1>1, <1>2, <1>3 DEF LifeFits, SlotsFit, StreamsFit, Shapes, EventPhase, TicketsFit,
     ExhaustionFits, PipelineInit
<1>6. EventsMatch
  <2>1. {s \in Slot : slots[s].phase \in EventPhase} = {}
    BY <1>1, <1>2 DEF EventPhase
  <2>2. QED BY <2>1, FS_EmptySet DEF EventsMatch, PipelineInit
<1>7. NoReleaseInFlight /\ ClosedHoldsNothing /\ TicketsAreUnique
  BY <1>2, <1>3 DEF NoReleaseInFlight, ClosedHoldsNothing, TicketsAreUnique, PipelineInit
<1>8. QED BY <1>4, <1>5, <1>6, <1>7 DEF PipelineInv

LEMMA PipelineInvStep == PipelineInv /\ [PipelineNext]_pipelineVars => PipelineInv'
<1> SUFFICES ASSUME PipelineInv, [PipelineNext]_pipelineVars PROVE PipelineInv'
  OBVIOUS
<1>1. CASE SetupCompletes \/ SetupFails
  BY <1>1, SetupKeeps
<1>2. CASE Decode \/ Encode
  BY <1>2, SubmitKeeps DEF Decode, Encode, Kind
<1>3. CASE Poll
  BY <1>3, PollKeeps
<1>4. CASE Acknowledge
  BY <1>4, AcknowledgeKeeps
<1>5. CASE QuarantineUncommitted
  BY <1>5, QuarantineUncommittedKeeps
<1>6. CASE CloseBegins
  BY <1>6, CloseBeginsKeeps
<1>7. CASE CloseDrains
  BY <1>7, CloseDrainsKeeps
<1>8. CASE CloseCleansUp
  BY <1>8, CloseCleansUpKeeps
<1>9. CASE \E s \in Slot : DeviceStep(s)
  BY <1>9, DeviceKeeps
<1>10. CASE UNCHANGED pipelineVars
  BY <1>10 DEF pipelineVars, PipelineInv, Types, LifeFits, SlotsFit, StreamsFit, TicketsFit,
     Held, ExhaustionFits, NoReleaseInFlight, EventsMatch, ClosedHoldsNothing, TicketsAreUnique
<1>11. QED
  BY <1>1, <1>2, <1>3, <1>4, <1>5, <1>6, <1>7, <1>8, <1>9, <1>10 DEF PipelineNext

LEMMA PipelineInvSafe == PipelineInv => PipelineSafe
<1> SUFFICES ASSUME PipelineInv PROVE PipelineSafe
  OBVIOUS
<1>1. PipelineTypeOK
  BY DEF PipelineInv, Types, SlotsFit, SlotType, PipeType, PipelineTypeOK
<1>2. NoReuseInFlight
  BY DEF PipelineInv, StreamsFit, SlotsFit, Shapes, EventPhase, NoReuseInFlight
<1>3. OpenTicketsAreValid
  BY DEF PipelineInv, TicketsFit, OpenTicketsAreValid, Operational
<1>4. DirtyCandidateKept
  BY DEF PipelineInv, TicketsFit, DirtyCandidateKept
<1>5. QED BY <1>1, <1>2, <1>3, <1>4 DEF PipelineInv, PipelineSafe

(* For every number of slots and every width of the counters: a slot is    *)
(* not given back nor its memory released while the GPU may use it, an     *)
(* issued ticket finds its operation and no other, a verified candidate is *)
(* not dropped before the host has the content, and a pipeline that says   *)
(* it is closed holds nothing (nvcomp_pipeline.cpp).                       *)
THEOREM PipelineIsSafe == PipelineSpec => []PipelineSafe
<1>1. PipelineSpec => []PipelineInv
  BY PipelineInvInit, PipelineInvStep, PTL DEF PipelineSpec
<1>2. QED BY <1>1, PipelineInvSafe, PTL

(* resource_exhausted is final: once decode() or encode() reported it, no  *)
(* later call begins an operation.                                         *)
THEOREM ExhaustionIsFinal == PipelineSpec => [][ExhaustedIsFinal]_pipelineVars
<1>1. PipelineInv /\ PipelineNext => ExhaustedIsFinal
  <2> SUFFICES ASSUME PipelineInv, PipelineNext, pipe.exhausted
               PROVE  pipe'.operation = pipe.operation
    BY DEF ExhaustedIsFinal
  <2>1. CASE \E kind \in Kind : Submit(kind)
    <3>1. PICK kind \in Kind : Submit(kind)
      BY <2>1
    <3>2. CASE Offsets = {} \/ pipe.operation = 0
      BY <3>1, <3>2 DEF Submit, PipelineInv, Types, PipeType
    <3>3. CASE Offsets # {} /\ pipe.operation # 0
      <4>1. \A s \in Slot : slots[s].generation = MaxGeneration
        BY <3>3 DEF PipelineInv, ExhaustionFits
      <4>2. PICK o \in Slot : Nth(o) \in Slot /\ slots[Nth(o)].generation < MaxGeneration
        BY <3>3, NthIsSlot DEF Offsets, Usable, PipelineInv, Types, PipeType
      <4>3. QED BY <4>1, <4>2, PipelineAssumption
    <3>4. QED BY <3>2, <3>3
  <2>2. CASE ~(\E kind \in Kind : Submit(kind))
    <3>1. pipe \in PipeType
      BY DEF PipelineInv, Types
    <3>2. Quarantine(pipe).operation = pipe.operation
      BY <3>1 DEF Quarantine, PipeType
    <3>3. CASE SetupCompletes \/ SetupFails
      BY <3>1, <3>3 DEF SetupCompletes, SetupFails, PipeType
    <3>4. CASE Poll
      BY <3>2, <3>4 DEF Poll, PollSlot, Redeliver, Unknown, FinishDecode, EncodeRejected,
         BeginTransfer, TransferUnknown, TransferRejected, TransferVerified
    <3>5. CASE Acknowledge \/ QuarantineUncommitted
      BY <3>2, <3>5 DEF Acknowledge, QuarantineUncommitted
    <3>6. CASE CloseBegins
      BY <3>1, <3>6 DEF CloseBegins, PipeType
    <3>7. CASE CloseDrains
      <4>1. Abandon => pipe'.operation = pipe.operation
        BY <3>1 DEF Abandon, Quarantine, PipeType
      <4>2. QED
        BY <3>7, <4>1 DEF CloseDrains, KeepReady, FinishDecode, EncodeRejected, BeginTransfer,
           TransferRejected, TransferVerified
    <3>8. CASE CloseCleansUp
      BY <3>1, <3>8 DEF CloseCleansUp, Cleanup, PipeType
    <3>9. CASE \E s \in Slot : DeviceStep(s)
      BY <3>9 DEF DeviceStep
    <3>10. QED
      BY <2>2, <3>3, <3>4, <3>5, <3>6, <3>7, <3>8, <3>9 DEF PipelineNext, Decode, Encode, Kind
  <2>3. QED BY <2>1, <2>2
<1>2. QED BY <1>1, PipelineInvInit, PipelineInvStep, PTL DEF PipelineSpec
=============================================================================
