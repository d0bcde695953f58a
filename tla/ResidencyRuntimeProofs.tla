----------------------- MODULE ResidencyRuntimeProofs -----------------------
(***************************************************************************)
(* Theorems about the residency runtime that hold for any number of        *)
(* chunks, allocations, frames and staging slots, and their proofs: the    *)
(* types, and that nothing is admitted once the runtime is poisoned.       *)
(***************************************************************************)
EXTENDS ResidencyRuntime, WellFoundedInduction, SequenceTheorems, TLAPS

-----------------------------------------------------------------------------
(* The least element of a set of natural numbers. *)

(* Plans are walked in the order of their chunks, and a failed call goes   *)
(* to its first handler: both take the least element of a non-empty set.   *)
LEMMA LeastElement ==
  ASSUME NEW S \in SUBSET Nat, S # {}
  PROVE  Least(S) \in S /\ \A y \in S : Least(S) <= y
<1> DEFINE R == OpToRel(<, Nat)
<1>1. IsWellFoundedOn(R, Nat)
  BY NatLessThanWellFounded
<1>2. ASSUME NEW x \in Nat, NEW y \in Nat, y < x PROVE <<y, x>> \in R
  BY <1>2 DEF OpToRel
<1> HIDE DEF R
<1>3. \E x \in S : \A y \in S : ~ (<<y, x>> \in R)
  BY <1>1, WFMin
<1>4. \E x \in S : \A y \in S : x <= y
  <2>1. PICK x \in S : \A y \in S : ~ (<<y, x>> \in R)
    BY <1>3
  <2>2. \A y \in S : ~ (y < x)
    BY <1>2, <2>1
  <2>3. x \in Nat /\ \A y \in S : y \in Nat
    OBVIOUS
  <2> HIDE <1>2
  <2>4. \A y \in S : x <= y
    BY <2>2, <2>3
  <2> QED BY <2>4
<1> QED BY <1>4 DEF Least

-----------------------------------------------------------------------------
(* allocate() asks the driver for one chunk more than it maps. Wherever the *)
(* reservation lies, as long as it ends within the addresses of the machine *)
(* word, the aligned base and the range behind it are inside it and no sum  *)
(* overflows: the rollback of an unaligned reservation is never reached.    *)
LEMMA PaddedReservationFits ==
  ASSUME NEW base \in Nat, NEW mapped \in Nat, NEW bytes \in Nat \ {0}, NEW word \in Nat,
         base + (mapped + bytes) < word
  PROVE  /\ base <= AlignUp(base, bytes)
         /\ AlignUp(base, bytes) + mapped <= base + (mapped + bytes)
         /\ AlignUp(base, bytes) + mapped < word
<1>1. base % bytes \in 0..(bytes - 1)
  OBVIOUS
<1> QED BY <1>1 DEF AlignUp

-----------------------------------------------------------------------------
(* The task list of a call. *)

LoopDo == {"ensure", "pin", "prepare", "unmapIfClean", "writebackIfDirty",
           "catch", "dropDirty", "invalidate", "put", "get"}
KeyDo == LoopDo \union {"h2d", "retireH2d", "unmap", "writeback"}
FrameDo == {"create", "createRetry", "dropFrame", "setCapacity", "setCapacityFor",
            "closeFrame", "closeCheck"}
PlainDo == {"refresh", "forceRefresh", "checkCapacity", "workspace", "arm", "rollback",
            "dropSpills", "poll", "wait", "finishLease", "checkSources", "erase",
            "abandon", "closeEnd", "fail"}

KeyTasks == [do: KeyDo, key: Key]
FrameTasks == [do: FrameDo, frame: Nat]
MapTasks == [do: {"map"}, key: Key, frame: Frame]
PlainTasks == [do: PlainDo]
Loops == [do: {"forEach"}, keys: (SUBSET Key) \ {{}}, steps: Seq(LoopDo)]

(* What may wait in the list behind its first task: anything but the       *)
(* completion of a copy to the host, which is executed where it was put.   *)
Queued == KeyTasks \union FrameTasks \union MapTasks \union PlainTasks \union Loops
Tasks == Queued \union [do: {"d2h"}, key: Key]

LEMMA TaskTypes ==
  /\ \A do \in KeyDo, k \in Key : KeyTask(do, k) \in Queued
  /\ \A do \in FrameDo, f \in Nat : FrameTask(do, f) \in Queued
  /\ \A k \in Key, f \in Frame : MapTask(k, f) \in Queued
  /\ \A do \in PlainDo : Task(do) \in Queued
  /\ \A k \in Key : KeyTask("d2h", k) \in Tasks
BY DEF Queued, Tasks, KeyTasks, FrameTasks, MapTasks, PlainTasks, KeyTask, FrameTask, MapTask, Task

LEMMA TaskFields ==
  ASSUME NEW t \in Tasks
  PROVE  /\ t.do \in KeyDo \union {"d2h", "map"} => t.key \in Key
         /\ t.do = "map" => t.frame \in Frame
         /\ t.do \in FrameDo => t.frame \in Nat
         /\ t.do = "forEach" => t \in Loops
         /\ t \in Queued <=> t.do # "d2h"
BY DEF Queued, Tasks, KeyTasks, FrameTasks, MapTasks, PlainTasks, Loops, KeyDo, LoopDo, FrameDo, PlainDo

LEMMA ForEachType ==
  ASSUME NEW K \in SUBSET Key, NEW steps \in Seq(LoopDo)
  PROVE  /\ ForEach(K, steps) \in Seq(Queued)
         /\ K # {} => ForEach(K, steps) # << >>
<1> DEFINE loop == [do |-> "forEach", keys |-> K, steps |-> steps]
<1>1. CASE K = {}
  BY <1>1 DEF ForEach
<1>2. CASE K # {}
  <2>1. loop \in Queued
    BY <1>2 DEF Queued, Loops
  <2> HIDE DEF loop
  <2>2. <<loop>> \in Seq(Queued) /\ <<loop>> # << >>
    BY <2>1
  <2> QED BY <1>2, <2>2 DEF ForEach, loop
<1> QED BY <1>1, <1>2

LEMMA IterationType ==
  ASSUME NEW loop \in Loops
  PROVE  Iteration(loop) \in Seq(Queued)
<1> DEFINE k == Least(loop.keys)
           first == [i \in DOMAIN loop.steps |-> KeyTask(loop.steps[i], k)]
<1>1. loop.keys \in SUBSET Key /\ loop.keys # {} /\ loop.steps \in Seq(LoopDo)
  BY DEF Loops
<1>2. k \in Key
  <2>1. loop.keys \in SUBSET Nat
    BY <1>1, RuntimeAssumption DEF Key
  <2> QED BY <1>1, <2>1, LeastElement
<1>3. first \in Seq(Queued)
  <2>1. \A i \in 1..Len(loop.steps) : KeyTask(loop.steps[i], k) \in Queued
    BY <1>1, <1>2, TaskTypes DEF KeyDo
  <2> HIDE DEF k
  <2>2. DOMAIN loop.steps = 1..Len(loop.steps) /\ Len(loop.steps) \in Nat
    BY <1>1
  <2>3. first \in [1..Len(loop.steps) -> Queued]
    BY <2>1, <2>2
  <2> QED BY <2>2, <2>3, SeqDef
<1>4. ForEach(loop.keys \ {k}, loop.steps) \in Seq(Queued)
  BY <1>1, ForEachType
<1> HIDE DEF first
<1>5. first \o ForEach(loop.keys \ {k}, loop.steps) \in Seq(Queued)
  BY <1>3, <1>4, ConcatProperties
<1> QED BY <1>5 DEF Iteration, first

LEMMA UnrolledType ==
  ASSUME NEW s \in Seq(Queued), s # << >>
  PROVE  Unrolled(s) \in Seq(Queued)
<1>1. Head(s) \in Queued /\ Tail(s) \in Seq(Queued)
  BY HeadTailProperties
<1>2. CASE Head(s).do = "forEach"
  <2>1. Head(s) \in Loops
    BY <1>1, <1>2, TaskFields DEF Tasks
  <2> QED BY <1>1, <1>2, <2>1, IterationType, ConcatProperties DEF Unrolled
<1>3. CASE Head(s).do # "forEach"
  BY <1>3 DEF Unrolled
<1> QED BY <1>2, <1>3

-----------------------------------------------------------------------------
(* The call in progress. *)

PlanSet == UNION {[S -> Mode \union {"full", "part"}] : S \in SUBSET Key}

Ops == {"none", "release", "discard", "write", "read", "prefetch", "acquire",
        "poll", "wait", "drain", "close"}
Failures == {"none", "other", "pressure"}

CallRecord == [op: Ops, todo: Seq(Tasks), failure: Failures, plan: PlanSet, val: Val]

CallOK ==
  /\ call \in CallRecord
  /\ call.todo # << >> => Tail(call.todo) \in Seq(Queued)

(* No copy to the host is waiting to be completed. *)
CallQueued == call \in CallRecord /\ call.todo \in Seq(Queued)

LEMMA QueuedInTasks ==
  ASSUME NEW s \in Seq(Queued)
  PROVE  s \in Seq(Tasks)
BY SeqMonotonic DEF Tasks

LEMMA QueuedCall ==
  ASSUME NEW c \in CallRecord, c.todo \in Seq(Queued), c.todo # << >>
  PROVE  Tail(c.todo) \in Seq(Queued) /\ Head(c.todo).do # "d2h"
<1>1. Head(c.todo) \in Queued /\ Tail(c.todo) \in Seq(Queued)
  BY HeadTailProperties
<1> QED BY <1>1, TaskFields DEF Tasks

LEMMA IdleCall == NoCall \in CallRecord /\ NoCall.todo = << >>
<1>1. << >> \in [{} -> Mode \union {"full", "part"}]
  OBVIOUS
<1>2. << >> \in PlanSet
  BY <1>1 DEF PlanSet
<1>3. Zero \in Val
  BY RuntimeAssumption
<1>4. << >> \in Seq(Tasks)
  OBVIOUS
<1> QED BY <1>2, <1>3, <1>4 DEF NoCall, CallRecord, Ops, Failures

LEMMA GotoType ==
  ASSUME CallOK, NEW s \in Seq(Queued), Goto(s)
  PROVE  CallQueued'
<1>1. CASE s = << >>
  BY <1>1, IdleCall DEF Goto, CallQueued
<1>2. CASE s # << >>
  <2>1. Unrolled(s) \in Seq(Queued) /\ Unrolled(s) \in Seq(Tasks)
    BY <1>2, UnrolledType, QueuedInTasks
  <2>2. call' = [call EXCEPT !.todo = Unrolled(s)]
    BY <1>2 DEF Goto
  <2> QED BY <2>1, <2>2 DEF CallOK, CallQueued, CallRecord
<1> QED BY <1>1, <1>2

LEMMA ContinueType ==
  ASSUME CallOK, call.todo # << >>, Continue
  PROVE  CallQueued'
BY GotoType DEF CallOK, Continue

LEMMA PushType ==
  ASSUME CallOK, call.todo # << >>, NEW s \in Seq(Queued), Push(s)
  PROVE  CallQueued'
<1>1. s \o Tail(call.todo) \in Seq(Queued)
  BY ConcatProperties DEF CallOK
<1> QED BY <1>1, GotoType DEF Push

LEMMA FailType ==
  ASSUME CallOK, call.todo # << >>, NEW status \in Failures, Fail(status)
  PROVE  CallQueued'
<1> DEFINE rest == Tail(call.todo)
           handlers == {i \in DOMAIN rest : rest[i].do \in Catch}
           from == SubSeq(rest, Least(handlers), Len(rest))
<1>1. rest \in Seq(Queued) /\ Len(rest) \in Nat /\ DOMAIN rest = 1..Len(rest)
  BY DEF CallOK
<1>2. CASE handlers = {}
  <2>1. call' = NoCall
    BY <1>2 DEF Fail
  <2> QED BY <2>1, IdleCall DEF CallQueued
<1>3. CASE handlers # {}
  <2>1. Least(handlers) \in 1..Len(rest)
    <3>1. handlers \in SUBSET (1..Len(rest))
      BY <1>1
    <3> HIDE DEF handlers, rest
    <3>2. handlers \in SUBSET Nat
      BY <3>1, <1>1
    <3> QED BY <1>3, <3>1, <3>2, LeastElement
  <2>2. from \in Seq(Queued)
    <3> HIDE DEF handlers
    <3>1. \A i \in Least(handlers)..Len(rest) : rest[i] \in Queued
      <4> HIDE DEF rest
      <4> QED BY <1>1, <2>1, ElementOfSeq
    <3> HIDE DEF rest
    <3> QED BY <1>1, <2>1, <3>1, SubSeqProperties
  <2>3. call' = [call EXCEPT !.todo = from, !.failure = status]
    BY <1>3 DEF Fail
  <2> HIDE DEF from
  <2> QED BY <2>2, <2>3, QueuedInTasks DEF CallOK, CallQueued, CallRecord
<1> QED BY <1>2, <1>3

LEMMA BeginType ==
  ASSUME NEW op \in Ops, NEW plan \in PlanSet, NEW val \in Val,
         NEW s \in Seq(Queued), s # << >>, Begin(op, plan, val, s)
  PROVE  CallQueued'
<1>1. Unrolled(s) \in Seq(Queued) /\ Unrolled(s) \in Seq(Tasks)
  BY UnrolledType, QueuedInTasks
<1>2. call' = [op |-> op, todo |-> Unrolled(s), failure |-> "none", plan |-> plan, val |-> val]
  BY DEF Begin
<1> QED BY <1>1, <1>2 DEF CallQueued, CallRecord, Failures

(* The access plans of the clients. *)
LEMMA PlanTypes ==
  /\ << >> \in PlanSet
  /\ \A a \in Alloc : KeysOf(a) \in SUBSET Key
  /\ LiveKeys \in SUBSET Key
  /\ \A K \in SUBSET Key, modes \in SUBSET (Mode \union {"full", "part"}) :
       \A plan \in Plans(K, modes) : /\ plan \in PlanSet
                                     /\ DOMAIN plan \in SUBSET Key
                                     /\ DOMAIN plan # {}
  /\ \A a \in Alloc, modes \in SUBSET (Mode \union {"full", "part"}) :
       \A plan \in RangePlans(a, modes) : /\ plan \in PlanSet
                                          /\ DOMAIN plan \in SUBSET Key
                                          /\ DOMAIN plan # {}
<1>1. << >> \in PlanSet
  <2>1. << >> \in [{} -> Mode \union {"full", "part"}]
    OBVIOUS
  <2> QED BY <2>1 DEF PlanSet
<1>2. \A a \in Alloc : KeysOf(a) \in SUBSET Key
  BY DEF KeysOf
<1>3. LiveKeys \in SUBSET Key
  BY DEF LiveKeys
<1>4. ASSUME NEW K \in SUBSET Key, NEW modes \in SUBSET (Mode \union {"full", "part"}),
             NEW plan \in Plans(K, modes)
      PROVE  plan \in PlanSet /\ DOMAIN plan \in SUBSET Key /\ DOMAIN plan # {}
  <2>1. PICK S \in SUBSET K : S # {} /\ plan \in [S -> modes]
    BY DEF Plans
  <2>2. plan \in [S -> Mode \union {"full", "part"}] /\ S \in SUBSET Key
    BY <2>1
  <2> QED BY <2>1, <2>2 DEF PlanSet
<1>5. \A modes : \A a \in Alloc : \A plan \in RangePlans(a, modes) : plan \in Plans(KeysOf(a), modes)
  BY DEF RangePlans
<1> QED BY <1>1, <1>2, <1>3, <1>4, <1>5

-----------------------------------------------------------------------------
(* The inductive invariant of type correctness: beside the types of the    *)
(* variables and of the call in progress, a copy to the host is completed  *)
(* from the frame of its chunk.                                            *)

FramesOK == \A k \in Key : chunk[k].frame \in Frame \union {None}
DataInv == TypeOK /\ FramesOK
ToHostHasFrame == \A k \in Key : AtKey("d2h", k) => chunk[k].frame \in Frame
TypeInv == DataInv /\ CallOK /\ ToHostHasFrame

data == <<chunk, frame, device, capacity, host, spill, owner, lease, gpu, dma, next, rt>>

LEMMA NextCall ==
  ASSUME DataInv', CallQueued'
  PROVE  TypeInv'
<1>1. CASE call'.todo = << >>
  BY <1>1 DEF TypeInv, CallQueued, CallOK, ToHostHasFrame, AtKey, At
<1>2. CASE call'.todo # << >>
  <2>1. Tail(call'.todo) \in Seq(Queued) /\ Head(call'.todo).do # "d2h"
    BY <1>2, QueuedCall DEF CallQueued
  <2> QED BY <2>1 DEF TypeInv, CallQueued, CallOK, ToHostHasFrame, AtKey, At
<1> QED BY <1>1, <1>2

LEMMA SameCall ==
  ASSUME TypeInv, DataInv', call' = call,
         \A k \in Key : chunk'[k].frame = chunk[k].frame
  PROVE  TypeInv'
BY DEF TypeInv, CallOK, ToHostHasFrame, AtKey, At

LEMMA SameData ==
  ASSUME DataInv, UNCHANGED data
  PROVE  DataInv'
BY DEF DataInv, TypeOK, FramesOK, data

LEMMA FrameTypes ==
  /\ Frame \in SUBSET Nat
  /\ None \notin Frame
  /\ Key \in SUBSET Nat
  /\ \A f \in Frame, k \in Key : f \in Nat /\ k \in Nat
  /\ \A n \in Slot : NextSlot(n) \in Slot /\ n \in Nat /\ Slots + n \in Nat
<1>1. Slots \in Nat \ {0} /\ MaxFrames \in Nat \ {0} /\ NumKeys \in Nat \ {0}
  BY RuntimeAssumption
<1> QED BY <1>1, NoneAssumption DEF Frame, Key, Slot, NextSlot

LEMMA InitType == Init => TypeInv
<1> SUFFICES ASSUME Init PROVE TypeInv
  OBVIOUS
<1>1. TypeOK
  BY RuntimeAssumption, FrameTypes
     DEF Init, TypeOK, ChunkRecord, ChunkState, NewChunk, NoLease, NoUse, NoKernel, Slot
<1>2. FramesOK
  BY DEF Init, FramesOK, NewChunk
<1>3. CallOK /\ ToHostHasFrame
  BY IdleCall DEF Init, CallOK, ToHostHasFrame, AtKey, At
<1> QED BY <1>1, <1>2, <1>3 DEF TypeInv, DataInv

-----------------------------------------------------------------------------
(* Steps that change nothing but the task list. *)

LEMMA AllQueued ==
  ASSUME CallOK, call.todo # << >>, Head(call.todo).do # "d2h"
  PROVE  call.todo \in Seq(Queued)
<1> DEFINE s == call.todo
<1>1. s \in Seq(Tasks) /\ Tail(s) \in Seq(Queued) /\ Len(s) \in Nat \ {0}
  BY EmptySeq DEF CallOK, CallRecord
<1>2. Head(s) \in Queued
  BY <1>1, HeadTailProperties, TaskFields
<1>3. \A i \in 1..Len(s) : s[i] \in Queued
  <2>1. s[1] = Head(s)
    BY <1>1
  <2>2. ASSUME NEW i \in 2..Len(s) PROVE s[i] \in Queued
    <3>1. Len(Tail(s)) = Len(s) - 1 /\ \A j \in 1..Len(Tail(s)) : Tail(s)[j] = s[j + 1]
      BY <1>1, HeadTailProperties
    <3>2. i - 1 \in 1..Len(Tail(s)) /\ Tail(s)[i - 1] = s[i]
      BY <1>1, <3>1
    <3> HIDE DEF s
    <3>3. Tail(s)[i - 1] \in Queued
      BY <1>1, <3>2, ElementOfSeq
    <3> QED BY <3>2, <3>3
  <2> QED BY <1>1, <1>2, <2>1, <2>2
<1>4. s \in [1..Len(s) -> Queued]
  BY <1>1, <1>3
<1> QED BY <1>1, <1>4, SeqDef

LEMMA MovesOn ==
  ASSUME TypeInv, call.todo # << >>, UNCHANGED data,
         Continue \/ (\E status \in Failures : Fail(status))
  PROVE  TypeInv'
<1>1. DataInv'
  BY SameData DEF TypeInv
<1>2. CallQueued'
  BY ContinueType, FailType DEF TypeInv
<1> QED BY <1>1, <1>2, NextCall

LEMMA Pushes ==
  ASSUME TypeInv, call.todo # << >>, UNCHANGED data, NEW s \in Seq(Queued), Push(s)
  PROVE  TypeInv'
<1>1. DataInv'
  BY SameData DEF TypeInv
<1>2. CallQueued'
  BY PushType DEF TypeInv
<1> QED BY <1>1, <1>2, NextCall

LEMMA EnsureMissType ==
  ASSUME TypeInv, NEW k \in Key, EnsureMiss(k)
  PROVE  TypeInv'
<1>1. call.todo # << >> /\ UNCHANGED data
  BY DEF EnsureMiss, AtKey, At, data
<1>2. CASE Reusable # {}
  <2>1. Least(Reusable) \in Frame
    BY <1>2, LeastElement, FrameTypes DEF Reusable, Active
  <2>2. <<MapTask(k, Least(Reusable))>> \in Seq(Queued)
    BY <2>1, TaskTypes
  <2> QED BY <1>1, <1>2, <2>2, Pushes DEF EnsureMiss
<1>3. CASE Reusable = {} /\ Creatable # {}
  <2> DEFINE f == Least(Creatable)
  <2>1. f \in Frame
    BY <1>3, LeastElement, FrameTypes DEF Creatable, Active
  <2>2. FrameTask("create", f) \in Queued /\ MapTask(k, f) \in Queued
    BY <2>1, TaskTypes, FrameTypes DEF FrameDo
  <2>3. <<FrameTask("create", f), MapTask(k, f)>> \in Seq(Queued)
    BY <2>2
  <2>4. Push(<<FrameTask("create", f), MapTask(k, f)>>)
    BY <1>3 DEF EnsureMiss
  <2> QED BY <1>1, <2>3, <2>4, Pushes
<1>4. CASE Reusable = {} /\ Creatable = {} /\ Victims = {}
  BY <1>1, <1>4, MovesOn DEF EnsureMiss, Failures
<1>5. CASE Reusable = {} /\ Creatable = {} /\ Victims # {}
  <2> DEFINE first(v) == IF chunk[v].state = "resident_dirty"
                         THEN <<KeyTask("writeback", v)>> ELSE << >>
             rest(v, f) == <<KeyTask("unmap", v), MapTask(k, f)>>
  <2>1. PICK f \in Victims : Push(first(frame[f].key) \o rest(frame[f].key, f))
    BY <1>5 DEF EnsureMiss
  <2> DEFINE v == frame[f].key
  <2>2. f \in Frame /\ v \in Key
    BY <2>1 DEF Victims, Active, Mapped, TypeInv, DataInv, TypeOK
  <2>3. KeyTask("writeback", v) \in Queued /\ KeyTask("unmap", v) \in Queued
           /\ MapTask(k, f) \in Queued
    BY <2>2, TaskTypes DEF KeyDo
  <2>4. first(v) \in Seq(Queued) /\ rest(v, f) \in Seq(Queued)
    BY <2>3
  <2> HIDE DEF first, rest
  <2>5. first(v) \o rest(v, f) \in Seq(Queued)
    BY <2>4, ConcatProperties
  <2> QED BY <1>1, <2>1, <2>5, Pushes
<1> QED BY <1>2, <1>3, <1>4, <1>5

LEMMA RefreshShrinksType ==
  ASSUME TypeInv, NEW observed \in 0..MaxFrames, RefreshShrinks(observed)
  PROVE  TypeInv'
<1>1. call.todo # << >> /\ UNCHANGED data
  BY DEF RefreshShrinks, AtRefresh, At, data
<1> DEFINE do == IF At("refresh") THEN "setCapacityFor" ELSE "setCapacity"
           s == DropTail(observed) \o <<FrameTask(do, observed)>>
<1>2. capacity \in Nat /\ observed \in Nat /\ observed < capacity
  BY RuntimeAssumption DEF RefreshShrinks, TypeInv, DataInv, TypeOK
<1>3. DropTail(observed) \in Seq(Queued)
  <2>1. \A i \in 1..(capacity - observed) : FrameTask("dropFrame", observed + i - 1) \in Queued
    BY <1>2, TaskTypes DEF FrameDo
  <2>2. DropTail(observed) \in [1..(capacity - observed) -> Queued]
    BY <2>1 DEF DropTail
  <2>3. capacity - observed \in Nat
    BY <1>2
  <2> QED BY <2>2, <2>3, SeqDef
<1>4. <<FrameTask(do, observed)>> \in Seq(Queued)
  BY <1>2, TaskTypes DEF FrameDo
<1>5. s \in Seq(Queued)
  BY <1>3, <1>4, ConcatProperties
<1>6. Push(s) \/ Fail("pressure")
  BY DEF RefreshShrinks
<1> HIDE DEF s
<1> QED BY <1>1, <1>5, <1>6, Pushes, MovesOn DEF Failures

LEMMA DropMappingType ==
  ASSUME TypeInv, NEW f \in Frame, DropMapping(f)
  PROVE  TypeInv'
<1>1. call.todo # << >> /\ Head(call.todo).do # "d2h" /\ UNCHANGED data
  BY DEF DropMapping, AtFrame, At, data
<1>2. frame[f].key \in Key
  BY DEF DropMapping, Mapped, TypeInv, DataInv, TypeOK
<1> DEFINE two == <<KeyTask("writebackIfDirty", frame[f].key), KeyTask("unmap", frame[f].key)>>
<1>3. two \in Seq(Queued)
  BY <1>2, TaskTypes DEF KeyDo, LoopDo
<1>4. Goto(two \o call.todo)
  BY DEF DropMapping
<1> HIDE DEF two
<1>5. CallQueued'
  BY <1>1, <1>3, <1>4, AllQueued, ConcatProperties, GotoType DEF TypeInv
<1> QED BY <1>1, <1>5, SameData, NextCall DEF TypeInv

LEMMA EnsureWorkspaceType ==
  ASSUME TypeInv, EnsureWorkspace
  PROVE  TypeInv'
<1>1. call.todo # << >> /\ UNCHANGED data
  BY DEF EnsureWorkspace, At, data
<1> DEFINE loop == ForEach(Touched, <<"prepare", "ensure", "pin">>)
           last == <<Task("arm"), Task("rollback")>>
<1>2. loop \in Seq(Queued)
  <2>1. Touched \in SUBSET Key
    BY DEF Touched, Plan, TypeInv, CallOK, CallRecord, PlanSet
  <2>2. <<"prepare", "ensure", "pin">> \in Seq(LoopDo)
    BY DEF LoopDo
  <2> QED BY <2>1, <2>2, ForEachType
<1>3. last \in Seq(Queued)
  BY TaskTypes DEF PlainDo
<1>4. Goto(loop \o last) \/ Fail("other")
  BY DEF EnsureWorkspace
<1> HIDE DEF loop, last
<1>5. loop \o last \in Seq(Queued)
  BY <1>2, <1>3, ConcatProperties
<1>6. CallQueued'
  BY <1>1, <1>4, <1>5, GotoType, FailType DEF TypeInv, Failures
<1> QED BY <1>1, <1>6, SameData, NextCall DEF TypeInv

LEMMA TaskListStepsType ==
  ASSUME TypeInv
  PROVE  /\ FailTask \/ RefreshSkipped \/ RefreshFails \/ CheckCapacity \/ Catching
            \/ PollNotReady \/ CheckSources => TypeInv'
         /\ \A k \in Key : EnsureHit(k) \/ WritebackSkipped(k) \/ UnmapSkipped(k)
                           \/ GetHost(k) => TypeInv'
         /\ \A k \in Key, f \in Frame : MapFails(k, f) => TypeInv'
<1>1. FailTask \/ RefreshSkipped \/ RefreshFails \/ CheckCapacity \/ Catching
      \/ PollNotReady \/ CheckSources => TypeInv'
  BY MovesOn DEF FailTask, RefreshSkipped, RefreshFails, CheckCapacity, Catching,
     PollNotReady, CheckSources, AtRefresh, At, data, Failures
<1>2. ASSUME NEW k \in Key,
             EnsureHit(k) \/ WritebackSkipped(k) \/ UnmapSkipped(k) \/ GetHost(k)
      PROVE  TypeInv'
  BY <1>2, MovesOn DEF EnsureHit, WritebackSkipped, UnmapSkipped, GetHost, AtKey, At, data
<1>3. ASSUME NEW k \in Key, NEW f \in Frame, MapFails(k, f)
      PROVE  TypeInv'
  BY <1>3, MovesOn DEF MapFails, AtKey, At, data, Failures
<1> QED BY <1>1, <1>2, <1>3

-----------------------------------------------------------------------------
(* The calls of the clients. *)

LEMMA BeginStep ==
  ASSUME TypeInv, NEW op \in Ops, NEW plan \in PlanSet, NEW val \in Val,
         NEW s \in Seq(Queued), s # << >>, Begin(op, plan, val, s)
  PROVE  TypeInv'
<1>1. UNCHANGED data
  BY DEF Begin, data
<1> QED BY <1>1, BeginType, SameData, NextCall DEF TypeInv

LEMMA LoopSteps ==
  /\ <<"writebackIfDirty">> \in Seq(LoopDo)
  /\ <<"writebackIfDirty", "unmapIfClean">> \in Seq(LoopDo)
  /\ <<"unmapIfClean", "dropDirty", "invalidate">> \in Seq(LoopDo)
  /\ <<"put">> \in Seq(LoopDo) /\ <<"get">> \in Seq(LoopDo) /\ <<"ensure">> \in Seq(LoopDo)
  /\ <<"unmapIfClean">> \in Seq(LoopDo) /\ <<"unmapIfClean", "catch">> \in Seq(LoopDo)
BY DEF LoopDo

(* A list of two parts. *)
LEMMA TwoParts ==
  ASSUME NEW s \in Seq(Queued), NEW t \in Seq(Queued)
  PROVE  /\ s \o t \in Seq(Queued)
         /\ s # << >> \/ t # << >> => s \o t # << >>
<1>1. s \o t \in Seq(Queued) /\ Len(s \o t) = Len(s) + Len(t)
  BY ConcatProperties
<1>2. Len(s) \in Nat /\ Len(t) \in Nat
  OBVIOUS
<1>3. s # << >> => Len(s) # 0
  BY EmptySeq
<1>4. t # << >> => Len(t) # 0
  BY EmptySeq
<1>5. Len(<< >>) = 0
  OBVIOUS
<1> DEFINE u == s \o t
<1>6. u \in Seq(Queued) /\ Len(u) = Len(s) + Len(t)
  BY <1>1
<1> HIDE DEF u
<1>7. s # << >> \/ t # << >> => u # << >>
  BY <1>2, <1>3, <1>4, <1>5, <1>6
<1> QED BY <1>1, <1>7 DEF u

LEMMA FlushTypes ==
  ASSUME NEW K \in SUBSET Key
  PROVE  Flush(K) \in Seq(Queued) /\ FlushAndUnmap(K) \in Seq(Queued)
BY LoopSteps, ForEachType DEF Flush, FlushAndUnmap

LEMMA WaitFirstType == WaitFirst \in Seq(Queued)
BY TaskTypes DEF WaitFirst, PlainDo

LEMMA ReleaseType ==
  ASSUME TypeInv, NEW a \in Alloc, Release(a)
  PROVE  TypeInv'
<1> DEFINE first == FlushAndUnmap(KeysOf(a))
           last == <<Task("erase")>>
           plan == [k \in KeysOf(a) |-> "full"]
<1>1. first \in Seq(Queued) /\ last \in Seq(Queued) /\ last # << >>
  BY FlushTypes, PlanTypes, TaskTypes DEF PlainDo
<1>2. plan \in PlanSet
  <2>1. plan \in [KeysOf(a) -> Mode \union {"full", "part"}] /\ KeysOf(a) \in SUBSET Key
    BY PlanTypes
  <2> QED BY <2>1 DEF PlanSet
<1>3. Begin("release", plan, Zero, first \o last)
  BY DEF Release
<1>4. Zero \in Val /\ "release" \in Ops
  BY RuntimeAssumption DEF Ops
<1> HIDE DEF first, last, plan
<1> QED BY <1>1, <1>2, <1>3, <1>4, TwoParts, BeginStep

LEMMA DiscardType ==
  ASSUME TypeInv, NEW a \in Alloc, NEW plan \in RangePlans(a, {"full"}), DiscardDead(a, plan)
  PROVE  TypeInv'
<1> DEFINE s == ForEach(DOMAIN plan, <<"unmapIfClean", "dropDirty", "invalidate">>)
<1>1. plan \in PlanSet /\ DOMAIN plan \in SUBSET Key /\ DOMAIN plan # {}
  BY PlanTypes
<1>2. s \in Seq(Queued) /\ s # << >>
  BY <1>1, LoopSteps, ForEachType
<1>3. Begin("discard", plan, Zero, s)
  BY DEF DiscardDead
<1>4. Zero \in Val /\ "discard" \in Ops
  BY RuntimeAssumption DEF Ops
<1> HIDE DEF s
<1> QED BY <1>1, <1>2, <1>3, <1>4, BeginStep

LEMMA WriteType ==
  ASSUME TypeInv, NEW a \in Alloc, NEW plan \in RangePlans(a, {"full", "part"}),
         NEW v \in Val, Write(a, plan, v)
  PROVE  TypeInv'
<1> DEFINE first == FlushAndUnmap(DOMAIN plan)
           middle == <<Task("checkSources")>>
           last == ForEach(DOMAIN plan, <<"put">>)
<1>1. plan \in PlanSet /\ DOMAIN plan \in SUBSET Key /\ DOMAIN plan # {}
  BY PlanTypes
<1>2. first \in Seq(Queued) /\ middle \in Seq(Queued) /\ middle # << >> /\ last \in Seq(Queued)
  <2>1. first \in Seq(Queued)
    BY <1>1, FlushTypes
  <2>2. middle \in Seq(Queued) /\ middle # << >>
    BY TaskTypes DEF PlainDo
  <2>3. last \in Seq(Queued)
    BY <1>1, LoopSteps, ForEachType
  <2> QED BY <2>1, <2>2, <2>3
<1>3. Begin("write", plan, v, first \o middle \o last)
  BY DEF Write
<1>4. "write" \in Ops
  BY DEF Ops
<1> HIDE DEF first, middle, last
<1>5. first \o middle \in Seq(Queued) /\ first \o middle # << >>
  BY <1>2, TwoParts
<1>6. first \o middle \o last \in Seq(Queued) /\ first \o middle \o last # << >>
  BY <1>2, <1>5, TwoParts
<1> QED BY <1>1, <1>3, <1>4, <1>6, BeginStep

LEMMA ReadType ==
  ASSUME TypeInv, NEW a \in Alloc, NEW plan \in RangePlans(a, {"part"}), Read(a, plan)
  PROVE  TypeInv'
<1> DEFINE first == Flush(DOMAIN plan)
           middle == <<Task("checkSources")>>
           last == ForEach(DOMAIN plan, <<"get">>)
<1>1. plan \in PlanSet /\ DOMAIN plan \in SUBSET Key /\ DOMAIN plan # {}
  BY PlanTypes
<1>2. first \in Seq(Queued) /\ middle \in Seq(Queued) /\ middle # << >> /\ last \in Seq(Queued)
  <2>1. first \in Seq(Queued)
    BY <1>1, FlushTypes
  <2>2. middle \in Seq(Queued) /\ middle # << >>
    BY TaskTypes DEF PlainDo
  <2>3. last \in Seq(Queued)
    BY <1>1, LoopSteps, ForEachType
  <2> QED BY <2>1, <2>2, <2>3
<1>3. Begin("read", plan, Zero, first \o middle \o last)
  BY DEF Read
<1>4. Zero \in Val /\ "read" \in Ops
  BY RuntimeAssumption DEF Ops
<1> HIDE DEF first, middle, last
<1>5. first \o middle \in Seq(Queued) /\ first \o middle # << >>
  BY <1>2, TwoParts
<1>6. first \o middle \o last \in Seq(Queued) /\ first \o middle \o last # << >>
  BY <1>2, <1>5, TwoParts
<1> QED BY <1>1, <1>3, <1>4, <1>6, BeginStep

LEMMA PrefetchType ==
  ASSUME TypeInv, NEW plan \in Plans(LiveKeys, PrefetchModes), Prefetch(plan)
  PROVE  TypeInv'
<1> DEFINE first == <<Task("refresh"), Task("checkCapacity")>>
           last == ForEach(DOMAIN plan, <<"ensure">>)
<1>1. plan \in PlanSet /\ DOMAIN plan \in SUBSET Key
  BY PlanTypes, RuntimeAssumption
<1>2. first \in Seq(Queued) /\ first # << >> /\ last \in Seq(Queued)
  <2>1. first \in Seq(Queued) /\ first # << >>
    BY TaskTypes DEF PlainDo
  <2>2. last \in Seq(Queued)
    BY <1>1, LoopSteps, ForEachType
  <2> QED BY <2>1, <2>2
<1>3. Begin("prefetch", plan, Zero, first \o last)
  BY DEF Prefetch
<1>4. Zero \in Val /\ "prefetch" \in Ops
  BY RuntimeAssumption DEF Ops
<1> HIDE DEF first, last
<1> QED BY <1>1, <1>2, <1>3, <1>4, TwoParts, BeginStep

LEMMA AcquireType ==
  ASSUME TypeInv, NEW plan \in Plans(LiveKeys, Mode), AcquireExternal(plan)
  PROVE  TypeInv'
<1> DEFINE s == <<Task("refresh"), Task("checkCapacity"), Task("workspace")>>
<1>1. plan \in PlanSet
  BY PlanTypes
<1>2. s \in Seq(Queued) /\ s # << >>
  BY TaskTypes DEF PlainDo
<1>3. Begin("acquire", plan, Zero, s)
  BY DEF AcquireExternal
<1>4. Zero \in Val /\ "acquire" \in Ops
  BY RuntimeAssumption DEF Ops
<1> HIDE DEF s
<1> QED BY <1>1, <1>2, <1>3, <1>4, BeginStep

LEMMA PollWaitType ==
  ASSUME TypeInv, Poll \/ Wait
  PROVE  TypeInv'
<1>1. << >> \in PlanSet /\ Zero \in Val /\ "poll" \in Ops /\ "wait" \in Ops
  BY PlanTypes, RuntimeAssumption DEF Ops
<1>2. <<Task("poll")>> \in Seq(Queued) /\ <<Task("wait")>> \in Seq(Queued)
  BY TaskTypes DEF PlainDo
<1>3. Begin("poll", << >>, Zero, <<Task("poll")>>) \/ Begin("wait", << >>, Zero, <<Task("wait")>>)
  BY DEF Poll, Wait
<1>4. <<Task("poll")>> # << >> /\ <<Task("wait")>> # << >>
  OBVIOUS
<1> QED BY <1>1, <1>2, <1>3, <1>4, BeginStep

LEMMA DrainType ==
  ASSUME TypeInv, NEW r \in BOOLEAN, Drain(r)
  PROVE  TypeInv'
<1> DEFINE first == WaitFirst
           middle == Flush(LiveKeys)
           last == IF r THEN ForEach(LiveKeys, <<"unmapIfClean">>) ELSE << >>
<1>1. << >> \in PlanSet /\ Zero \in Val /\ "drain" \in Ops
  BY PlanTypes, RuntimeAssumption DEF Ops
<1>2. first \in Seq(Queued) /\ middle \in Seq(Queued) /\ last \in Seq(Queued)
  <2>1. first \in Seq(Queued) /\ middle \in Seq(Queued)
    BY PlanTypes, FlushTypes, WaitFirstType
  <2>2. ForEach(LiveKeys, <<"unmapIfClean">>) \in Seq(Queued)
    BY PlanTypes, LoopSteps, ForEachType
  <2>3. last \in Seq(Queued)
    BY <2>2
  <2> QED BY <2>1, <2>3
<1>3. first \o middle \o last # << >> /\ Begin("drain", << >>, Zero, first \o middle \o last)
  BY DEF Drain
<1> HIDE DEF first, middle, last
<1>4. first \o middle \o last \in Seq(Queued)
  BY <1>2, TwoParts
<1> QED BY <1>1, <1>3, <1>4, BeginStep

LEMMA CloseType ==
  ASSUME TypeInv, Close
  PROVE  TypeInv'
<1> DEFINE first == WaitFirst \o <<Task("abandon")>>
           frames == [i \in 1..MaxFrames |-> FrameTask("closeFrame", i - 1)]
           last == <<Task("closeEnd")>>
<1>1. << >> \in PlanSet /\ Zero \in Val /\ "close" \in Ops
  BY PlanTypes, RuntimeAssumption DEF Ops
<1>2. first \in Seq(Queued) /\ last \in Seq(Queued) /\ last # << >>
  BY WaitFirstType, TaskTypes, TwoParts DEF PlainDo
<1>3. frames \in Seq(Queued)
  <2>1. \A i \in 1..MaxFrames : FrameTask("closeFrame", i - 1) \in Queued
    BY TaskTypes, RuntimeAssumption DEF FrameDo
  <2>2. frames \in [1..MaxFrames -> Queued] /\ MaxFrames \in Nat
    BY <2>1, RuntimeAssumption
  <2> QED BY <2>2, SeqDef
<1>4. Begin("close", << >>, Zero, first \o frames \o last)
  BY DEF Close
<1> HIDE DEF first, frames, last
<1>5. first \o frames \in Seq(Queued)
  BY <1>2, <1>3, TwoParts
<1>6. first \o frames \o last \in Seq(Queued) /\ first \o frames \o last # << >>
  BY <1>2, <1>5, TwoParts
<1> QED BY <1>1, <1>4, <1>6, BeginStep

-----------------------------------------------------------------------------
(* Steps that change the state of the cache. *)

LEMMA RecordTypes ==
  ASSUME NEW r \in ChunkRecord, NEW gen
  PROVE  /\ BeginGeneration(r) \in ChunkRecord
         /\ BeginGeneration(r).frame = r.frame
         /\ CompleteGeneration(r, gen) \in ChunkRecord
         /\ CompleteGeneration(r, gen).frame = r.frame
<1>1. BeginGeneration(r) \in ChunkRecord /\ BeginGeneration(r).frame = r.frame
  BY DEF BeginGeneration, ChunkRecord
<1> DEFINE done == [r EXCEPT !.event = 1, !.completed = 1]
<1>2. done \in ChunkRecord /\ done.frame = r.frame
  BY DEF ChunkRecord
<1>3. CompleteGeneration(r, gen) \in {r, done}
  BY DEF CompleteGeneration
<1> HIDE DEF done
<1> QED BY <1>1, <1>2, <1>3

LEMMA OnFrameType ==
  ASSUME DataInv, NEW k \in Key, NEW f \in Frame
  PROVE  /\ OnFrame(k, f) \in [Key -> ChunkRecord]
         /\ \A j \in Key : OnFrame(k, f)[j].frame \in Frame \union {None}
<1>1. chunk \in [Key -> ChunkRecord] /\ chunk[k] \in ChunkRecord /\ next.h2d \in Nat /\ f \in Nat
  BY FrameTypes DEF DataInv, TypeOK
<1>2. BeginGeneration(chunk[k]) \in ChunkRecord
  BY <1>1, RecordTypes
<1> DEFINE r == [BeginGeneration(chunk[k]) EXCEPT !.state = "h2d_in_flight", !.frame = f,
                                                  !.staging = next.h2d]
<1>3. r \in ChunkRecord /\ r.frame = f
  BY <1>1, <1>2 DEF ChunkRecord, ChunkState
<1>4. OnFrame(k, f) = [chunk EXCEPT ![k] = r]
  BY DEF OnFrame
<1> HIDE DEF r
<1> QED BY <1>1, <1>3, <1>4 DEF DataInv, FramesOK

LEMMA RetiredType ==
  ASSUME DataInv, NEW k \in Key
  PROVE  /\ Retired(k) \in [Key -> ChunkRecord]
         /\ \A j \in Key : Retired(k)[j].frame = chunk[j].frame
<1>1. chunk \in [Key -> ChunkRecord] /\ chunk[k] \in ChunkRecord
  BY DEF DataInv, TypeOK
<1> DEFINE c == CompleteGeneration(chunk[k], chunk[k].event)
           r == [c EXCEPT !.state = "resident_clean", !.staging = None]
<1>2. c \in ChunkRecord /\ c.frame = chunk[k].frame
  BY <1>1, RecordTypes
<1>3. Retired(k) = [chunk EXCEPT ![k] = r]
  BY DEF Retired
<1> HIDE DEF c
<1>4. r \in ChunkRecord /\ r.frame = chunk[k].frame
  BY <1>2 DEF ChunkRecord, ChunkState
<1> HIDE DEF r
<1> QED BY <1>1, <1>3, <1>4

LEMMA UnpinnedType ==
  ASSUME DataInv
  PROVE  /\ Unpinned \in [Key -> ChunkRecord]
         /\ \A j \in Key : Unpinned[j].frame = chunk[j].frame
<1>1. chunk \in [Key -> ChunkRecord]
  BY DEF DataInv, TypeOK
<1> DEFINE c(k) == CompleteGeneration(chunk[k], lease.use[k].gen)
           r(k) == [c(k) EXCEPT !.pin = IF @ = 0 THEN 0 ELSE @ - 1, !.ws = FALSE]
<1>2. ASSUME NEW k \in Key PROVE c(k) \in ChunkRecord /\ c(k).frame = chunk[k].frame
  BY <1>1, RecordTypes
<1>3. Unpinned = [k \in Key |-> IF k \notin Members THEN chunk[k] ELSE r(k)]
  BY DEF Unpinned
<1> HIDE DEF c
<1>4. ASSUME NEW k \in Key PROVE r(k) \in ChunkRecord /\ r(k).frame = chunk[k].frame
  <2> DEFINE pin == IF c(k).pin = 0 THEN 0 ELSE c(k).pin - 1
  <2>1. c(k) \in ChunkRecord /\ c(k).frame = chunk[k].frame
    BY <1>2
  <2>2. pin \in Nat
    BY <2>1 DEF ChunkRecord
  <2>3. r(k) = [c(k) EXCEPT !.pin = pin, !.ws = FALSE]
    BY <2>1 DEF ChunkRecord
  <2> HIDE DEF pin, r
  <2> QED BY <2>1, <2>2, <2>3 DEF ChunkRecord
<1> HIDE DEF r
<1> QED BY <1>1, <1>3, <1>4

FrameType == [Frame -> [handle: BOOLEAN, key: Key \union {None}, quarantined: BOOLEAN]]
OwnerType == [Alloc -> [live: BOOLEAN,
                        va: {"none", "held", "quarantined", "retired", "freed"}]]
RtType == [poisoned: BOOLEAN, blocked: BOOLEAN, asyncQ: BOOLEAN, closed: BOOLEAN,
           closeOk: BOOLEAN, pools: BOOLEAN]

LEMMA QuarantineType ==
  ASSUME DataInv, NEW k \in Key, owner' = QuarantineVa(k)
  PROVE  owner' \in OwnerType
<1>1. owner \in OwnerType
  BY DEF DataInv, TypeOK, OwnerType
<1>2. owner' = [owner EXCEPT ![AllocOf[k]].va = "quarantined"]
  BY DEF QuarantineVa
<1>3. \A a \in Alloc : [owner[a] EXCEPT !.va = "quarantined"]
         \in [live : BOOLEAN, va : {"none", "held", "quarantined", "retired", "freed"}]
  BY <1>1 DEF OwnerType
<1> QED BY <1>1, <1>2, <1>3 DEF OwnerType

(* Whatever index the update names: outside of Frame it changes nothing.   *)
LEMMA FrameUpdates ==
  ASSUME DataInv, NEW f, NEW h \in BOOLEAN, NEW q \in BOOLEAN, NEW key \in Key \union {None}
  PROVE  /\ [frame EXCEPT ![f].quarantined = q] \in FrameType
         /\ [frame EXCEPT ![f].handle = h] \in FrameType
         /\ [frame EXCEPT ![f] = [@ EXCEPT !.key = key, !.quarantined = q]] \in FrameType
         /\ [frame EXCEPT ![f] = [@ EXCEPT !.handle = h, !.quarantined = q]] \in FrameType
         /\ [frame EXCEPT ![f] = [handle |-> h, key |-> key, quarantined |-> q]] \in FrameType
<1>1. frame \in FrameType
  BY DEF DataInv, TypeOK, FrameType
<1>2. CASE f \in Frame
  <2>1. frame[f] \in [handle: BOOLEAN, key: Key \union {None}, quarantined: BOOLEAN]
    BY <1>1, <1>2 DEF FrameType
  <2>2. [frame EXCEPT ![f].quarantined = q] \in FrameType
    BY <1>1, <2>1 DEF FrameType
  <2>3. [frame EXCEPT ![f].handle = h] \in FrameType
    BY <1>1, <2>1 DEF FrameType
  <2>4. [frame EXCEPT ![f] = [@ EXCEPT !.key = key, !.quarantined = q]] \in FrameType
    BY <1>1, <2>1 DEF FrameType
  <2>5. [frame EXCEPT ![f] = [@ EXCEPT !.handle = h, !.quarantined = q]] \in FrameType
    BY <1>1, <2>1 DEF FrameType
  <2>6. [frame EXCEPT ![f] = [handle |-> h, key |-> key, quarantined |-> q]] \in FrameType
    BY <1>1, <2>1 DEF FrameType
  <2> QED BY <2>2, <2>3, <2>4, <2>5, <2>6
<1>3. CASE f \notin Frame
  <2>1. ASSUME NEW r PROVE [frame EXCEPT ![f] = r] = frame
    BY <1>1, <1>3 DEF FrameType
  <2> QED BY <1>1, <2>1
<1> QED BY <1>2, <1>3

LEMMA RtTypes ==
  ASSUME DataInv
  PROVE  /\ rt \in RtType /\ Poisoned \in RtType /\ AsyncUnknown \in RtType
         /\ [rt EXCEPT !.blocked = TRUE] \in RtType
         /\ [AsyncUnknown EXCEPT !.closeOk = FALSE] \in RtType
         /\ [Poisoned EXCEPT !.closeOk = FALSE] \in RtType
         /\ \A b \in BOOLEAN : [rt EXCEPT !.closeOk = b] \in RtType
BY DEF DataInv, TypeOK, Poisoned, AsyncUnknown, RtType

LEMMA MapFrameType ==
  ASSUME DataInv, NEW k \in Key, NEW f \in Frame, MapFrame(k, f),
         frame' = [frame EXCEPT ![f].key = k]
           \/ frame' = [frame EXCEPT ![f] = [@ EXCEPT !.key = k, !.quarantined = TRUE]],
         dma' \in {dma, dma \union {[key |-> k, dir |-> "h2d", slot |-> next.h2d]}},
         owner' \in {owner, QuarantineVa(k)},
         rt' \in {rt, Poisoned, AsyncUnknown}
  PROVE  DataInv'
<1>1. /\ chunk' \in [Key -> ChunkRecord]
      /\ \A j \in Key : chunk'[j].frame \in Frame \union {None}
  BY OnFrameType DEF MapFrame
<1>2. frame' \in FrameType
  <2> frame \in [Frame -> [handle: BOOLEAN, key: Key \union {None}, quarantined: BOOLEAN]]
    BY DEF DataInv, TypeOK
  <2>1. CASE frame' = [frame EXCEPT ![f].key = k]
    BY <2>1 DEF FrameType
  <2>2. CASE frame' = [frame EXCEPT ![f] = [@ EXCEPT !.key = k, !.quarantined = TRUE]]
    BY <2>2, FrameUpdates
  <2> QED BY <2>1, <2>2
<1>3. device' \in [Frame -> Val \union {Garbage, Invalid}]
  BY DEF DataInv, TypeOK, MapFrame
<1>4. owner' \in OwnerType
  BY QuarantineType DEF DataInv, TypeOK, OwnerType
<1>5. dma' \subseteq [key: Key, dir: {"h2d", "d2h"}, slot: Slot]
  BY DEF DataInv, TypeOK
<1>6. next' \in [h2d: Slot, d2h: Slot]
  BY FrameTypes DEF DataInv, TypeOK, MapFrame
<1>7. rt' \in RtType
  BY RtTypes
<1> QED BY <1>1, <1>2, <1>3, <1>4, <1>5, <1>6, <1>7 DEF DataInv, TypeOK, FramesOK, FrameType, OwnerType, RtType, MapFrame

(* Every action below leaves the rest of the list as it was or replaces    *)
(* its first task.                                                         *)
LEMMA AnyCallStep ==
  ASSUME TypeInv, call.todo # << >>, DataInv',
         \/ Continue
         \/ \E status \in Failures : Fail(status)
         \/ \E s \in Seq(Queued) : Push(s) \/ Goto(s)
  PROVE  TypeInv'
<1>1. CallQueued'
  BY ContinueType, FailType, PushType, GotoType DEF TypeInv
<1> QED BY <1>1, NextCall

LEMMA MapStepsType ==
  ASSUME TypeInv, NEW k \in Key, NEW f \in Frame,
         \/ MapRefused(k, f) \/ MapRollbackFails(k, f) \/ MapAndSubmit(k, f)
         \/ MapAndSubmitFails(k, f) \/ MapWithoutSource(k, f)
  PROVE  TypeInv'
<1>1. DataInv /\ "other" \in Failures
  BY DEF TypeInv, Failures
<1>2. CASE MapRefused(k, f)
  <2>1. rt' \in RtType
    BY <1>1, <1>2, RtTypes DEF MapRefused
  <2>2. DataInv'
    BY <1>1, <1>2, <2>1 DEF MapRefused, DataInv, TypeOK, FramesOK, FrameType, OwnerType, RtType
  <2> QED BY <1>1, <1>2, <2>2, AnyCallStep DEF MapRefused, AtKey, At
<1>3. CASE MapRollbackFails(k, f)
  <2>1. rt' \in RtType
    BY <1>1, <1>3, RtTypes DEF MapRollbackFails
  <2>2. /\ chunk' \in [Key -> ChunkRecord]
        /\ \A j \in Key : chunk'[j].frame \in Frame \union {None}
    <3>1. chunk' = [chunk EXCEPT ![k] = [@ EXCEPT !.state = "mapping", !.frame = f]]
      BY <1>3 DEF MapRollbackFails
    <3>2. chunk[k] \in ChunkRecord /\ f \in Nat
      BY <1>1, FrameTypes DEF DataInv, TypeOK
    <3>3. [chunk[k] EXCEPT !.state = "mapping", !.frame = f] \in ChunkRecord
      BY <3>2 DEF ChunkRecord, ChunkState
    <3> QED BY <1>1, <3>1, <3>2, <3>3 DEF DataInv, TypeOK, FramesOK, ChunkRecord
  <2>3. frame' \in FrameType
    <3>1. PICK kept \in BOOLEAN :
            frame' = [frame EXCEPT ![f] = [handle |-> kept, key |-> k, quarantined |-> TRUE]]
      BY <1>3 DEF MapRollbackFails
    <3> QED BY <1>1, <3>1, FrameUpdates
  <2>4. DataInv'
    BY <1>1, <1>3, <2>1, <2>2, <2>3, QuarantineType
       DEF MapRollbackFails, DataInv, TypeOK, FramesOK, FrameType, OwnerType, RtType
  <2> QED BY <1>1, <1>3, <2>4, AnyCallStep DEF MapRollbackFails, AtKey, At
<1>4. CASE MapAndSubmit(k, f)
  <2>1. DataInv'
    BY <1>1, <1>4, MapFrameType DEF MapAndSubmit
  <2>2. <<KeyTask("h2d", k)>> \in Seq(Queued)
    BY TaskTypes DEF KeyDo
  <2> QED BY <1>4, <2>1, <2>2, AnyCallStep DEF MapAndSubmit, AtKey, At
<1>5. CASE MapAndSubmitFails(k, f)
  <2>1. DataInv'
    BY <1>1, <1>5, MapFrameType DEF MapAndSubmitFails
  <2> QED BY <1>1, <1>5, <2>1, AnyCallStep DEF MapAndSubmitFails, AtKey, At
<1>6. CASE MapWithoutSource(k, f)
  <2>1. DataInv'
    BY <1>1, <1>6, MapFrameType DEF MapWithoutSource
  <2>2. KeyTask("retireH2d", k) \in Queued /\ KeyTask("unmap", k) \in Queued /\ Task("fail") \in Queued
    BY TaskTypes DEF KeyDo, PlainDo
  <2>3. <<KeyTask("retireH2d", k), KeyTask("unmap", k), Task("fail")>> \in Seq(Queued)
    BY <2>2
  <2> QED BY <1>6, <2>1, <2>3, AnyCallStep DEF MapWithoutSource, AtKey, At
<1> QED BY <1>2, <1>3, <1>4, <1>5, <1>6

LEMMA H2dStepsType ==
  ASSUME TypeInv, NEW k \in Key,
         H2dDone(k) \/ TransferStuck(k) \/ RetireFailedH2d(k)
  PROVE  TypeInv'
<1>1. DataInv /\ "other" \in Failures
  BY DEF TypeInv, Failures
<1>2. CASE H2dDone(k)
  <2>1. /\ chunk' \in [Key -> ChunkRecord]
        /\ \A j \in Key : chunk'[j].frame \in Frame \union {None}
    BY <1>1, <1>2, RetiredType DEF H2dDone, DataInv, FramesOK
  <2>2. device' \in [Frame -> Val \union {Garbage, Invalid}]
    BY <1>1, <1>2 DEF H2dDone, DataInv, TypeOK
  <2>3. dma' \subseteq [key: Key, dir: {"h2d", "d2h"}, slot: Slot]
    BY <1>1, <1>2 DEF H2dDone, DataInv, TypeOK
  <2>4. DataInv'
    BY <1>1, <1>2, <2>1, <2>2, <2>3 DEF H2dDone, DataInv, TypeOK, FramesOK, FrameType, OwnerType, RtType
  <2> QED BY <1>2, <2>4, AnyCallStep DEF H2dDone, AtKey, At
<1>3. CASE TransferStuck(k)
  <2>1. rt' \in RtType
    BY <1>1, <1>3, RtTypes DEF TransferStuck
  <2>2. DataInv'
    BY <1>1, <1>3, <2>1 DEF TransferStuck, DataInv, TypeOK, FramesOK, FrameType, OwnerType, RtType
  <2> QED BY <1>1, <1>3, <2>2, AnyCallStep DEF TransferStuck, AtKey, At
<1>4. CASE RetireFailedH2d(k)
  <2>1. CASE chunk' = Retired(k) /\ Continue /\ UNCHANGED <<frame, owner, rt>>
    <3>1. /\ chunk' \in [Key -> ChunkRecord]
          /\ \A j \in Key : chunk'[j].frame \in Frame \union {None}
      BY <1>1, <2>1, RetiredType DEF DataInv, FramesOK
    <3>2. DataInv'
      BY <1>1, <1>4, <2>1, <3>1 DEF RetireFailedH2d, DataInv, TypeOK, FramesOK, FrameType, OwnerType, RtType
    <3> QED BY <1>4, <2>1, <3>2, AnyCallStep DEF RetireFailedH2d, AtKey, At
  <2>2. CASE /\ frame' = [frame EXCEPT ![chunk[k].frame].quarantined = TRUE]
             /\ owner' = QuarantineVa(k)
             /\ rt' = AsyncUnknown
             /\ Fail("other")
             /\ UNCHANGED chunk
    <3>1. frame' \in FrameType
      BY <1>1, <2>2, FrameUpdates
    <3>2. DataInv'
      BY <1>1, <1>4, <2>2, <3>1, RtTypes, QuarantineType
         DEF RetireFailedH2d, DataInv, TypeOK, FramesOK, FrameType, OwnerType, RtType
    <3> QED BY <1>1, <1>4, <2>2, <3>2, AnyCallStep DEF RetireFailedH2d, AtKey, At
  <2> QED BY <1>4, <2>1, <2>2 DEF RetireFailedH2d
<1> QED BY <1>2, <1>3, <1>4

LEMMA HandleStepsType ==
  ASSUME TypeInv, NEW f \in Frame,
         CreateHandle(f) \/ CreateHandleFails(f) \/ ReleaseTailHandle(f)
  PROVE  TypeInv'
<1>1. DataInv /\ "other" \in Failures
  BY DEF TypeInv, Failures
<1>2. CASE CreateHandle(f)
  <2>1. frame' \in FrameType
    BY <1>1, <1>2, FrameUpdates DEF CreateHandle
  <2>2. DataInv'
    BY <1>1, <1>2, <2>1 DEF CreateHandle, DataInv, TypeOK, FramesOK, FrameType
  <2> QED BY <1>2, <2>2, AnyCallStep DEF CreateHandle, AtFrame, At
<1>3. CASE CreateHandleFails(f)
  <2>1. DataInv' /\ call.todo # << >>
    BY <1>1, <1>3, SameData DEF CreateHandleFails, AtFrame, At, data
  <2>2. Task("forceRefresh") \in Queued /\ FrameTask("createRetry", f) \in Queued
    BY TaskTypes, FrameTypes DEF PlainDo, FrameDo
  <2>3. <<Task("forceRefresh"), FrameTask("createRetry", f)>> \in Seq(Queued)
    BY <2>2
  <2>4. Push(<<Task("forceRefresh"), FrameTask("createRetry", f)>>)
        \/ (\E status \in Failures : Fail(status))
    BY <1>3 DEF CreateHandleFails, Failures
  <2> QED BY <2>1, <2>3, <2>4, AnyCallStep
<1>4. CASE ReleaseTailHandle(f)
  <2>1. frame' \in FrameType
    <3>1. frame \in FrameType
      BY <1>1 DEF DataInv, TypeOK, FrameType
    <3>2. frame' \in {frame, [frame EXCEPT ![f].handle = FALSE]}
      BY <1>4 DEF ReleaseTailHandle
    <3> QED BY <1>1, <3>1, <3>2, FrameUpdates
  <2>2. DataInv'
    BY <1>1, <1>4, <2>1 DEF ReleaseTailHandle, DataInv, TypeOK, FramesOK, FrameType
  <2> QED BY <1>1, <1>4, <2>2, AnyCallStep DEF ReleaseTailHandle, AtFrame, At
<1> QED BY <1>2, <1>3, <1>4

LEMMA CapacityStepsType ==
  ASSUME TypeInv, NEW observed \in 0..MaxFrames,
         RefreshKeeps(observed) \/ SetCapacity(observed)
  PROVE  TypeInv'
<1>1. DataInv /\ "pressure" \in Failures /\ MaxFrames \in Nat
  BY RuntimeAssumption DEF TypeInv, Failures
<1>2. capacity' \in 0..MaxFrames
  BY <1>1 DEF RefreshKeeps, SetCapacity, DataInv, TypeOK
<1>3. DataInv'
  BY <1>1, <1>2 DEF RefreshKeeps, SetCapacity, DataInv, TypeOK, FramesOK
<1>4. Continue \/ (\E status \in Failures : Fail(status))
  BY <1>1 DEF RefreshKeeps, SetCapacity
<1>5. call.todo # << >>
  BY DEF RefreshKeeps, SetCapacity, AtRefresh, AtFrame, At
<1> QED BY <1>3, <1>4, <1>5, AnyCallStep

(* A valid record of a resident chunk names its frame. *)
LEMMA ResidentHasFrame ==
  ASSUME DataInv, NEW k \in Key, IsVictimEligible(chunk[k])
  PROVE  chunk[k].frame \in Frame
BY DEF DataInv, FramesOK, IsVictimEligible, IsResident, ValidRecord, HasFrame

LEMMA StartD2hType ==
  ASSUME TypeInv, NEW k \in Key, StartD2h(k)
  PROVE  TypeInv'
<1>1. DataInv /\ "other" \in Failures /\ chunk[k] \in ChunkRecord /\ call.todo # << >>
  BY DEF TypeInv, DataInv, TypeOK, Failures, StartD2h, AtWriteback, AtKey, At
<1>2. chunk[k].frame \in Frame
  BY <1>1, ResidentHasFrame DEF StartD2h, CanWriteBack
<1> DEFINE r == [BeginGeneration(chunk[k]) EXCEPT !.state = "d2h_in_flight",
                                                  !.staging = Slots + next.d2h]
<1>3. r \in ChunkRecord /\ r.frame = chunk[k].frame
  <2>1. BeginGeneration(chunk[k]) \in ChunkRecord /\ BeginGeneration(chunk[k]).frame = chunk[k].frame
    BY <1>1, RecordTypes
  <2>2. Slots + next.d2h \in Nat
    BY <1>1, FrameTypes DEF DataInv, TypeOK
  <2> QED BY <2>1, <2>2 DEF ChunkRecord, ChunkState
<1>4. chunk' = [chunk EXCEPT ![k] = r]
  BY DEF StartD2h
<1> HIDE DEF r
<1>5. /\ chunk' \in [Key -> ChunkRecord]
      /\ \A j \in Key : chunk'[j].frame = chunk[j].frame
  BY <1>1, <1>3, <1>4 DEF DataInv, TypeOK
<1>6. next' \in [h2d: Slot, d2h: Slot]
  BY <1>1, FrameTypes DEF StartD2h, DataInv, TypeOK
<1>7. dma' \subseteq [key: Key, dir: {"h2d", "d2h"}, slot: Slot]
  BY <1>1 DEF StartD2h, DataInv, TypeOK
<1>8. CASE Push(<<KeyTask("d2h", k)>>) /\ UNCHANGED <<frame, owner, rt>>
  <2>1. DataInv'
    BY <1>1, <1>5, <1>6, <1>7, <1>8 DEF StartD2h, DataInv, TypeOK, FramesOK
  <2> DEFINE t == KeyTask("d2h", k)
             rest == Tail(call.todo)
             s == <<t>> \o rest
  <2>2. t \in Tasks /\ rest \in Seq(Queued)
    BY <1>1, TaskTypes DEF TypeInv, CallOK
  <2>3. t.do = "d2h" /\ t.key = k
    BY DEF KeyTask
  <2> HIDE DEF t, rest
  <2>4. s \in Seq(Tasks) /\ s # << >> /\ Head(s) = t /\ Tail(s) = rest
    <3>1. rest \in Seq(Tasks)
      BY <2>2, QueuedInTasks
    <3> QED BY <2>2, <3>1
  <2>5. call' = [call EXCEPT !.todo = s]
    BY <1>8, <2>3, <2>4 DEF Push, Goto, Unrolled, t, rest
  <2> HIDE DEF s
  <2>6. CallOK' /\ call'.todo = s
    BY <2>2, <2>4, <2>5 DEF TypeInv, CallOK, CallRecord
  <2>7. ToHostHasFrame'
    BY <1>2, <1>5, <2>3, <2>4, <2>6 DEF ToHostHasFrame, AtKey, At
  <2> QED BY <2>1, <2>6, <2>7 DEF TypeInv
<1>9. CASE /\ frame' = [frame EXCEPT ![chunk[k].frame].quarantined = TRUE]
           /\ owner' = QuarantineVa(k)
           /\ rt' = AsyncUnknown
           /\ Fail("other")
  <2>1. frame' \in FrameType /\ owner' \in OwnerType /\ rt' \in RtType
    BY <1>1, <1>9, FrameUpdates, QuarantineType, RtTypes
  <2>2. DataInv'
    BY <1>1, <1>5, <1>6, <1>7, <2>1
       DEF StartD2h, DataInv, TypeOK, FramesOK, FrameType, OwnerType, RtType
  <2> QED BY <1>1, <1>9, <2>2, AnyCallStep
<1> QED BY <1>8, <1>9 DEF StartD2h

LEMMA D2hDoneType ==
  ASSUME TypeInv, NEW k \in Key, D2hDone(k)
  PROVE  TypeInv'
<1>1. DataInv /\ "other" \in Failures /\ call.todo # << >> /\ chunk[k].frame \in Frame
  BY DEF TypeInv, ToHostHasFrame, Failures, D2hDone, AtKey, At
<1>2. dma' \subseteq [key: Key, dir: {"h2d", "d2h"}, slot: Slot]
  BY <1>1 DEF D2hDone, DataInv, TypeOK
<1>3. CASE spill[k] = "stale"
  <2>1. DataInv'
    BY <1>1, <1>2, <1>3 DEF D2hDone, DataInv, TypeOK, FramesOK
  <2> QED BY <1>1, <1>3, <2>1, AnyCallStep DEF D2hDone
<1>4. CASE spill[k] # "stale"
  <2>1. /\ chunk' \in [Key -> ChunkRecord]
        /\ \A j \in Key : chunk'[j].frame \in Frame \union {None}
    BY <1>1, <1>4, RetiredType DEF D2hDone, DataInv, FramesOK
  <2>2. host' \in [Key -> Val \union {Garbage, Invalid}]
    <3>1. device[chunk[k].frame] \in Val \union {Garbage, Invalid}
      BY <1>1 DEF DataInv, TypeOK
    <3>2. host' = [host EXCEPT ![k] = device[chunk[k].frame]]
      BY <1>4 DEF D2hDone
    <3> QED BY <1>1, <3>1, <3>2 DEF DataInv, TypeOK
  <2>3. spill' \in [Key -> {"none", "current", "stale"}]
    BY <1>1, <1>4 DEF D2hDone, DataInv, TypeOK
  <2>4. rt' \in RtType
    BY <1>1, <1>4, RtTypes DEF D2hDone
  <2>5. DataInv'
    BY <1>1, <1>2, <1>4, <2>1, <2>2, <2>3, <2>4 DEF D2hDone, DataInv, TypeOK, FramesOK, RtType
  <2>6. Continue \/ Fail("other")
    BY <1>4 DEF D2hDone
  <2> QED BY <1>1, <2>5, <2>6, AnyCallStep
<1> QED BY <1>3, <1>4

LEMMA TakeDownType ==
  ASSUME DataInv, NEW k \in Key, TakeDown(k)
  PROVE  /\ chunk' \in [Key -> ChunkRecord]
         /\ \A j \in Key : chunk'[j].frame \in Frame \union {None}
         /\ frame' \in FrameType
         /\ device' \in [Frame -> Val \union {Garbage, Invalid}]
<1>1. chunk[k] \in ChunkRecord
  BY DEF DataInv, TypeOK
<1>2. chunk' = [chunk EXCEPT ![k] = [@ EXCEPT !.state = "host_clean", !.frame = None]]
  BY DEF TakeDown
<1>3. [chunk[k] EXCEPT !.state = "host_clean", !.frame = None] \in ChunkRecord
  BY <1>1 DEF ChunkRecord, ChunkState
<1>4. /\ chunk' \in [Key -> ChunkRecord]
      /\ \A j \in Key : chunk'[j].frame \in Frame \union {None}
  BY <1>1, <1>2, <1>3 DEF DataInv, TypeOK, FramesOK, ChunkRecord
<1>5. frame' \in FrameType
  BY FrameUpdates DEF TakeDown
<1>6. device' \in [Frame -> Val \union {Garbage, Invalid}]
  BY DEF TakeDown, DataInv, TypeOK
<1> QED BY <1>4, <1>5, <1>6

LEMMA TakeDownFailsType ==
  ASSUME DataInv, NEW k \in Key, TakeDownFails(k)
  PROVE  frame' \in FrameType /\ owner' \in OwnerType /\ rt' \in RtType
<1>1. PICK kept \in BOOLEAN :
        frame' = [frame EXCEPT ![chunk[k].frame] = [@ EXCEPT !.handle = kept, !.quarantined = TRUE]]
  BY DEF TakeDownFails
<1>2. frame' \in FrameType
  BY <1>1, FrameUpdates
<1> QED BY <1>2, QuarantineType, RtTypes DEF TakeDownFails

LEMMA UnmapType ==
  ASSUME TypeInv, NEW k \in Key, Unmap(k)
  PROVE  TypeInv'
<1>1. DataInv /\ "other" \in Failures /\ call.todo # << >> /\ chunk[k] \in ChunkRecord
  BY DEF TypeInv, DataInv, TypeOK, Failures, Unmap, AtUnmap, AtKey, At
<1>2. CASE TakeDown(k) /\ Continue /\ UNCHANGED <<owner, rt>>
  <2>1. DataInv'
    BY <1>1, <1>2, TakeDownType DEF Unmap, DataInv, TypeOK, FramesOK, FrameType
  <2> QED BY <1>1, <1>2, <2>1, AnyCallStep
<1>3. CASE TakeDownFails(k) /\ chunk' = [chunk EXCEPT ![k].state = "evicting"] /\ UNCHANGED device
  <2>1. /\ chunk' \in [Key -> ChunkRecord]
        /\ \A j \in Key : chunk'[j].frame \in Frame \union {None}
    <3>1. [chunk[k] EXCEPT !.state = "evicting"] \in ChunkRecord
      BY <1>1 DEF ChunkRecord, ChunkState
    <3> QED BY <1>1, <1>3, <3>1 DEF DataInv, TypeOK, FramesOK, ChunkRecord
  <2>2. DataInv'
    BY <1>1, <1>3, <2>1, TakeDownFailsType
       DEF Unmap, DataInv, TypeOK, FramesOK, FrameType, OwnerType, RtType
  <2>3. Fail("other")
    BY <1>3 DEF TakeDownFails
  <2> QED BY <1>1, <2>2, <2>3, AnyCallStep
<1> QED BY <1>2, <1>3 DEF Unmap

LEMMA DropDirtyType ==
  ASSUME TypeInv, NEW k \in Key, DropDirty(k)
  PROVE  TypeInv'
<1>1. DataInv /\ "other" \in Failures /\ call.todo # << >>
  BY DEF TypeInv, Failures, DropDirty, AtKey, At
<1>2. CASE Continue /\ UNCHANGED <<chunk, frame, device, owner, rt>>
  <2>1. DataInv'
    BY <1>1, <1>2 DEF DropDirty, DataInv, TypeOK, FramesOK
  <2> QED BY <1>1, <1>2, <2>1, AnyCallStep
<1>3. CASE TakeDown(k) /\ Continue /\ UNCHANGED <<owner, rt>>
  <2>1. DataInv'
    BY <1>1, <1>3, TakeDownType DEF DropDirty, DataInv, TypeOK, FramesOK, FrameType
  <2> QED BY <1>1, <1>3, <2>1, AnyCallStep
<1>4. CASE TakeDownFails(k) /\ UNCHANGED <<chunk, device>>
  <2>1. DataInv'
    BY <1>1, <1>4, TakeDownFailsType
       DEF DropDirty, DataInv, TypeOK, FramesOK, FrameType, OwnerType, RtType
  <2>2. Fail("other")
    BY <1>4 DEF TakeDownFails
  <2> QED BY <1>1, <2>1, <2>2, AnyCallStep
<1> QED BY <1>2, <1>3, <1>4 DEF DropDirty

-----------------------------------------------------------------------------
(* Steps of the lease. *)

UseType == [gen: Nat, dirty: BOOLEAN, provisional: BOOLEAN, spillHere: BOOLEAN]
LeaseType == [state: {"none", "armed", "submitted", "quarantined"}, held: BOOLEAN,
              seal: {"none", "success", "cancelled", "failed"}, use: [Key -> UseType]]

LEMMA LeaseTypes ==
  ASSUME DataInv
  PROVE  /\ lease \in LeaseType /\ NoLease \in LeaseType
         /\ \A s \in {"none", "armed", "submitted", "quarantined"} :
              [lease EXCEPT !.state = s] \in LeaseType
         /\ \A k \in Key, u \in UseType : [lease EXCEPT !.use[k] = u] \in LeaseType
         /\ \A k \in Key, n \in Nat : [lease EXCEPT !.use[k].gen = n] \in LeaseType
<1>1. lease \in LeaseType /\ NoLease \in LeaseType
  BY DEF DataInv, TypeOK, LeaseType, UseType, NoLease, NoUse
<1>2. ASSUME NEW s \in {"none", "armed", "submitted", "quarantined"}
      PROVE  [lease EXCEPT !.state = s] \in LeaseType
  BY <1>1 DEF LeaseType
<1>3. ASSUME NEW k \in Key, NEW u \in UseType
      PROVE  [lease EXCEPT !.use[k] = u] \in LeaseType
  <2>1. [lease.use EXCEPT ![k] = u] \in [Key -> UseType]
    BY <1>1 DEF LeaseType
  <2> QED BY <1>1, <2>1 DEF LeaseType
<1>4. ASSUME NEW k \in Key, NEW n \in Nat
      PROVE  [lease EXCEPT !.use[k].gen = n] \in LeaseType
  <2>1. [lease.use[k] EXCEPT !.gen = n] \in UseType
    BY <1>1 DEF LeaseType, UseType
  <2>2. [lease EXCEPT !.use[k].gen = n]
        = [lease EXCEPT !.use[k] = [lease.use[k] EXCEPT !.gen = n]]
    BY <1>1 DEF LeaseType
  <2> QED BY <1>3, <2>1, <2>2
<1> QED BY <1>1, <1>2, <1>3, <1>4

LEMMA PrepareUseType ==
  ASSUME TypeInv, NEW k \in Key, PrepareUse(k)
  PROVE  TypeInv'
<1>1. DataInv /\ "other" \in Failures /\ call.todo # << >>
  BY DEF TypeInv, Failures, PrepareUse, AtKey, At
<1> DEFINE dirty == Plan[k] # "read"
           fresh == Plan[k] = "overwrite" /\ chunk[k].state = "host_clean"
           Use(here) == [NoUse EXCEPT !.dirty = dirty, !.spillHere = here, !.provisional = fresh]
<1>2. \A here \in BOOLEAN : Use(here) \in UseType
  <2>1. dirty \in BOOLEAN /\ fresh \in BOOLEAN
    OBVIOUS
  <2> HIDE DEF dirty, fresh
  <2> QED BY <2>1 DEF NoUse, UseType
<1>3. spill' \in [Key -> {"none", "current", "stale"}]
  BY <1>1 DEF PrepareUse, DataInv, TypeOK
<1>4. \/ lease' = [lease EXCEPT !.use[k] = Use(FALSE)]
      \/ lease' = [lease EXCEPT !.use[k] = Use(TRUE)]
      \/ lease' = lease
  BY DEF PrepareUse
<1> HIDE DEF Use
<1>5. lease' \in LeaseType
  BY <1>1, <1>2, <1>4, LeaseTypes
<1>6. DataInv'
  BY <1>1, <1>3, <1>5 DEF PrepareUse, DataInv, TypeOK, FramesOK, LeaseType, UseType
<1>7. Continue \/ Fail("other") \/ (\E s \in Seq(Queued) : Goto(s))
  <2>1. CASE SpillVictims # {}
    <3> DEFINE first == <<KeyTask("writeback", Least(SpillVictims))>>
    <3>1. SpillVictims \in SUBSET Key /\ Key \in SUBSET Nat
      BY FrameTypes DEF SpillVictims, SpillHolders
    <3>2. Least(SpillVictims) \in Key
      BY <2>1, <3>1, LeastElement
    <3>3. first \in Seq(Queued)
      BY <3>2, TaskTypes DEF KeyDo
    <3>4. call.todo \in Seq(Queued)
      BY <1>1, AllQueued DEF TypeInv, PrepareUse, AtKey, At
    <3>5. Continue \/ Fail("other") \/ Goto(first \o call.todo)
      BY <2>1 DEF PrepareUse
    <3> HIDE DEF first
    <3>6. first \o call.todo \in Seq(Queued)
      BY <3>3, <3>4, TwoParts
    <3> QED BY <3>5, <3>6
  <2>2. CASE SpillVictims = {}
    BY <2>2 DEF PrepareUse
  <2> QED BY <2>1, <2>2
<1> QED BY <1>1, <1>6, <1>7, AnyCallStep

LEMMA PinnedType ==
  ASSUME NEW r \in ChunkRecord
  PROVE  PinnedForUse(r) \in ChunkRecord /\ PinnedForUse(r).frame = r.frame
<1> DEFINE b == BeginGeneration(r)
           n == r.pin + 1
<1>1. b \in ChunkRecord /\ b.frame = r.frame
  BY RecordTypes
<1>2. n \in Nat
  BY DEF ChunkRecord
<1>3. PinnedForUse(r) = [b EXCEPT !.pin = n, !.ws = TRUE]
  BY DEF PinnedForUse
<1> HIDE DEF b, n
<1> QED BY <1>1, <1>2, <1>3 DEF ChunkRecord

LEMMA PinType ==
  ASSUME TypeInv, NEW k \in Key, Pin(k)
  PROVE  TypeInv'
<1>1. DataInv /\ call.todo # << >> /\ chunk[k] \in ChunkRecord
  BY DEF TypeInv, DataInv, TypeOK, Pin, AtKey, At
<1> DEFINE r == PinnedForUse(chunk[k])
<1>2. r \in ChunkRecord /\ r.frame = chunk[k].frame
  BY <1>1, PinnedType
<1>3. chunk' = [chunk EXCEPT ![k] = r]
  BY DEF Pin
<1> HIDE DEF r
<1>5. /\ chunk' \in [Key -> ChunkRecord]
      /\ \A j \in Key : chunk'[j].frame \in Frame \union {None}
  BY <1>1, <1>2, <1>3 DEF DataInv, TypeOK, FramesOK
<1>6. lease' \in LeaseType
  <2>1. chunk[k].event + 1 \in Nat
    BY <1>1 DEF ChunkRecord
  <2>2. lease' = [lease EXCEPT !.use[k].gen = chunk[k].event + 1]
    BY DEF Pin
  <2> QED BY <1>1, <2>1, <2>2, LeaseTypes
<1>7. DataInv'
  BY <1>1, <1>5, <1>6 DEF Pin, DataInv, TypeOK, FramesOK, LeaseType, UseType
<1> QED BY <1>1, <1>7, AnyCallStep DEF Pin

LEMMA ArmType ==
  ASSUME TypeInv, Arm
  PROVE  TypeInv'
<1>1. DataInv /\ "other" \in Failures /\ call.todo # << >> /\ << >> \in Seq(Queued)
  BY DEF TypeInv, Failures, Arm, At
<1>2. lease' \in LeaseType
  <2>1. \/ lease' = [lease EXCEPT !.state = "armed", !.held = TRUE]
        \/ lease' = [lease EXCEPT !.state = "armed"]
        \/ lease' = lease
    BY DEF Arm
  <2>2. [lease EXCEPT !.state = "armed", !.held = TRUE] \in LeaseType
    BY <1>1, LeaseTypes DEF LeaseType
  <2> QED BY <1>1, <2>1, <2>2, LeaseTypes
<1>3. rt' \in RtType
  BY <1>1, RtTypes DEF Arm
<1>4. DataInv'
  BY <1>1, <1>2, <1>3 DEF Arm, DataInv, TypeOK, FramesOK, LeaseType, UseType, RtType
<1>5. Goto(<< >>) \/ Fail("other")
  BY DEF Arm
<1> QED BY <1>1, <1>4, <1>5, AnyCallStep

LEMMA ProvisionalType == Provisional \in SUBSET Key
BY DEF Provisional, Members

LEMMA RollbackType ==
  ASSUME TypeInv, Rollback
  PROVE  TypeInv'
<1>1. DataInv /\ call.todo # << >>
  BY DEF TypeInv, Rollback, At
<1>2. /\ chunk' \in [Key -> ChunkRecord]
      /\ \A j \in Key : chunk'[j].frame \in Frame \union {None}
  BY <1>1, UnpinnedType DEF Rollback, DataInv, FramesOK
<1>3. rt' \in RtType
  BY <1>1, RtTypes DEF Rollback
<1>4. DataInv'
  BY <1>1, <1>2, <1>3 DEF Rollback, DataInv, TypeOK, FramesOK, RtType
<1> DEFINE first == ForEach(Provisional, <<"unmapIfClean", "catch">>)
           last == <<Task("dropSpills")>>
<1>5. first \in Seq(Queued)
  BY ProvisionalType, LoopSteps, ForEachType
<1>6. last \in Seq(Queued)
  BY TaskTypes DEF PlainDo
<1>7. Push(first \o last)
  BY DEF Rollback
<1> HIDE DEF first, last
<1>8. first \o last \in Seq(Queued)
  BY <1>5, <1>6, TwoParts
<1> QED BY <1>1, <1>4, <1>7, <1>8, AnyCallStep

LEMMA DropSpillsType ==
  ASSUME TypeInv, DropSpills
  PROVE  TypeInv'
<1>1. DataInv /\ call.todo # << >>
  BY DEF TypeInv, DropSpills, At
<1>2. spill' \in [Key -> {"none", "current", "stale"}]
  BY <1>1 DEF DropSpills, WithoutSpillsOfLease, DataInv, TypeOK
<1>3. lease' \in LeaseType
  BY <1>1, LeaseTypes DEF DropSpills
<1>4. DataInv'
  BY <1>1, <1>2, <1>3 DEF DropSpills, DataInv, TypeOK, FramesOK, LeaseType, UseType
<1>5. <<Task("forceRefresh")>> \in Seq(Queued) /\ << >> \in Seq(Queued)
  BY TaskTypes DEF PlainDo
<1>6. Goto(<<Task("forceRefresh")>>) \/ Goto(<< >>)
  BY DEF DropSpills
<1> QED BY <1>1, <1>4, <1>5, <1>6, AnyCallStep

LEMMA SealType ==
  ASSUME TypeInv, NEW mode \in {"success", "cancelled", "failed"}, Seal(mode)
  PROVE  TypeInv'
<1>1. DataInv /\ call' = call
  BY DEF TypeInv, Seal
<1>2. /\ chunk' \in [Key -> ChunkRecord]
      /\ \A j \in Key : chunk'[j].frame = chunk[j].frame
  <2> DEFINE dirty(j) == [chunk[j] EXCEPT !.state = "resident_dirty"]
  <2>1. ASSUME NEW j \in Key
        PROVE  dirty(j) \in ChunkRecord /\ dirty(j).frame = chunk[j].frame
    <3>1. chunk[j] \in ChunkRecord
      BY <1>1 DEF DataInv, TypeOK
    <3> QED BY <3>1 DEF ChunkRecord, ChunkState
  <2> DEFINE dirtied == {k \in Members : lease.use[k].dirty /\ mode # "cancelled"}
  <2>2. \/ chunk' = chunk
        \/ chunk' = [k \in Key |->
                       IF k \in dirtied /\ chunk[k].state = "resident_clean"
                       THEN dirty(k) ELSE chunk[k]]
    BY DEF Seal
  <2> HIDE DEF dirtied, dirty
  <2>3. chunk \in [Key -> ChunkRecord]
    BY <1>1 DEF DataInv, TypeOK
  <2>4. CASE chunk' = chunk
    BY <2>3, <2>4
  <2>5. CASE chunk' = [k \in Key |->
                         IF k \in dirtied /\ chunk[k].state = "resident_clean"
                         THEN dirty(k) ELSE chunk[k]]
    BY <2>1, <2>3, <2>5
  <2> QED BY <2>2, <2>4, <2>5
<1>3. lease' \in LeaseType
  <2>1. lease' \in {[lease EXCEPT !.state = "submitted", !.seal = mode],
                    [lease EXCEPT !.state = "quarantined"]}
    BY DEF Seal
  <2>2. [lease EXCEPT !.state = "submitted", !.seal = mode] \in LeaseType
    BY <1>1, LeaseTypes DEF LeaseType
  <2> QED BY <1>1, <2>1, <2>2, LeaseTypes
<1>4. rt' \in RtType
  BY <1>1, RtTypes DEF Seal
<1>5. DataInv'
  BY <1>1, <1>2, <1>3, <1>4
     DEF Seal, DataInv, TypeOK, FramesOK, LeaseType, UseType, RtType
<1> QED BY <1>1, <1>2, <1>5, SameCall

LEMMA RetireUnknownType ==
  ASSUME TypeInv, RetireUnknown
  PROVE  TypeInv'
<1>1. DataInv /\ "other" \in Failures /\ call.todo # << >>
  BY DEF TypeInv, Failures, RetireUnknown, AtRetire, At
<1>2. lease' \in LeaseType /\ rt' \in RtType
  BY <1>1, LeaseTypes, RtTypes DEF RetireUnknown
<1>3. DataInv'
  BY <1>1, <1>2 DEF RetireUnknown, DataInv, TypeOK, FramesOK, LeaseType, UseType, RtType
<1> QED BY <1>1, <1>3, AnyCallStep DEF RetireUnknown

LEMMA RetireType ==
  ASSUME TypeInv, Retire
  PROVE  TypeInv'
<1>1. DataInv /\ "other" \in Failures /\ call.todo # << >>
  BY DEF TypeInv, Failures, Retire, AtRetire, At
<1>2. /\ chunk' \in [Key -> ChunkRecord]
      /\ \A j \in Key : chunk'[j].frame \in Frame \union {None}
  BY <1>1, UnpinnedType DEF Retire, DataInv, FramesOK
<1>3. lease' \in LeaseType /\ rt' \in RtType
  BY <1>1, LeaseTypes, RtTypes DEF Retire
<1>4. DataInv'
  BY <1>1, <1>2, <1>3 DEF Retire, DataInv, TypeOK, FramesOK, LeaseType, UseType, RtType
<1> DEFINE first == IF lease.seal = "cancelled"
                    THEN ForEach(Provisional, <<"unmapIfClean">>) ELSE << >>
           last == <<Task("finishLease")>>
<1>5. first \in Seq(Queued)
  <2>1. ForEach(Provisional, <<"unmapIfClean">>) \in Seq(Queued)
    BY ProvisionalType, LoopSteps, ForEachType
  <2> QED BY <2>1
<1>6. last \in Seq(Queued)
  BY TaskTypes DEF PlainDo
<1>7. Push(first \o last) \/ Fail("other")
  BY DEF Retire
<1> HIDE DEF first, last
<1>8. first \o last \in Seq(Queued)
  BY <1>5, <1>6, TwoParts
<1> QED BY <1>1, <1>4, <1>7, <1>8, AnyCallStep

LEMMA FinishLeaseType ==
  ASSUME TypeInv, FinishLease
  PROVE  TypeInv'
<1>1. DataInv /\ "other" \in Failures /\ call.todo # << >>
  BY DEF TypeInv, Failures, FinishLease, At
<1>2. lease' \in LeaseType
  BY <1>1, LeaseTypes DEF FinishLease
<1>3. rt' \in RtType
  BY <1>1, RtTypes DEF FinishLease
<1>4. spill' \in [Key -> {"none", "current", "stale"}]
  BY <1>1 DEF FinishLease, WithoutSpillsOfLease, DataInv, TypeOK
<1>5. gpu' \in [phase: {"idle", "running", "finished"}, keys: SUBSET Key,
                writes: SUBSET Key, unwritten: SUBSET Key]
  BY <1>1 DEF FinishLease, NoKernel, DataInv, TypeOK
<1>6. DataInv'
  BY <1>1, <1>2, <1>3, <1>4, <1>5
     DEF FinishLease, DataInv, TypeOK, FramesOK, LeaseType, UseType, RtType
<1>7. Continue \/ Fail("other")
  BY DEF FinishLease
<1> QED BY <1>1, <1>6, <1>7, AnyCallStep

LEMMA HostStepsType ==
  ASSUME TypeInv, NEW k \in Key, PutHost(k) \/ Invalidate(k)
  PROVE  TypeInv'
<1>1. DataInv /\ "other" \in Failures /\ call.todo # << >> /\ call.val \in Val
  BY DEF TypeInv, CallOK, CallRecord, Failures, PutHost, Invalidate, AtKey, At
<1>2. host' \in [Key -> Val \union {Garbage, Invalid}]
  BY <1>1 DEF PutHost, Invalidate, DataInv, TypeOK
<1>3. spill' \in [Key -> {"none", "current", "stale"}]
  BY <1>1 DEF PutHost, Invalidate, Stale, DataInv, TypeOK
<1>4. rt' \in RtType
  BY <1>1, RtTypes DEF PutHost, Invalidate
<1>5. DataInv'
  BY <1>1, <1>2, <1>3, <1>4 DEF PutHost, Invalidate, DataInv, TypeOK, FramesOK, RtType
<1>6. Continue \/ Fail("other")
  BY DEF PutHost, Invalidate
<1> QED BY <1>1, <1>5, <1>6, AnyCallStep

-----------------------------------------------------------------------------
(* Steps of release and close, and of the client. *)

LEMMA ForgottenType ==
  ASSUME DataInv, NEW K, Forgotten(K)
  PROVE  /\ chunk' \in [Key -> ChunkRecord]
         /\ \A j \in Key : chunk'[j].frame \in Frame \union {None}
         /\ spill' \in [Key -> {"none", "current", "stale"}]
         /\ host' \in [Key -> Val \union {Garbage, Invalid}]
<1>1. NewChunk \in ChunkRecord /\ NewChunk.frame = None /\ Zero \in Val
  BY RuntimeAssumption DEF NewChunk, ChunkRecord, ChunkState
<1> QED BY <1>1 DEF Forgotten, DataInv, TypeOK, FramesOK

LEMMA EraseType ==
  ASSUME TypeInv, NEW a \in Alloc, EraseAllocation(a)
  PROVE  TypeInv'
<1>1. DataInv /\ "other" \in Failures /\ call.todo # << >>
  BY DEF TypeInv, Failures, EraseAllocation, At
<1>2. CASE Fail("other") /\ UNCHANGED <<owner, chunk, spill, host>>
  <2>1. DataInv'
    BY <1>1, <1>2 DEF EraseAllocation, DataInv, TypeOK, FramesOK
  <2> QED BY <1>1, <1>2, <2>1, AnyCallStep
<1>3. CASE ~(Fail("other") /\ UNCHANGED <<owner, chunk, spill, host>>)
  <2>1. /\ owner' = [owner EXCEPT ![a] =
                       [live |-> FALSE,
                        va |-> IF @.va = "quarantined" THEN @.va
                               ELSE IF RetainReleasedVa THEN "retired" ELSE "freed"]]
        /\ Forgotten(KeysOf(a))
        /\ Continue
    BY <1>3 DEF EraseAllocation
  <2>2. owner' \in OwnerType
    BY <1>1, <2>1 DEF DataInv, TypeOK, OwnerType
  <2>3. DataInv'
    BY <1>1, <2>1, <2>2, ForgottenType DEF EraseAllocation, DataInv, TypeOK, FramesOK, OwnerType
  <2> QED BY <1>1, <2>1, <2>3, AnyCallStep
<1> QED BY <1>2, <1>3

LEMMA AbandonType ==
  ASSUME TypeInv, Abandon
  PROVE  TypeInv'
<1>1. DataInv /\ call.todo # << >>
  BY DEF TypeInv, Abandon, At
<1>2. lease' \in LeaseType
  BY <1>1, LeaseTypes DEF Abandon
<1>3. rt' \in RtType
  <2> DEFINE ok == rt.closeOk /\ call.failure = "none"
  <2>1. ok \in BOOLEAN
    OBVIOUS
  <2>2. rt' \in {[AsyncUnknown EXCEPT !.closeOk = FALSE], [rt EXCEPT !.closeOk = ok]}
    BY DEF Abandon
  <2> HIDE DEF ok
  <2> QED BY <1>1, <2>1, <2>2, RtTypes
<1>4. DataInv'
  BY <1>1, <1>2, <1>3 DEF Abandon, DataInv, TypeOK, FramesOK, LeaseType, UseType, RtType
<1> QED BY <1>1, <1>4, AnyCallStep DEF Abandon

LEMMA CloseFrameType ==
  ASSUME TypeInv, NEW f \in Frame, CloseFrame(f)
  PROVE  TypeInv'
<1>1. DataInv /\ call.todo # << >> /\ frame \in FrameType /\ owner \in OwnerType
  BY DEF TypeInv, DataInv, TypeOK, FrameType, OwnerType, CloseFrame, AtFrame, At
<1>2. CASE ~Mapped(f)
  <2>1. DataInv'
    BY <1>1, <1>2 DEF CloseFrame, DataInv, TypeOK, FramesOK
  <2> QED BY <1>1, <1>2, <2>1, AnyCallStep DEF CloseFrame
<1>3. CASE Mapped(f)
  <2> DEFINE k == frame[f].key
             first == IF chunk[k].state = "resident_dirty" THEN <<KeyTask("writeback", k)>>
                      ELSE << >>
             middle == IF IsResident(chunk[k]) THEN <<KeyTask("unmap", k)>> ELSE << >>
             last == <<FrameTask("closeCheck", f)>>
  <2>1. k \in Key
    BY <1>1, <1>3 DEF Mapped, FrameType
  <2>2. KeyTask("writeback", k) \in Queued /\ KeyTask("unmap", k) \in Queued
           /\ FrameTask("closeCheck", f) \in Queued
    BY <2>1, TaskTypes, FrameTypes DEF KeyDo, FrameDo
  <2>3. first \in Seq(Queued) /\ middle \in Seq(Queued) /\ last \in Seq(Queued)
    BY <2>2
  <2>4. first \o middle \o last \in Seq(Queued)
    <3> HIDE DEF first, middle, last
    <3> QED BY <2>3, TwoParts
  <2>5. Continue \/ Push(first \o middle \o last)
    BY <1>3 DEF CloseFrame
  <2>6. frame' \in FrameType
    <3>1. frame' \in {frame, [frame EXCEPT ![f].quarantined = TRUE]}
      BY <1>3 DEF CloseFrame
    <3> QED BY <1>1, <3>1, FrameUpdates
  <2>7. owner' \in OwnerType
    <3>1. owner' = owner \/ owner' = QuarantineVa(k)
      BY <1>3 DEF CloseFrame
    <3> QED BY <1>1, <2>1, <3>1, QuarantineType
  <2>8. rt' \in RtType
    <3>1. rt' \in {rt, [Poisoned EXCEPT !.closeOk = FALSE], [rt EXCEPT !.closeOk = FALSE]}
      BY <1>3 DEF CloseFrame
    <3> QED BY <1>1, <3>1, RtTypes
  <2> HIDE DEF k, first, middle, last
  <2>9. DataInv'
    BY <1>1, <2>6, <2>7, <2>8
       DEF CloseFrame, DataInv, TypeOK, FramesOK, FrameType, OwnerType, RtType
  <2> QED BY <1>1, <2>4, <2>5, <2>9, AnyCallStep
<1> QED BY <1>2, <1>3

LEMMA CloseCheckType ==
  ASSUME TypeInv, NEW f \in Frame, CloseCheck(f)
  PROVE  TypeInv'
<1>1. DataInv /\ call.todo # << >> /\ owner \in OwnerType
  BY DEF TypeInv, DataInv, TypeOK, OwnerType, CloseCheck, AtFrame, At
<1>2. rt' \in RtType
  BY <1>1, RtTypes DEF CloseCheck
<1>3. owner' \in OwnerType
  <2>1. Mapped(f) => frame[f].key \in Key
    BY <1>1 DEF Mapped, DataInv, TypeOK
  <2>2. owner' = owner \/ (Mapped(f) /\ owner' = QuarantineVa(frame[f].key))
    BY DEF CloseCheck
  <2> QED BY <1>1, <2>1, <2>2, QuarantineType
<1>4. DataInv'
  BY <1>1, <1>2, <1>3 DEF CloseCheck, DataInv, TypeOK, FramesOK, OwnerType, RtType
<1> QED BY <1>1, <1>4, AnyCallStep DEF CloseCheck

LEMMA CloseEndType ==
  ASSUME TypeInv, NEW FA, NEW FF, CloseEnd(FA, FF)
  PROVE  TypeInv'
<1>1. DataInv /\ call.todo # << >> /\ frame \in FrameType /\ owner \in OwnerType
  BY DEF TypeInv, DataInv, TypeOK, FrameType, OwnerType, CloseEnd, At
<1> DEFINE busy == {a \in Alloc : owner[a].live /\ (LiveMapping(a) \/ owner[a].va = "quarantined")}
           mapped == {f \in Frame : Mapped(f) /\ frame[f].handle}
           poison == rt.poisoned \/ busy # {} \/ mapped # {}
           ok == /\ CloseSucceeded(FA, FF)
                 /\ busy = {} /\ mapped = {} /\ ~rt.asyncQ
           keep(f) == frame[f].handle /\ (Kept(f) \/ f \in FF)
           va(a) == IF a \in busy THEN "quarantined"
                    ELSE IF HoldsVa(a) /\ a \notin FA THEN "freed" ELSE owner[a].va
<1>2. /\ owner' = [a \in Alloc |-> [live |-> FALSE, va |-> va(a)]]
      /\ frame' = [f \in Frame |-> [frame[f] EXCEPT !.handle = keep(f)]]
      /\ Forgotten(Key)
      /\ rt' = [rt EXCEPT !.closed = TRUE, !.pools = rt.asyncQ, !.poisoned = poison,
                          !.closeOk = ok]
      /\ Goto(<< >>)
  BY DEF CloseEnd
<1>3. \A f \in Frame : keep(f) \in BOOLEAN
  OBVIOUS
<1>4. \A a \in Alloc : va(a) \in {"none", "held", "quarantined", "retired", "freed"}
  <2> HIDE DEF busy
  <2> QED BY <1>1 DEF OwnerType
<1>5. poison \in BOOLEAN /\ ok \in BOOLEAN
  OBVIOUS
<1> HIDE DEF busy, mapped, poison, ok, keep, va
<1>6. frame' \in FrameType
  BY <1>1, <1>2, <1>3 DEF FrameType
<1>7. owner' \in OwnerType
  BY <1>2, <1>4 DEF OwnerType
<1>8. rt' \in RtType
  <2>1. rt \in RtType /\ rt.asyncQ \in BOOLEAN
    BY <1>1, RtTypes DEF RtType
  <2> QED BY <1>2, <1>5, <2>1 DEF RtType
<1>9. DataInv'
  BY <1>1, <1>2, <1>6, <1>7, <1>8, ForgottenType
     DEF CloseEnd, DataInv, TypeOK, FramesOK, FrameType, OwnerType, RtType
<1>10. << >> \in Seq(Queued)
  OBVIOUS
<1> QED BY <1>1, <1>2, <1>9, <1>10, AnyCallStep

LEMMA ClientStepsType ==
  ASSUME TypeInv,
         (\E a \in Alloc : Allocate(a)) \/ Launch \/ (\E k \in Key, v \in Val : KernelWrites(k, v))
           \/ KernelFinishes
  PROVE  TypeInv'
<1>1. DataInv /\ call' = call /\ chunk' = chunk
  BY DEF TypeInv, Allocate, Launch, KernelWrites, KernelFinishes
<1>2. CASE \E a \in Alloc : Allocate(a)
  <2>1. DataInv'
    <3>1. PICK a \in Alloc : Allocate(a)
      BY <1>2
    <3>2. owner' \in OwnerType
      BY <1>1, <3>1 DEF Allocate, DataInv, TypeOK, OwnerType
    <3> QED BY <1>1, <3>1, <3>2 DEF Allocate, DataInv, TypeOK, FramesOK, OwnerType
  <2> QED BY <1>1, <2>1, SameCall
<1>3. CASE Launch
  <2>1. gpu' \in [phase: {"idle", "running", "finished"}, keys: SUBSET Key,
                  writes: SUBSET Key, unwritten: SUBSET Key]
    BY <1>3 DEF Launch, Members, Provisional
  <2>2. DataInv'
    <3>1. UNCHANGED <<chunk, frame, device, capacity, host, spill, owner, lease, dma, next, rt>>
      BY <1>3 DEF Launch
    <3> QED BY <1>1, <2>1, <3>1 DEF DataInv, TypeOK, FramesOK
  <2> QED BY <1>1, <2>2, SameCall
<1>4. CASE \E k \in Key, v \in Val : KernelWrites(k, v)
  <2>1. PICK k \in Key, v \in Val : KernelWrites(k, v)
    BY <1>4
  <2>2. device' \in [Frame -> Val \union {Garbage, Invalid}]
    BY <1>1, <2>1 DEF KernelWrites, DataInv, TypeOK
  <2>3. gpu' \in [phase: {"idle", "running", "finished"}, keys: SUBSET Key,
                  writes: SUBSET Key, unwritten: SUBSET Key]
    BY <1>1, <2>1 DEF KernelWrites, DataInv, TypeOK
  <2>4. DataInv'
    <3>1. UNCHANGED <<chunk, frame, capacity, host, spill, owner, lease, dma, next, rt>>
      BY <2>1 DEF KernelWrites
    <3> QED BY <1>1, <2>2, <2>3, <3>1 DEF DataInv, TypeOK, FramesOK
  <2> QED BY <1>1, <2>4, SameCall
<1>5. CASE KernelFinishes
  <2>1. gpu' \in [phase: {"idle", "running", "finished"}, keys: SUBSET Key,
                  writes: SUBSET Key, unwritten: SUBSET Key]
    BY <1>1, <1>5 DEF KernelFinishes, DataInv, TypeOK
  <2>2. DataInv'
    <3>1. UNCHANGED <<chunk, frame, device, capacity, host, spill, owner, lease, dma, next, rt>>
      BY <1>5 DEF KernelFinishes
    <3> QED BY <1>1, <2>1, <3>1 DEF DataInv, TypeOK, FramesOK
  <2> QED BY <1>1, <2>2, SameCall
<1> QED BY <1>2, <1>3, <1>4, <1>5

-----------------------------------------------------------------------------
LEMMA WorkerType ==
  ASSUME TypeInv, Worker
  PROVE  TypeInv'
<1>1. ASSUME NEW k \in Key, NEW f \in Frame,
             \/ MapRefused(k, f) \/ MapFails(k, f) \/ MapRollbackFails(k, f)
             \/ MapAndSubmit(k, f) \/ MapAndSubmitFails(k, f) \/ MapWithoutSource(k, f)
      PROVE  TypeInv'
  BY <1>1, MapStepsType, TaskListStepsType
<1>2. ASSUME NEW k \in Key,
             H2dDone(k) \/ TransferStuck(k) \/ RetireFailedH2d(k)
      PROVE  TypeInv'
  BY <1>2, H2dStepsType
<1>3. ASSUME NEW k \in Key,
             \/ EnsureHit(k) \/ EnsureMiss(k) \/ WritebackSkipped(k) \/ UnmapSkipped(k)
             \/ GetHost(k)
      PROVE  TypeInv'
  BY <1>3, EnsureMissType, TaskListStepsType
<1>4. ASSUME NEW k \in Key,
             \/ StartD2h(k) \/ D2hDone(k) \/ Unmap(k) \/ DropDirty(k)
             \/ PrepareUse(k) \/ Pin(k) \/ PutHost(k) \/ Invalidate(k)
      PROVE  TypeInv'
  BY <1>4, StartD2hType, D2hDoneType, UnmapType, DropDirtyType, PrepareUseType, PinType,
     HostStepsType
<1>5. ASSUME NEW f \in Frame,
             \/ CreateHandle(f) \/ CreateHandleFails(f) \/ DropMapping(f)
             \/ ReleaseTailHandle(f) \/ CloseFrame(f) \/ CloseCheck(f)
      PROVE  TypeInv'
  BY <1>5, HandleStepsType, DropMappingType, CloseFrameType, CloseCheckType
<1>6. ASSUME NEW observed \in 0..MaxFrames,
             RefreshShrinks(observed) \/ RefreshKeeps(observed) \/ SetCapacity(observed)
      PROVE  TypeInv'
  BY <1>6, RefreshShrinksType, CapacityStepsType
<1>7. ASSUME \/ RefreshSkipped \/ RefreshFails \/ CheckCapacity \/ EnsureWorkspace
             \/ FailTask \/ Catching \/ Arm \/ Rollback \/ DropSpills
      PROVE  TypeInv'
  BY <1>7, TaskListStepsType, EnsureWorkspaceType, ArmType, RollbackType, DropSpillsType
<1>8. ASSUME PollNotReady \/ RetireUnknown \/ Retire \/ FinishLease \/ CheckSources \/ Abandon
      PROVE  TypeInv'
  BY <1>8, TaskListStepsType, RetireUnknownType, RetireType, FinishLeaseType, AbandonType
<1>9. ASSUME NEW a \in Alloc, EraseAllocation(a) PROVE TypeInv'
  BY <1>9, EraseType
<1>10. ASSUME NEW FA, NEW FF, CloseEnd(FA, FF) PROVE TypeInv'
  BY <1>10, CloseEndType
<1> QED
  BY <1>1, <1>2, <1>3, <1>4, <1>5, <1>6, <1>7, <1>8, <1>9, <1>10 DEF Worker

LEMMA ClientType ==
  ASSUME TypeInv, Client
  PROVE  TypeInv'
<1>1. ASSUME NEW a \in Alloc,
             \/ Allocate(a) \/ Release(a)
             \/ \E plan \in RangePlans(a, {"full"}) : DiscardDead(a, plan)
             \/ \E plan \in RangePlans(a, {"full", "part"}), v \in Val : Write(a, plan, v)
             \/ \E plan \in RangePlans(a, {"part"}) : Read(a, plan)
      PROVE  TypeInv'
  BY <1>1, ClientStepsType, ReleaseType, DiscardType, WriteType, ReadType
<1>2. ASSUME NEW plan \in Plans(LiveKeys, PrefetchModes), Prefetch(plan) PROVE TypeInv'
  BY <1>2, PrefetchType
<1>3. ASSUME NEW plan \in Plans(LiveKeys, Mode), AcquireExternal(plan) PROVE TypeInv'
  BY <1>3, AcquireType
<1>4. ASSUME NEW mode \in {"success", "cancelled", "failed"}, Seal(mode) PROVE TypeInv'
  BY <1>4, SealType
<1>5. ASSUME Poll \/ Wait \/ (\E r \in BOOLEAN : Drain(r)) \/ Close \/ Launch PROVE TypeInv'
  BY <1>5, PollWaitType, DrainType, CloseType, ClientStepsType
<1> QED
  BY <1>1, <1>2, <1>3, <1>4, <1>5 DEF Client

LEMMA StepType == TypeInv /\ [Next]_vars => TypeInv'
<1> SUFFICES ASSUME TypeInv, [Next]_vars PROVE TypeInv'
  OBVIOUS
<1>1. CASE Worker
  BY <1>1, WorkerType
<1>2. CASE Client
  BY <1>2, ClientType
<1>3. CASE Kernel
  BY <1>3, ClientStepsType DEF Kernel
<1>4. CASE UNCHANGED vars
  <2>1. UNCHANGED data /\ call' = call /\ chunk' = chunk
    BY <1>4 DEF vars, data
  <2> QED BY <2>1, SameData, SameCall DEF TypeInv
<1> QED BY <1>1, <1>2, <1>3, <1>4 DEF Next

(* Whatever calls the clients make, whichever of them fail and however the *)
(* kernel and the copies interleave with them, every variable keeps its    *)
(* type: every map, h2d and retirement task (runtime.cpp, ensure_resident, *)
(* writeback, unmap) is executed with the fields it needs.                 *)
THEOREM TypeCorrect == Spec => []TypeOK
<1>1. TypeInv => TypeOK
  BY DEF TypeInv, DataInv
<1> QED BY <1>1, InitType, StepType, PTL DEF Spec

-----------------------------------------------------------------------------
(* Once the runtime is poisoned, nothing is admitted any more.             *)
(*                                                                         *)
(* The runtime may be poisoned in the middle of an acquire, with the tasks *)
(* of the acquire still in the list.  The invariant says why none of them  *)
(* arms the lease: a list that still admits has no handler in front of the *)
(* task that does, so that a failure cannot continue towards it; and the   *)
(* one path that poisons without failing at once fails within two tasks.   *)

Admits(t) == t.do \in {"arm", "workspace"}

(* After such a task nothing is admitted in the same call. *)
EndsAdmission(t) ==
  \/ t.do \in Catch \union {"poll", "wait"}
  \/ t.do = "forEach" /\ \E i \in DOMAIN t.steps : t.steps[i] = "catch"

Unarmed == {t \in Tasks : ~Admits(t)}
Steady == {t \in Unarmed : ~EndsAdmission(t)}

NoAdmission(s) == s \in Seq(Unarmed)
AdmitsFirst(s) ==
  \A i, j \in DOMAIN s : i <= j /\ EndsAdmission(s[i]) => ~Admits(s[j])

(* A mapping whose host backing turned out to be invalid is taken down and *)
(* then fails.                                                             *)
Doomed(s) ==
  \/ Len(s) >= 1 /\ s[1].do = "fail"
  \/ Len(s) >= 2 /\ s[1].do = "unmap" /\ s[2].do = "fail"
  \/ Len(s) >= 3 /\ s[1].do = "retireH2d" /\ s[2].do = "unmap" /\ s[3].do = "fail"

PoisonInv ==
  /\ AdmitsFirst(call.todo)
  /\ rt.poisoned => NoAdmission(call.todo) \/ Doomed(call.todo)

-----------------------------------------------------------------------------
(* Lists of tasks.                                                         *)

LEMMA CalmTasks ==
  /\ Unarmed \subseteq Tasks /\ Steady \subseteq Unarmed
  /\ \A do \in KeyDo \union {"d2h"}, k \in Key : KeyTask(do, k) \in Unarmed
  /\ \A do \in (KeyDo \union {"d2h"}) \ {"catch"}, k \in Key : KeyTask(do, k) \in Steady
  /\ \A do \in FrameDo, f \in Nat : FrameTask(do, f) \in Unarmed
  /\ \A do \in FrameDo \ {"closeFrame", "closeCheck"}, f \in Nat : FrameTask(do, f) \in Steady
  /\ \A k \in Key, f \in Frame : MapTask(k, f) \in Steady
  /\ \A do \in PlainDo \ {"arm", "workspace"} : Task(do) \in Unarmed
  /\ \A do \in {"refresh", "forceRefresh", "checkCapacity", "fail"} : Task(do) \in Steady
  /\ Loops \subseteq Unarmed
<1>1. Unarmed \subseteq Tasks /\ Steady \subseteq Unarmed
  BY DEF Unarmed, Steady
<1>2. \A do \in KeyDo \union {"d2h"}, k \in Key :
         KeyTask(do, k) \in Unarmed /\ (do # "catch" => KeyTask(do, k) \in Steady)
  <2>1. \A do \in KeyDo \union {"d2h"}, k \in Key : KeyTask(do, k) \in Tasks
    BY TaskTypes DEF Tasks
  <2> QED BY <2>1 DEF Unarmed, Steady, Admits, EndsAdmission, Catch, KeyTask, KeyDo, LoopDo
<1>3. \A do \in FrameDo, f \in Nat :
         /\ FrameTask(do, f) \in Unarmed
         /\ do \notin {"closeFrame", "closeCheck"} => FrameTask(do, f) \in Steady
  <2>1. \A do \in FrameDo, f \in Nat : FrameTask(do, f) \in Tasks
    BY TaskTypes DEF Tasks
  <2> QED BY <2>1 DEF Unarmed, Steady, Admits, EndsAdmission, Catch, FrameTask, FrameDo
<1>4. \A k \in Key, f \in Frame : MapTask(k, f) \in Steady
  <2>1. \A k \in Key, f \in Frame : MapTask(k, f) \in Tasks
    BY TaskTypes DEF Tasks
  <2> QED BY <2>1 DEF Unarmed, Steady, Admits, EndsAdmission, Catch, MapTask
<1>5. \A do \in PlainDo \ {"arm", "workspace"} : Task(do) \in Unarmed
  <2>1. \A do \in PlainDo : Task(do) \in Tasks
    BY TaskTypes DEF Tasks
  <2> QED BY <2>1 DEF Unarmed, Admits, Task
<1>6. \A do \in {"refresh", "forceRefresh", "checkCapacity", "fail"} : Task(do) \in Steady
  <2>1. \A do \in {"refresh", "forceRefresh", "checkCapacity", "fail"} : Task(do) \in Unarmed
    BY <1>5 DEF PlainDo
  <2> QED BY <2>1 DEF Steady, EndsAdmission, Catch, Task
<1>7. Loops \subseteq Unarmed
  <2>1. Loops \subseteq Tasks /\ \A t \in Loops : t.do = "forEach"
    BY DEF Loops, Queued, Tasks
  <2> QED BY <2>1 DEF Unarmed, Admits
<1> QED BY <1>1, <1>2, <1>3, <1>4, <1>5, <1>6, <1>7

LEMMA CalmIsAdmitsFirst ==
  ASSUME NEW s, NoAdmission(s)
  PROVE  AdmitsFirst(s)
<1>1. s \in Seq(Unarmed) /\ DOMAIN s = 1..Len(s)
  BY DEF NoAdmission
<1>2. \A j \in DOMAIN s : s[j] \in Unarmed
  BY <1>1, ElementOfSeq
<1> QED BY <1>2 DEF AdmitsFirst, Unarmed

LEMMA TailAdmitsFirst ==
  ASSUME NEW s \in Seq(Tasks), s # << >>, AdmitsFirst(s)
  PROVE  AdmitsFirst(Tail(s)) /\ (EndsAdmission(Head(s)) => NoAdmission(s))
<1>1. /\ Len(s) \in Nat \ {0} /\ DOMAIN s = 1..Len(s) /\ Head(s) = s[1]
      /\ Tail(s) \in Seq(Tasks) /\ Len(Tail(s)) = Len(s) - 1
      /\ \A i \in 1..Len(Tail(s)) : Tail(s)[i] = s[i + 1]
  BY EmptySeq, HeadTailProperties
<1>2. DOMAIN Tail(s) = 1..(Len(s) - 1)
  BY <1>1, LenProperties
<1>3. AdmitsFirst(Tail(s))
  <2> SUFFICES ASSUME NEW i \in DOMAIN Tail(s), NEW j \in DOMAIN Tail(s), i <= j,
                      EndsAdmission(Tail(s)[i])
               PROVE  ~Admits(Tail(s)[j])
    BY DEF AdmitsFirst
  <2>1. i + 1 \in DOMAIN s /\ j + 1 \in DOMAIN s /\ i + 1 <= j + 1
    BY <1>1, <1>2
  <2>2. Tail(s)[i] = s[i + 1] /\ Tail(s)[j] = s[j + 1]
    BY <1>1, <1>2
  <2> QED BY <2>1, <2>2 DEF AdmitsFirst
<1>4. EndsAdmission(Head(s)) => NoAdmission(s)
  <2> SUFFICES ASSUME EndsAdmission(Head(s)) PROVE s \in Seq(Unarmed)
    BY DEF NoAdmission
  <2>1. \A j \in 1..Len(s) : s[j] \in Unarmed
    <3> TAKE j \in 1..Len(s)
    <3>1. ~Admits(s[j])
      BY <1>1 DEF AdmitsFirst
    <3>2. s[j] \in Tasks
      BY ElementOfSeq
    <3> QED BY <3>1, <3>2 DEF Unarmed
  <2>2. s \in [1..Len(s) -> Unarmed]
    BY <1>1, <2>1
  <2> QED BY <1>1, <2>2, SeqDef
<1> QED BY <1>3, <1>4

(* A prefix after which admission goes on may precede any list. *)
LEMMA SteadyPrefix ==
  ASSUME NEW p \in Seq(Steady), NEW s \in Seq(Tasks), AdmitsFirst(s)
  PROVE  p \o s \in Seq(Tasks) /\ AdmitsFirst(p \o s)
<1>1. p \in Seq(Tasks)
  BY SeqMonotonic, CalmTasks
<1> DEFINE u == p \o s
<1>2. /\ u \in Seq(Tasks) /\ Len(u) = Len(p) + Len(s)
      /\ \A i \in 1..Len(p) + Len(s) : u[i] = IF i <= Len(p) THEN p[i] ELSE s[i - Len(p)]
  BY <1>1, ConcatProperties
<1>3. DOMAIN u = 1..(Len(p) + Len(s)) /\ Len(p) \in Nat /\ Len(s) \in Nat /\ DOMAIN s = 1..Len(s)
  BY <1>2
<1>4. \A i \in 1..Len(p) : ~EndsAdmission(p[i]) /\ ~Admits(p[i])
  <2>1. \A i \in 1..Len(p) : p[i] \in Steady
    BY ElementOfSeq
  <2> QED BY <2>1 DEF Steady, Unarmed
<1> HIDE DEF u
<1>5. AdmitsFirst(u)
  <2> SUFFICES ASSUME NEW i \in DOMAIN u, NEW j \in DOMAIN u, i <= j, EndsAdmission(u[i])
               PROVE  ~Admits(u[j])
    BY DEF AdmitsFirst
  <2>1. i \in 1..(Len(p) + Len(s)) /\ j \in 1..(Len(p) + Len(s))
    BY <1>3
  <2>2. ~(i <= Len(p))
    BY <1>2, <1>3, <1>4, <2>1
  <2>3. i - Len(p) \in DOMAIN s /\ j - Len(p) \in DOMAIN s /\ i - Len(p) <= j - Len(p)
    BY <1>3, <2>1, <2>2
  <2>4. u[i] = s[i - Len(p)] /\ u[j] = s[j - Len(p)]
    BY <1>2, <1>3, <2>1, <2>2
  <2> QED BY <2>3, <2>4 DEF AdmitsFirst
<1> QED BY <1>2, <1>5 DEF u

Patient(steps) == \A i \in DOMAIN steps : steps[i] # "catch"

LEMMA ForEachUnarmed ==
  ASSUME NEW K \in SUBSET Key, NEW steps \in Seq(LoopDo)
  PROVE  /\ ForEach(K, steps) \in Seq(Unarmed)
         /\ Patient(steps) => ForEach(K, steps) \in Seq(Steady)
<1> DEFINE loop == [do |-> "forEach", keys |-> K, steps |-> steps]
<1>1. CASE K = {}
  BY <1>1 DEF ForEach
<1>2. CASE K # {}
  <2>1. loop \in Loops /\ loop \in Unarmed
    BY <1>2, CalmTasks DEF Loops
  <2>2. Patient(steps) => loop \in Steady
    BY <2>1 DEF Steady, EndsAdmission, Catch, Patient
  <2> HIDE DEF loop
  <2>3. <<loop>> \in Seq(Unarmed) /\ (Patient(steps) => <<loop>> \in Seq(Steady))
    BY <2>1, <2>2
  <2> QED BY <1>2, <2>3 DEF ForEach, loop
<1> QED BY <1>1, <1>2

LEMMA IterationUnarmed ==
  ASSUME NEW loop \in Loops
  PROVE  /\ Iteration(loop) \in Seq(Unarmed)
         /\ ~EndsAdmission(loop) => Iteration(loop) \in Seq(Steady)
<1> DEFINE k == Least(loop.keys)
           first == [i \in DOMAIN loop.steps |-> KeyTask(loop.steps[i], k)]
           rest == ForEach(loop.keys \ {k}, loop.steps)
<1>1. /\ loop.keys \in SUBSET Key /\ loop.keys # {} /\ loop.steps \in Seq(LoopDo)
      /\ loop.do = "forEach"
  BY DEF Loops
<1>2. k \in Key
  <2>1. loop.keys \in SUBSET Nat
    BY <1>1, RuntimeAssumption DEF Key
  <2> QED BY <1>1, <2>1, LeastElement
<1>3. ~EndsAdmission(loop) => Patient(loop.steps)
  BY <1>1 DEF EndsAdmission, Patient
<1> HIDE DEF k
<1>4. DOMAIN loop.steps = 1..Len(loop.steps) /\ Len(loop.steps) \in Nat
  BY <1>1
<1>5. \A i \in 1..Len(loop.steps) : loop.steps[i] \in LoopDo
  BY <1>1, ElementOfSeq
<1>6. first \in Seq(Unarmed)
  <2>1. \A i \in 1..Len(loop.steps) : KeyTask(loop.steps[i], k) \in Unarmed
    BY <1>2, <1>5, CalmTasks DEF KeyDo
  <2>2. first \in [1..Len(loop.steps) -> Unarmed]
    BY <2>1, <1>4
  <2> QED BY <1>4, <2>2, SeqDef
<1>7. Patient(loop.steps) => first \in Seq(Steady)
  <2> SUFFICES ASSUME Patient(loop.steps) PROVE first \in Seq(Steady)
    OBVIOUS
  <2>1. \A i \in 1..Len(loop.steps) : KeyTask(loop.steps[i], k) \in Steady
    BY <1>2, <1>4, <1>5, CalmTasks DEF KeyDo, Patient
  <2>2. first \in [1..Len(loop.steps) -> Steady]
    BY <2>1, <1>4
  <2> QED BY <1>4, <2>2, SeqDef
<1>8. rest \in Seq(Unarmed) /\ (Patient(loop.steps) => rest \in Seq(Steady))
  BY <1>1, ForEachUnarmed
<1> HIDE DEF first, rest
<1>9. first \o rest \in Seq(Unarmed) /\ (Patient(loop.steps) => first \o rest \in Seq(Steady))
  BY <1>6, <1>7, <1>8, ConcatProperties
<1> QED BY <1>3, <1>9 DEF Iteration, first, rest, k

LEMMA UnrolledAdmission ==
  ASSUME NEW s \in Seq(Tasks), s # << >>, AdmitsFirst(s)
  PROVE  /\ Unrolled(s) \in Seq(Tasks) /\ AdmitsFirst(Unrolled(s))
         /\ NoAdmission(s) => NoAdmission(Unrolled(s))
<1>1. Head(s) \in Tasks /\ Tail(s) \in Seq(Tasks)
  BY HeadTailProperties
<1>2. AdmitsFirst(Tail(s)) /\ (EndsAdmission(Head(s)) => NoAdmission(s))
  BY TailAdmitsFirst
<1>3. CASE Head(s).do # "forEach"
  BY <1>3 DEF Unrolled
<1>4. CASE Head(s).do = "forEach"
  <2>1. Unrolled(s) = Iteration(Head(s)) \o Tail(s)
    BY <1>4 DEF Unrolled
  <2>2. /\ Iteration(Head(s)) \in Seq(Unarmed)
        /\ ~EndsAdmission(Head(s)) => Iteration(Head(s)) \in Seq(Steady)
    BY <1>1, <1>4, TaskFields, IterationUnarmed
  <2>3. NoAdmission(s) => NoAdmission(Unrolled(s))
    <3>1. NoAdmission(s) => Tail(s) \in Seq(Unarmed)
      BY HeadTailProperties DEF NoAdmission
    <3> QED BY <2>1, <2>2, <3>1, ConcatProperties DEF NoAdmission
  <2>4. CASE EndsAdmission(Head(s))
    <3>1. NoAdmission(Unrolled(s))
      BY <1>2, <2>3, <2>4
    <3>2. Unrolled(s) \in Seq(Tasks)
      BY <3>1, SeqMonotonic, CalmTasks DEF NoAdmission
    <3> QED BY <3>1, <3>2, CalmIsAdmitsFirst
  <2>5. CASE ~EndsAdmission(Head(s))
    BY <1>1, <1>2, <2>1, <2>2, <2>3, <2>5, SteadyPrefix
  <2> QED BY <2>4, <2>5
<1> QED BY <1>3, <1>4

-----------------------------------------------------------------------------
(* What a step does to the list, whatever it does to the rest.             *)

(* The rest of the call admits nothing, poisoned or not.                   *)
LEMMA GotoUnarmed ==
  ASSUME NEW s \in Seq(Unarmed), Goto(s), CallOK
  PROVE  PoisonInv'
<1>1. NoAdmission(<< >>)
  BY DEF NoAdmission
<1>2. CASE s = << >>
  BY <1>1, <1>2, CalmIsAdmitsFirst DEF Goto, NoCall, PoisonInv
<1>3. CASE s # << >>
  <2>1. s \in Seq(Tasks) /\ NoAdmission(s) /\ AdmitsFirst(s)
    BY SeqMonotonic, CalmTasks, CalmIsAdmitsFirst DEF NoAdmission
  <2>2. AdmitsFirst(Unrolled(s)) /\ NoAdmission(Unrolled(s))
    BY <1>3, <2>1, UnrolledAdmission
  <2>3. call'.todo = Unrolled(s)
    BY <1>3 DEF Goto, CallOK, CallRecord
  <2> QED BY <2>2, <2>3 DEF PoisonInv
<1> QED BY <1>2, <1>3

(* An unpoisoned runtime, or a poisoned one whose call admits nothing,     *)
(* stays so.                                                               *)
LEMMA GotoAdmission ==
  ASSUME NEW s \in Seq(Tasks), AdmitsFirst(s), Goto(s), CallOK,
         rt'.poisoned => NoAdmission(s)
  PROVE  PoisonInv'
<1>1. CASE s = << >>
  <2>1. s \in Seq(Unarmed)
    BY <1>1
  <2> QED BY <2>1, GotoUnarmed
<1>2. CASE s # << >>
  <2>1. /\ AdmitsFirst(Unrolled(s))
        /\ NoAdmission(s) => NoAdmission(Unrolled(s))
    BY <1>2, UnrolledAdmission
  <2>2. call'.todo = Unrolled(s)
    BY <1>2 DEF Goto, CallOK, CallRecord
  <2> QED BY <2>1, <2>2 DEF PoisonInv
<1> QED BY <1>1, <1>2

(* A failure continues with a handler, and nothing is admitted after one.  *)
LEMMA FailEndsAdmission ==
  ASSUME CallOK, PoisonInv, call.todo # << >>, NEW status, Fail(status)
  PROVE  PoisonInv'
<1> DEFINE rest == Tail(call.todo)
           handlers == {i \in DOMAIN rest : rest[i].do \in Catch}
           first == Least(handlers)
           from == SubSeq(rest, first, Len(rest))
<1>1. /\ rest \in Seq(Tasks) /\ Len(rest) \in Nat /\ DOMAIN rest = 1..Len(rest)
      /\ AdmitsFirst(rest)
  <2>1. call.todo \in Seq(Tasks) /\ AdmitsFirst(call.todo)
    BY DEF CallOK, CallRecord, PoisonInv
  <2> QED BY <2>1, HeadTailProperties, TailAdmitsFirst
<1>2. CASE handlers = {}
  <2>1. call' = NoCall
    BY <1>2 DEF Fail
  <2>2. NoAdmission(<< >>)
    BY DEF NoAdmission
  <2> QED BY <2>1, <2>2, CalmIsAdmitsFirst DEF NoCall, PoisonInv
<1>3. CASE handlers # {}
  <2>1. first \in handlers /\ first \in 1..Len(rest)
    <3>1. handlers \in SUBSET (1..Len(rest))
      BY <1>1
    <3> HIDE DEF handlers, rest
    <3>2. handlers \in SUBSET Nat
      BY <3>1, <1>1
    <3> QED BY <1>3, <3>1, <3>2, LeastElement
  <2>2. EndsAdmission(rest[first])
    BY <2>1 DEF EndsAdmission
  <2>3. call'.todo = from
    BY <1>3 DEF Fail, CallOK, CallRecord
  <2> HIDE DEF handlers, first, rest
  <2>4. \A j \in first..Len(rest) : rest[j] \in Unarmed
    <3> TAKE j \in first..Len(rest)
    <3>1. j \in DOMAIN rest /\ first \in DOMAIN rest /\ first <= j
      BY <1>1, <2>1
    <3>2. ~Admits(rest[j])
      BY <1>1, <2>2, <3>1 DEF AdmitsFirst
    <3>3. rest[j] \in Tasks
      BY <1>1, <3>1, ElementOfSeq
    <3> QED BY <3>2, <3>3 DEF Unarmed
  <2>5. from \in Seq(Unarmed)
    BY <1>1, <2>1, <2>4, SubSeqProperties
  <2> QED BY <2>3, <2>5, CalmIsAdmitsFirst DEF NoAdmission, PoisonInv
<1> QED BY <1>2, <1>3

LEMMA RestOfCall ==
  ASSUME CallOK, PoisonInv, call.todo # << >>
  PROVE  /\ call.todo \in Seq(Tasks) /\ Len(call.todo) \in Nat \ {0}
         /\ Head(call.todo) = call.todo[1]
         /\ Tail(call.todo) \in Seq(Tasks) /\ AdmitsFirst(Tail(call.todo))
         /\ NoAdmission(call.todo) => Tail(call.todo) \in Seq(Unarmed)
         /\ EndsAdmission(Head(call.todo)) => NoAdmission(call.todo)
<1>1. call.todo \in Seq(Tasks) /\ AdmitsFirst(call.todo)
  BY DEF CallOK, CallRecord, PoisonInv
<1>2. Len(call.todo) \in Nat \ {0} /\ Head(call.todo) = call.todo[1]
  BY <1>1, EmptySeq
<1>3. Tail(call.todo) \in Seq(Tasks) /\ AdmitsFirst(Tail(call.todo))
  BY <1>1, HeadTailProperties, TailAdmitsFirst
<1>4. NoAdmission(call.todo) => Tail(call.todo) \in Seq(Unarmed)
  BY HeadTailProperties DEF NoAdmission
<1> QED BY <1>1, <1>2, <1>3, <1>4, TailAdmitsFirst

DoomedHeads == {"fail", "unmap", "retireH2d"}

LEMMA NotDoomed ==
  ASSUME CallOK, PoisonInv, call.todo # << >>, Head(call.todo).do \notin DoomedHeads
  PROVE  ~Doomed(call.todo)
BY RestOfCall DEF Doomed, DoomedHeads

(* A step that does not poison and puts tasks after which admission goes   *)
(* on in front of the remaining ones.                                      *)
LEMMA SteadyPush ==
  ASSUME CallOK, PoisonInv, call.todo # << >>, rt'.poisoned => rt.poisoned,
         Head(call.todo).do \notin DoomedHeads,
         NEW p \in Seq(Steady), Push(p) \/ Goto(p \o call.todo)
  PROVE  PoisonInv'
<1>1. rt'.poisoned => NoAdmission(call.todo)
  BY NotDoomed DEF PoisonInv
<1>2. p \in Seq(Unarmed)
  BY SeqMonotonic, CalmTasks
<1>3. CASE Push(p)
  <2>1. p \o Tail(call.todo) \in Seq(Tasks) /\ AdmitsFirst(p \o Tail(call.todo))
    BY RestOfCall, SteadyPrefix
  <2>2. rt'.poisoned => NoAdmission(p \o Tail(call.todo))
    BY <1>1, <1>2, RestOfCall, ConcatProperties DEF NoAdmission
  <2> QED BY <1>3, <2>1, <2>2, GotoAdmission DEF Push
<1>4. CASE Goto(p \o call.todo)
  <2>1. p \o call.todo \in Seq(Tasks) /\ AdmitsFirst(p \o call.todo)
    BY RestOfCall, SteadyPrefix DEF PoisonInv
  <2>2. rt'.poisoned => NoAdmission(p \o call.todo)
    BY <1>1, <1>2, ConcatProperties DEF NoAdmission
  <2> QED BY <1>4, <2>1, <2>2, GotoAdmission
<1> QED BY <1>3, <1>4

(* A step that does not poison and is done with its task.                  *)
LEMMA ContinueKeeps ==
  ASSUME CallOK, PoisonInv, call.todo # << >>, rt'.poisoned => rt.poisoned,
         Head(call.todo).do # "fail", Continue
  PROVE  PoisonInv'
<1> DEFINE s == call.todo
           t == Tail(s)
<1>1. /\ s \in Seq(Tasks) /\ Len(s) \in Nat \ {0} /\ Head(s) = s[1]
      /\ t \in Seq(Tasks) /\ AdmitsFirst(t)
      /\ NoAdmission(s) => t \in Seq(Unarmed)
      /\ Goto(t)
  BY RestOfCall DEF Continue
<1>2. CASE ~rt'.poisoned \/ NoAdmission(s)
  <2>1. rt'.poisoned => NoAdmission(t)
    BY <1>1, <1>2 DEF NoAdmission
  <2> HIDE DEF t
  <2> QED BY <1>1, <2>1, GotoAdmission
<1>3. CASE Doomed(s)
  <2>1. /\ Len(t) = Len(s) - 1
        /\ \A i \in 1..Len(t) : t[i] = s[i + 1]
    BY <1>1, HeadTailProperties
  <2> HIDE DEF t
  <2>2. \/ Len(t) >= 1 /\ t[1].do = "fail"
        \/ Len(t) >= 2 /\ t[1].do = "unmap" /\ t[2].do = "fail"
    <3>1. Len(s) >= 2 => t[1] = s[2]
      BY <1>1, <2>1
    <3>2. Len(s) >= 3 => t[2] = s[3]
      BY <1>1, <2>1
    <3>3. s[1].do # "fail"
      BY <1>1
    <3> HIDE DEF s
    <3> QED BY <1>1, <1>3, <2>1, <3>1, <3>2, <3>3 DEF Doomed
  <2>3. t # << >> /\ Head(t) = t[1]
    BY <1>1, <2>2
  <2>4. Head(t).do # "forEach"
    BY <2>2, <2>3
  <2>5. call'.todo = t
    BY <1>1, <2>3, <2>4 DEF Goto, Unrolled, CallOK, CallRecord
  <2>6. Doomed(t)
    BY <2>2 DEF Doomed
  <2> QED BY <1>1, <2>5, <2>6 DEF PoisonInv
<1>4. rt'.poisoned => NoAdmission(s) \/ Doomed(s)
  BY DEF PoisonInv
<1> QED BY <1>2, <1>3, <1>4

(* A handler, or the retirement of a lease: the step may poison.           *)
LEMMA AfterHandler ==
  ASSUME CallOK, PoisonInv, call.todo # << >>, EndsAdmission(Head(call.todo)),
         Continue \/ \E p \in Seq(Unarmed) : Push(p)
  PROVE  PoisonInv'
<1>1. Tail(call.todo) \in Seq(Unarmed)
  BY RestOfCall
<1>2. CASE Continue
  BY <1>1, <1>2, GotoUnarmed DEF Continue
<1>3. CASE \E p \in Seq(Unarmed) : Push(p)
  <2>1. PICK p \in Seq(Unarmed) : Push(p)
    BY <1>3
  <2>2. p \o Tail(call.todo) \in Seq(Unarmed)
    BY <1>1, ConcatProperties
  <2> QED BY <2>1, <2>2, GotoUnarmed DEF Push
<1> QED BY <1>2, <1>3

-----------------------------------------------------------------------------
(* The tasks of a call.                                                    *)

Busy == TypeInv /\ PoisonInv /\ call.todo # << >>
Failing == Fail("other") \/ Fail("pressure")

LEMMA DoneOrFailed ==
  ASSUME Busy, Failing \/ (Continue /\ rt' = rt /\ Head(call.todo).do # "fail")
  PROVE  PoisonInv'
BY FailEndsAdmission, ContinueKeeps DEF Busy, Failing, TypeInv

(* Tasks that are done or fail, and poison only when they fail.            *)
LEMMA DoneOrFailedSteps ==
  ASSUME TypeInv, PoisonInv
  PROVE  /\ \A k \in Key, f \in Frame :
              \/ MapRefused(k, f) \/ MapFails(k, f) \/ MapRollbackFails(k, f)
              \/ MapAndSubmitFails(k, f)
              => PoisonInv'
         /\ \A k \in Key :
              \/ H2dDone(k) \/ TransferStuck(k) \/ RetireFailedH2d(k) \/ EnsureHit(k)
              \/ WritebackSkipped(k) \/ D2hDone(k) \/ UnmapSkipped(k) \/ Unmap(k)
              \/ DropDirty(k) \/ Pin(k) \/ PutHost(k) \/ GetHost(k) \/ Invalidate(k)
              => PoisonInv'
         /\ \A f \in Frame : CreateHandle(f) \/ ReleaseTailHandle(f) => PoisonInv'
         /\ \A n \in 0..MaxFrames : RefreshKeeps(n) \/ SetCapacity(n) => PoisonInv'
         /\ \A a \in Alloc : EraseAllocation(a) => PoisonInv'
         /\ \/ FailTask \/ RefreshSkipped \/ RefreshFails \/ CheckCapacity
            \/ PollNotReady \/ CheckSources
            => PoisonInv'
<1> DEFINE Ordinary == Busy /\ (Failing \/ (Continue /\ rt' = rt /\ Head(call.todo).do # "fail"))
<1>1. Ordinary => PoisonInv'
  BY DoneOrFailed
<1>2. ASSUME NEW k \in Key, NEW f \in Frame,
             \/ MapRefused(k, f) \/ MapFails(k, f) \/ MapRollbackFails(k, f)
             \/ MapAndSubmitFails(k, f)
      PROVE  Ordinary
  BY <1>2 DEF MapRefused, MapFails, MapRollbackFails, MapAndSubmitFails, AtKey, At, Busy, Failing
<1>3. ASSUME NEW k \in Key,
             \/ H2dDone(k) \/ TransferStuck(k) \/ RetireFailedH2d(k) \/ EnsureHit(k)
             \/ WritebackSkipped(k)
      PROVE  Ordinary
  BY <1>3 DEF H2dDone, TransferStuck, RetireFailedH2d, EnsureHit, WritebackSkipped,
     AtKey, At, Busy, Failing
<1>4. ASSUME NEW k \in Key,
             D2hDone(k) \/ UnmapSkipped(k) \/ Unmap(k) \/ DropDirty(k)
      PROVE  Ordinary
  BY <1>4 DEF D2hDone, UnmapSkipped, Unmap, AtUnmap, TakeDownFails, DropDirty,
     AtKey, At, Busy, Failing
<1>5. ASSUME NEW k \in Key,
             Pin(k) \/ PutHost(k) \/ GetHost(k) \/ Invalidate(k)
      PROVE  Ordinary
  BY <1>5 DEF Pin, PutHost, GetHost, Invalidate, AtKey, At, Busy, Failing
<1>6. ASSUME NEW f \in Frame, CreateHandle(f) \/ ReleaseTailHandle(f) PROVE Ordinary
  BY <1>6 DEF CreateHandle, ReleaseTailHandle, AtFrame, At, Busy, Failing
<1>7. ASSUME NEW n \in 0..MaxFrames, RefreshKeeps(n) \/ SetCapacity(n) PROVE Ordinary
  BY <1>7 DEF RefreshKeeps, SetCapacity, AtRefresh, AtFrame, At, Busy, Failing
<1>8. ASSUME NEW a \in Alloc, EraseAllocation(a) PROVE Ordinary
  BY <1>8 DEF EraseAllocation, At, Busy, Failing
<1>9. ASSUME \/ FailTask \/ RefreshSkipped \/ RefreshFails \/ CheckCapacity
             \/ PollNotReady \/ CheckSources
      PROVE  Ordinary
  BY <1>9 DEF FailTask, RefreshSkipped, RefreshFails, CheckCapacity, PollNotReady,
     CheckSources, AtRefresh, At, Busy, Failing
<1> HIDE DEF Ordinary
<1> QED BY <1>1, <1>2, <1>3, <1>4, <1>5, <1>6, <1>7, <1>8, <1>9

(* The failed mapping of a chunk without a source poisons at once, but     *)
(* takes the mapping down before it fails.                                 *)
LEMMA MapWithoutSourceKeeps ==
  ASSUME TypeInv, PoisonInv, NEW k \in Key, NEW f \in Frame, MapWithoutSource(k, f)
  PROVE  PoisonInv'
<1> DEFINE p == <<KeyTask("retireH2d", k), KeyTask("unmap", k), Task("fail")>>
           s == p \o Tail(call.todo)
<1>1. CallOK /\ call.todo # << >> /\ Goto(s)
  BY DEF MapWithoutSource, AtKey, At, TypeInv, Push
<1>2. p \in Seq(Steady)
  <2>1. KeyTask("retireH2d", k) \in Steady /\ KeyTask("unmap", k) \in Steady /\ Task("fail") \in Steady
    BY CalmTasks DEF KeyDo
  <2> QED BY <2>1
<1>3. s \in Seq(Tasks) /\ AdmitsFirst(s)
  BY <1>1, <1>2, RestOfCall, SteadyPrefix
<1>4. /\ Len(s) >= 3
      /\ s[1].do = "retireH2d" /\ s[2].do = "unmap" /\ s[3].do = "fail"
  <2>1. p \in Seq(Tasks) /\ Tail(call.todo) \in Seq(Tasks)
    BY <1>1, <1>2, RestOfCall, SeqMonotonic, CalmTasks
  <2>2. /\ Len(s) = Len(p) + Len(Tail(call.todo)) /\ Len(Tail(call.todo)) \in Nat
        /\ \A i \in 1..(Len(p) + Len(Tail(call.todo))) :
             s[i] = IF i <= Len(p) THEN p[i] ELSE Tail(call.todo)[i - Len(p)]
    BY <2>1, ConcatProperties
  <2>3. Len(p) = 3 /\ p[1].do = "retireH2d" /\ p[2].do = "unmap" /\ p[3].do = "fail"
    BY DEF KeyTask, Task
  <2> HIDE DEF s, p
  <2>4. s[1] = p[1] /\ s[2] = p[2] /\ s[3] = p[3]
    BY <2>2, <2>3
  <2> QED BY <2>2, <2>3, <2>4
<1> HIDE DEF s, p
<1>5. s # << >> /\ Head(s).do # "forEach"
  BY <1>3, <1>4
<1>6. call'.todo = s
  BY <1>1, <1>5 DEF Goto, Unrolled, CallOK, CallRecord
<1> QED BY <1>3, <1>4, <1>6 DEF PoisonInv, Doomed

(* Tasks that put others in front of the list.                             *)

LEMMA EnsureMissStaysFirst ==
  ASSUME TypeInv, PoisonInv, NEW k \in Key, EnsureMiss(k)
  PROVE  PoisonInv'
<1>1. /\ CallOK /\ call.todo # << >> /\ rt' = rt
      /\ Head(call.todo).do \notin DoomedHeads
  BY DEF EnsureMiss, AtKey, At, TypeInv, DoomedHeads
<1>2. CASE Reusable # {}
  <2>1. Least(Reusable) \in Frame
    BY <1>2, LeastElement, FrameTypes DEF Reusable, Active
  <2>2. <<MapTask(k, Least(Reusable))>> \in Seq(Steady)
    BY <2>1, CalmTasks
  <2> QED BY <1>1, <1>2, <2>2, SteadyPush DEF EnsureMiss
<1>3. CASE Reusable = {} /\ Creatable # {}
  <2> DEFINE f == Least(Creatable)
  <2>1. f \in Frame
    BY <1>3, LeastElement, FrameTypes DEF Creatable, Active
  <2>2. FrameTask("create", f) \in Steady /\ MapTask(k, f) \in Steady
    BY <2>1, CalmTasks, FrameTypes DEF FrameDo
  <2>3. <<FrameTask("create", f), MapTask(k, f)>> \in Seq(Steady)
    BY <2>2
  <2>4. Push(<<FrameTask("create", f), MapTask(k, f)>>)
    BY <1>3 DEF EnsureMiss
  <2> QED BY <1>1, <2>3, <2>4, SteadyPush
<1>4. CASE Reusable = {} /\ Creatable = {} /\ Victims = {}
  BY <1>1, <1>4, FailEndsAdmission DEF EnsureMiss
<1>5. CASE Reusable = {} /\ Creatable = {} /\ Victims # {}
  <2> DEFINE first(v) == IF chunk[v].state = "resident_dirty"
                         THEN <<KeyTask("writeback", v)>> ELSE << >>
             rest(v, f) == <<KeyTask("unmap", v), MapTask(k, f)>>
  <2>1. PICK f \in Victims : Push(first(frame[f].key) \o rest(frame[f].key, f))
    BY <1>5 DEF EnsureMiss
  <2> DEFINE v == frame[f].key
  <2>2. f \in Frame /\ v \in Key
    BY <2>1 DEF Victims, Active, Mapped, TypeInv, DataInv, TypeOK
  <2>3. KeyTask("writeback", v) \in Steady /\ KeyTask("unmap", v) \in Steady
           /\ MapTask(k, f) \in Steady
    BY <2>2, CalmTasks DEF KeyDo
  <2>4. first(v) \in Seq(Steady) /\ rest(v, f) \in Seq(Steady)
    BY <2>3
  <2> HIDE DEF first, rest
  <2>5. first(v) \o rest(v, f) \in Seq(Steady)
    BY <2>4, ConcatProperties
  <2> QED BY <1>1, <2>1, <2>5, SteadyPush
<1> QED BY <1>2, <1>3, <1>4, <1>5

LEMMA RefreshShrinksStaysFirst ==
  ASSUME TypeInv, PoisonInv, NEW observed \in 0..MaxFrames, RefreshShrinks(observed)
  PROVE  PoisonInv'
<1>1. /\ CallOK /\ call.todo # << >> /\ rt' = rt
      /\ Head(call.todo).do \notin DoomedHeads
  BY DEF RefreshShrinks, AtRefresh, At, TypeInv, DoomedHeads
<1> DEFINE do == IF At("refresh") THEN "setCapacityFor" ELSE "setCapacity"
           s == DropTail(observed) \o <<FrameTask(do, observed)>>
<1>2. capacity \in Nat /\ observed \in Nat /\ observed < capacity
  BY RuntimeAssumption DEF RefreshShrinks, TypeInv, DataInv, TypeOK
<1>3. DropTail(observed) \in Seq(Steady)
  <2>1. \A i \in 1..(capacity - observed) : FrameTask("dropFrame", observed + i - 1) \in Steady
    BY <1>2, CalmTasks DEF FrameDo
  <2>2. DropTail(observed) \in [1..(capacity - observed) -> Steady]
    BY <2>1 DEF DropTail
  <2>3. capacity - observed \in Nat
    BY <1>2
  <2> QED BY <2>2, <2>3, SeqDef
<1>4. <<FrameTask(do, observed)>> \in Seq(Steady)
  BY <1>2, CalmTasks DEF FrameDo
<1>5. s \in Seq(Steady)
  BY <1>3, <1>4, ConcatProperties
<1>6. Push(s) \/ Fail("pressure")
  BY DEF RefreshShrinks
<1> HIDE DEF s
<1> QED BY <1>1, <1>5, <1>6, SteadyPush, FailEndsAdmission

LEMMA OtherPushesKeep ==
  ASSUME TypeInv, PoisonInv
  PROVE  /\ \A k \in Key, f \in Frame : MapAndSubmit(k, f) => PoisonInv'
         /\ \A f \in Frame : CreateHandleFails(f) \/ DropMapping(f) => PoisonInv'
         /\ \A k \in Key : StartD2h(k) \/ PrepareUse(k) => PoisonInv'
<1> CallOK
  BY DEF TypeInv
<1>1. ASSUME NEW k \in Key, NEW f \in Frame, MapAndSubmit(k, f) PROVE PoisonInv'
  <2>1. /\ call.todo # << >> /\ rt' = rt /\ Head(call.todo).do \notin DoomedHeads
        /\ Push(<<KeyTask("h2d", k)>>)
    BY <1>1 DEF MapAndSubmit, AtKey, At, DoomedHeads
  <2>2. KeyTask("h2d", k) \in Steady
    BY CalmTasks DEF KeyDo
  <2>3. <<KeyTask("h2d", k)>> \in Seq(Steady)
    BY <2>2
  <2> QED BY <2>1, <2>3, SteadyPush
<1>2. ASSUME NEW f \in Frame, CreateHandleFails(f) PROVE PoisonInv'
  <2>1. /\ call.todo # << >> /\ rt' = rt /\ Head(call.todo).do \notin DoomedHeads
        /\ \/ Push(<<Task("forceRefresh"), FrameTask("createRetry", f)>>)
           \/ Failing
    BY <1>2 DEF CreateHandleFails, AtFrame, At, DoomedHeads, Failing
  <2>2. Task("forceRefresh") \in Steady /\ FrameTask("createRetry", f) \in Steady
    BY CalmTasks, FrameTypes DEF FrameDo
  <2>3. <<Task("forceRefresh"), FrameTask("createRetry", f)>> \in Seq(Steady)
    BY <2>2
  <2> QED BY <2>1, <2>3, SteadyPush, FailEndsAdmission DEF Failing
<1>3. ASSUME NEW f \in Frame, DropMapping(f) PROVE PoisonInv'
  <2> DEFINE two == <<KeyTask("writebackIfDirty", frame[f].key), KeyTask("unmap", frame[f].key)>>
  <2>1. /\ call.todo # << >> /\ rt' = rt /\ Head(call.todo).do \notin DoomedHeads
        /\ Goto(two \o call.todo)
    BY <1>3 DEF DropMapping, AtFrame, At, DoomedHeads
  <2>2. frame[f].key \in Key
    BY <1>3 DEF DropMapping, Mapped, TypeInv, DataInv, TypeOK
  <2>3. two \in Seq(Steady)
    BY <2>2, CalmTasks DEF KeyDo, LoopDo
  <2> HIDE DEF two
  <2> QED BY <2>1, <2>3, SteadyPush
<1>4. ASSUME NEW k \in Key, StartD2h(k) PROVE PoisonInv'
  <2>1. /\ call.todo # << >> /\ Head(call.todo).do \notin DoomedHeads
        /\ (Push(<<KeyTask("d2h", k)>>) /\ rt' = rt) \/ Failing
    BY <1>4 DEF StartD2h, AtWriteback, AtKey, At, DoomedHeads, Failing
  <2>2. <<KeyTask("d2h", k)>> \in Seq(Steady)
    BY CalmTasks
  <2> QED BY <2>1, <2>2, SteadyPush, FailEndsAdmission DEF Failing
<1>5. ASSUME NEW k \in Key, PrepareUse(k) PROVE PoisonInv'
  <2> DEFINE one == <<KeyTask("writeback", Least(SpillVictims))>>
  <2>1. /\ call.todo # << >> /\ rt' = rt /\ Head(call.todo).do \notin DoomedHeads
        /\ Continue \/ Failing \/ (SpillVictims # {} /\ Goto(one \o call.todo))
    BY <1>5 DEF PrepareUse, AtKey, At, DoomedHeads, Failing
  <2>2. SpillVictims # {} => Least(SpillVictims) \in Key
    <3>1. SpillVictims \subseteq Key
      BY DEF SpillVictims, SpillHolders
    <3>2. SpillVictims \subseteq Nat
      BY <3>1, FrameTypes
    <3> QED BY <3>1, <3>2, LeastElement
  <2>3. SpillVictims # {} => one \in Seq(Steady)
    BY <2>2, CalmTasks DEF KeyDo
  <2>4. Head(call.todo).do # "fail"
    BY <2>1 DEF DoomedHeads
  <2> HIDE DEF one
  <2> QED BY <2>1, <2>3, <2>4, SteadyPush, ContinueKeeps, FailEndsAdmission DEF Failing
<1> QED BY <1>1, <1>2, <1>3, <1>4, <1>5

(* A poisoned runtime does not get as far as this task.                    *)
LEMMA EnsureWorkspaceKeeps ==
  ASSUME TypeInv, PoisonInv, EnsureWorkspace
  PROVE  PoisonInv' /\ ~rt.poisoned
<1>1. /\ CallOK /\ call.todo # << >> /\ rt' = rt /\ Head(call.todo).do = "workspace"
  BY DEF EnsureWorkspace, At, TypeInv
<1>2. ~rt.poisoned
  <2>1. call.todo[1].do = "workspace" /\ ~Doomed(call.todo)
    BY <1>1, RestOfCall, NotDoomed DEF DoomedHeads
  <2>2. ~NoAdmission(call.todo)
    <3>1. NoAdmission(call.todo) => call.todo[1] \in Unarmed
      BY <1>1, RestOfCall, ElementOfSeq DEF NoAdmission
    <3> QED BY <2>1, <3>1 DEF Unarmed, Admits
  <2> QED BY <2>1, <2>2 DEF PoisonInv
<1> DEFINE loop == ForEach(Touched, <<"prepare", "ensure", "pin">>)
           last == <<Task("arm"), Task("rollback")>>
<1>3. loop \in Seq(Steady)
  <2>1. Touched \in SUBSET Key
    BY DEF Touched, Plan, TypeInv, CallOK, CallRecord, PlanSet
  <2>2. <<"prepare", "ensure", "pin">> \in Seq(LoopDo) /\ Patient(<<"prepare", "ensure", "pin">>)
    BY DEF LoopDo, Patient
  <2> QED BY <2>1, <2>2, ForEachUnarmed
<1>4. last \in Seq(Tasks) /\ AdmitsFirst(last)
  <2>1. last \in Seq(Tasks)
    BY TaskTypes DEF PlainDo, Tasks
  <2>2. DOMAIN last = 1..2 /\ last[1].do = "arm" /\ last[2].do = "rollback"
    BY DEF Task
  <2> HIDE DEF last
  <2> QED BY <2>1, <2>2 DEF AdmitsFirst, Admits, EndsAdmission, Catch
<1>5. Goto(loop \o last) \/ Fail("other")
  BY DEF EnsureWorkspace
<1> HIDE DEF loop, last
<1>6. loop \o last \in Seq(Tasks) /\ AdmitsFirst(loop \o last)
  BY <1>3, <1>4, SteadyPrefix
<1> QED BY <1>1, <1>2, <1>5, <1>6, GotoAdmission, FailEndsAdmission

(* Handlers, the retirement of a lease, and close: nothing is admitted     *)
(* after them, whether they poison or not.                                 *)

LEMMA HandlersKeep ==
  ASSUME TypeInv, PoisonInv
  PROVE  /\ Catching \/ Rollback \/ DropSpills \/ RetireUnknown \/ Retire \/ FinishLease
            \/ Abandon => PoisonInv'
         /\ \A f \in Frame : CloseFrame(f) \/ CloseCheck(f) => PoisonInv'
<1> CallOK
  BY DEF TypeInv
<1>1. ASSUME Catching \/ FinishLease \/ Abandon \/ RetireUnknown PROVE PoisonInv'
  <2>1. /\ call.todo # << >> /\ EndsAdmission(Head(call.todo))
        /\ Continue \/ Failing
    BY <1>1 DEF Catching, FinishLease, Abandon, RetireUnknown, AtRetire, At, EndsAdmission,
       Catch, Failing
  <2> QED BY <2>1, AfterHandler, FailEndsAdmission DEF Failing
<1>2. ASSUME Rollback PROVE PoisonInv'
  <2> DEFINE first == ForEach(Provisional, <<"unmapIfClean", "catch">>)
             last == <<Task("dropSpills")>>
  <2>1. /\ call.todo # << >> /\ EndsAdmission(Head(call.todo)) /\ Push(first \o last)
    BY <1>2 DEF Rollback, At, EndsAdmission, Catch
  <2>2. first \in Seq(Unarmed)
    BY ProvisionalType, LoopSteps, ForEachUnarmed
  <2>3. last \in Seq(Unarmed)
    BY CalmTasks DEF PlainDo
  <2> HIDE DEF first, last
  <2>4. first \o last \in Seq(Unarmed)
    BY <2>2, <2>3, ConcatProperties
  <2> QED BY <2>1, <2>4, AfterHandler
<1>3. ASSUME DropSpills PROVE PoisonInv'
  <2>1. <<Task("forceRefresh")>> \in Seq(Unarmed) /\ << >> \in Seq(Unarmed)
    BY CalmTasks DEF PlainDo
  <2>2. Goto(<<Task("forceRefresh")>>) \/ Goto(<< >>)
    BY <1>3 DEF DropSpills
  <2> QED BY <2>1, <2>2, GotoUnarmed
<1>4. ASSUME Retire PROVE PoisonInv'
  <2> DEFINE first == IF lease.seal = "cancelled"
                      THEN ForEach(Provisional, <<"unmapIfClean">>) ELSE << >>
             last == <<Task("finishLease")>>
  <2>1. /\ call.todo # << >> /\ EndsAdmission(Head(call.todo))
        /\ Push(first \o last) \/ Failing
    BY <1>4 DEF Retire, AtRetire, At, EndsAdmission, Failing
  <2>2. first \in Seq(Unarmed)
    <3>1. ForEach(Provisional, <<"unmapIfClean">>) \in Seq(Unarmed)
      BY ProvisionalType, LoopSteps, ForEachUnarmed
    <3> QED BY <3>1
  <2>3. last \in Seq(Unarmed)
    BY CalmTasks DEF PlainDo
  <2> HIDE DEF first, last
  <2>4. first \o last \in Seq(Unarmed)
    BY <2>2, <2>3, ConcatProperties
  <2> QED BY <2>1, <2>4, AfterHandler, FailEndsAdmission DEF Failing
<1>5. ASSUME NEW f \in Frame, CloseCheck(f) PROVE PoisonInv'
  <2>1. call.todo # << >> /\ EndsAdmission(Head(call.todo)) /\ Continue
    BY <1>5 DEF CloseCheck, AtFrame, At, EndsAdmission, Catch
  <2> QED BY <2>1, AfterHandler
<1>6. ASSUME NEW f \in Frame, CloseFrame(f) PROVE PoisonInv'
  <2> DEFINE k == frame[f].key
             first == IF chunk[k].state = "resident_dirty"
                      THEN <<KeyTask("writeback", k)>> ELSE << >>
             middle == IF IsResident(chunk[k]) THEN <<KeyTask("unmap", k)>> ELSE << >>
             last == <<FrameTask("closeCheck", f)>>
  <2>1. /\ call.todo # << >> /\ EndsAdmission(Head(call.todo))
        /\ Continue \/ (Mapped(f) /\ Push(first \o middle \o last))
    BY <1>6 DEF CloseFrame, AtFrame, At, EndsAdmission, Catch
  <2>2. Mapped(f) => k \in Key
    BY DEF Mapped, TypeInv, DataInv, TypeOK
  <2>3. last \in Seq(Unarmed)
    BY CalmTasks, FrameTypes DEF FrameDo
  <2>4. Mapped(f) => first \in Seq(Unarmed) /\ middle \in Seq(Unarmed)
    <3>1. Mapped(f) => KeyTask("writeback", k) \in Unarmed /\ KeyTask("unmap", k) \in Unarmed
      BY <2>2, CalmTasks DEF KeyDo
    <3> HIDE DEF k
    <3> QED BY <3>1
  <2> HIDE DEF first, middle, last
  <2>5. Mapped(f) => first \o middle \o last \in Seq(Unarmed)
    <3> SUFFICES ASSUME Mapped(f) PROVE first \o middle \o last \in Seq(Unarmed)
      OBVIOUS
    <3>1. first \o middle \in Seq(Unarmed)
      BY <2>4, ConcatProperties
    <3> QED BY <2>3, <3>1, ConcatProperties
  <2> QED BY <2>1, <2>5, AfterHandler
<1> QED BY <1>1, <1>2, <1>3, <1>4, <1>5, <1>6

LEMMA ArmAndCloseEndKeep ==
  ASSUME TypeInv, PoisonInv, Arm \/ \E FA, FF : CloseEnd(FA, FF)
  PROVE  PoisonInv'
<1>1. CallOK /\ call.todo # << >>
  BY DEF Arm, CloseEnd, At, TypeInv
<1>2. Goto(<< >>) \/ Fail("other")
  BY DEF Arm, CloseEnd
<1>3. << >> \in Seq(Unarmed)
  OBVIOUS
<1> QED BY <1>1, <1>2, <1>3, GotoUnarmed, FailEndsAdmission

(* A poisoned runtime does not arm a lease.                                *)
LEMMA ArmUnpoisoned ==
  ASSUME TypeInv, PoisonInv, Arm
  PROVE  ~rt.poisoned
<1>1. CallOK /\ call.todo # << >> /\ Head(call.todo).do = "arm"
  BY DEF Arm, At, TypeInv
<1>2. call.todo[1].do = "arm" /\ ~Doomed(call.todo)
  BY <1>1, RestOfCall, NotDoomed DEF DoomedHeads
<1>3. NoAdmission(call.todo) => call.todo[1] \in Unarmed
  BY <1>1, RestOfCall, ElementOfSeq DEF NoAdmission
<1> QED BY <1>2, <1>3 DEF PoisonInv, Unarmed, Admits

LEMMA WorkerStaysFirst ==
  ASSUME TypeInv, PoisonInv, Worker
  PROVE  PoisonInv'
<1>1. ASSUME NEW k \in Key, NEW f \in Frame,
             \/ MapRefused(k, f) \/ MapFails(k, f) \/ MapRollbackFails(k, f)
             \/ MapAndSubmit(k, f) \/ MapAndSubmitFails(k, f) \/ MapWithoutSource(k, f)
      PROVE  PoisonInv'
  BY <1>1, DoneOrFailedSteps, OtherPushesKeep, MapWithoutSourceKeeps
<1>2. ASSUME NEW k \in Key,
             \/ H2dDone(k) \/ TransferStuck(k) \/ RetireFailedH2d(k)
             \/ EnsureHit(k) \/ EnsureMiss(k)
             \/ WritebackSkipped(k) \/ StartD2h(k) \/ D2hDone(k)
             \/ UnmapSkipped(k) \/ Unmap(k) \/ DropDirty(k)
             \/ PrepareUse(k) \/ Pin(k)
             \/ PutHost(k) \/ GetHost(k) \/ Invalidate(k)
      PROVE  PoisonInv'
  BY <1>2, DoneOrFailedSteps, OtherPushesKeep, EnsureMissStaysFirst
<1>3. ASSUME NEW f \in Frame,
             \/ CreateHandle(f) \/ CreateHandleFails(f) \/ DropMapping(f)
             \/ ReleaseTailHandle(f) \/ CloseFrame(f) \/ CloseCheck(f)
      PROVE  PoisonInv'
  BY <1>3, DoneOrFailedSteps, OtherPushesKeep, HandlersKeep
<1>4. ASSUME NEW observed \in 0..MaxFrames,
             RefreshShrinks(observed) \/ RefreshKeeps(observed) \/ SetCapacity(observed)
      PROVE  PoisonInv'
  BY <1>4, DoneOrFailedSteps, RefreshShrinksStaysFirst
<1>5. ASSUME \/ RefreshSkipped \/ RefreshFails \/ CheckCapacity \/ EnsureWorkspace
             \/ FailTask \/ Catching \/ Arm \/ Rollback \/ DropSpills
             \/ PollNotReady \/ RetireUnknown \/ Retire \/ FinishLease
             \/ CheckSources \/ Abandon
      PROVE  PoisonInv'
  BY <1>5, DoneOrFailedSteps, EnsureWorkspaceKeeps, HandlersKeep, ArmAndCloseEndKeep
<1>6. ASSUME NEW a \in Alloc, EraseAllocation(a) PROVE PoisonInv'
  BY <1>6, DoneOrFailedSteps
<1>7. ASSUME NEW FA, NEW FF, CloseEnd(FA, FF) PROVE PoisonInv'
  BY <1>7, ArmAndCloseEndKeep
<1> QED
  BY <1>1, <1>2, <1>3, <1>4, <1>5, <1>6, <1>7 DEF Worker

-----------------------------------------------------------------------------
(* The calls of the clients.                                               *)

LEMMA UnarmedConcat ==
  ASSUME NEW s \in Seq(Unarmed), NEW t \in Seq(Unarmed)
  PROVE  s \o t \in Seq(Unarmed) /\ (s \o t = << >> => s = << >> /\ t = << >>)
BY ConcatProperties, ConcatEqualIffEmpty

LEMMA BeginUnarmed ==
  ASSUME NEW op, NEW plan, NEW val, NEW s \in Seq(Unarmed), s # << >>, Begin(op, plan, val, s)
  PROVE  PoisonInv'
<1>1. s \in Seq(Tasks) /\ AdmitsFirst(s) /\ NoAdmission(s)
  BY SeqMonotonic, CalmTasks, CalmIsAdmitsFirst DEF NoAdmission
<1>2. AdmitsFirst(Unrolled(s)) /\ NoAdmission(Unrolled(s))
  BY <1>1, UnrolledAdmission
<1>3. call'.todo = Unrolled(s)
  BY DEF Begin
<1> QED BY <1>2, <1>3 DEF PoisonInv

LEMMA CalmLoops ==
  ASSUME NEW K \in SUBSET Key
  PROVE  /\ Flush(K) \in Seq(Unarmed) /\ FlushAndUnmap(K) \in Seq(Unarmed)
         /\ ForEach(K, <<"unmapIfClean">>) \in Seq(Unarmed)
         /\ ForEach(K, <<"unmapIfClean", "dropDirty", "invalidate">>) \in Seq(Unarmed)
         /\ ForEach(K, <<"put">>) \in Seq(Unarmed) /\ ForEach(K, <<"get">>) \in Seq(Unarmed)
         /\ ForEach(K, <<"ensure">>) \in Seq(Unarmed)
BY LoopSteps, ForEachUnarmed DEF Flush, FlushAndUnmap

LEMMA CalmCallsKeep ==
  ASSUME TypeInv, NEW a \in Alloc
  PROVE  /\ Release(a) => PoisonInv'
         /\ \A plan \in RangePlans(a, {"full"}) : DiscardDead(a, plan) => PoisonInv'
         /\ \A plan \in RangePlans(a, {"full", "part"}), v \in Val :
              Write(a, plan, v) => PoisonInv'
         /\ \A plan \in RangePlans(a, {"part"}) : Read(a, plan) => PoisonInv'
<1>1. ASSUME Release(a) PROVE PoisonInv'
  <2> DEFINE first == FlushAndUnmap(KeysOf(a))
             last == <<Task("erase")>>
             plan == [k \in KeysOf(a) |-> "full"]
  <2>1. first \in Seq(Unarmed)
    BY PlanTypes, CalmLoops
  <2>2. last \in Seq(Unarmed) /\ last # << >>
    BY CalmTasks DEF PlainDo
  <2>3. Begin("release", plan, Zero, first \o last)
    BY <1>1 DEF Release
  <2> HIDE DEF first, last, plan
  <2>4. first \o last \in Seq(Unarmed) /\ first \o last # << >>
    BY <2>1, <2>2, UnarmedConcat
  <2> QED BY <2>3, <2>4, BeginUnarmed
<1>2. ASSUME NEW plan \in RangePlans(a, {"full"}), DiscardDead(a, plan) PROVE PoisonInv'
  <2> DEFINE s == ForEach(DOMAIN plan, <<"unmapIfClean", "dropDirty", "invalidate">>)
  <2>1. DOMAIN plan \in SUBSET Key /\ DOMAIN plan # {}
    BY PlanTypes
  <2>2. s \in Seq(Unarmed)
    BY <2>1, CalmLoops
  <2>3. s # << >>
    BY <2>1, LoopSteps, ForEachType
  <2>4. Begin("discard", plan, Zero, s)
    BY <1>2 DEF DiscardDead
  <2> HIDE DEF s
  <2> QED BY <2>2, <2>3, <2>4, BeginUnarmed
<1>3. ASSUME NEW plan \in RangePlans(a, {"full", "part"}), NEW v \in Val, Write(a, plan, v)
      PROVE  PoisonInv'
  <2> DEFINE first == FlushAndUnmap(DOMAIN plan)
             middle == <<Task("checkSources")>>
             last == ForEach(DOMAIN plan, <<"put">>)
  <2>1. DOMAIN plan \in SUBSET Key
    BY PlanTypes
  <2>2. first \in Seq(Unarmed) /\ last \in Seq(Unarmed)
    BY <2>1, CalmLoops
  <2>3. middle \in Seq(Unarmed) /\ middle # << >>
    BY CalmTasks DEF PlainDo
  <2>4. Begin("write", plan, v, first \o middle \o last)
    BY <1>3 DEF Write
  <2> HIDE DEF first, middle, last
  <2>5. first \o middle \in Seq(Unarmed) /\ first \o middle # << >>
    BY <2>2, <2>3, UnarmedConcat
  <2>6. first \o middle \o last \in Seq(Unarmed) /\ first \o middle \o last # << >>
    BY <2>2, <2>5, UnarmedConcat
  <2> QED BY <2>4, <2>6, BeginUnarmed
<1>4. ASSUME NEW plan \in RangePlans(a, {"part"}), Read(a, plan) PROVE PoisonInv'
  <2> DEFINE first == Flush(DOMAIN plan)
             middle == <<Task("checkSources")>>
             last == ForEach(DOMAIN plan, <<"get">>)
  <2>1. DOMAIN plan \in SUBSET Key
    BY PlanTypes
  <2>2. first \in Seq(Unarmed) /\ last \in Seq(Unarmed)
    BY <2>1, CalmLoops
  <2>3. middle \in Seq(Unarmed) /\ middle # << >>
    BY CalmTasks DEF PlainDo
  <2>4. Begin("read", plan, Zero, first \o middle \o last)
    BY <1>4 DEF Read
  <2> HIDE DEF first, middle, last
  <2>5. first \o middle \in Seq(Unarmed) /\ first \o middle # << >>
    BY <2>2, <2>3, UnarmedConcat
  <2>6. first \o middle \o last \in Seq(Unarmed) /\ first \o middle \o last # << >>
    BY <2>2, <2>5, UnarmedConcat
  <2> QED BY <2>4, <2>6, BeginUnarmed
<1> QED BY <1>1, <1>2, <1>3, <1>4

LEMMA OtherCallsKeep ==
  ASSUME TypeInv
  PROVE  /\ \A plan \in Plans(LiveKeys, PrefetchModes) : Prefetch(plan) => PoisonInv'
         /\ Poll \/ Wait \/ Close => PoisonInv'
         /\ \A r \in BOOLEAN : Drain(r) => PoisonInv'
<1>1. <<Task("poll")>> \in Seq(Unarmed) /\ <<Task("wait")>> \in Seq(Unarmed)
  BY CalmTasks DEF PlainDo
<1>2. ASSUME NEW plan \in Plans(LiveKeys, PrefetchModes), Prefetch(plan) PROVE PoisonInv'
  <2> DEFINE first == <<Task("refresh"), Task("checkCapacity")>>
             last == ForEach(DOMAIN plan, <<"ensure">>)
  <2>1. DOMAIN plan \in SUBSET Key
    BY PlanTypes, RuntimeAssumption
  <2>2. first \in Seq(Unarmed) /\ first # << >>
    BY CalmTasks DEF PlainDo
  <2>3. last \in Seq(Unarmed)
    BY <2>1, CalmLoops
  <2>4. Begin("prefetch", plan, Zero, first \o last)
    BY <1>2 DEF Prefetch
  <2> HIDE DEF first, last
  <2>5. first \o last \in Seq(Unarmed) /\ first \o last # << >>
    BY <2>2, <2>3, UnarmedConcat
  <2> QED BY <2>4, <2>5, BeginUnarmed
<1>3. ASSUME Poll \/ Wait PROVE PoisonInv'
  <2>1. \/ Begin("poll", << >>, Zero, <<Task("poll")>>)
        \/ Begin("wait", << >>, Zero, <<Task("wait")>>)
    BY <1>3 DEF Poll, Wait
  <2>2. <<Task("poll")>> # << >> /\ <<Task("wait")>> # << >>
    OBVIOUS
  <2> QED BY <1>1, <2>1, <2>2, BeginUnarmed
<1>4. WaitFirst \in Seq(Unarmed)
  BY <1>1 DEF WaitFirst
<1>5. ASSUME NEW r \in BOOLEAN, Drain(r) PROVE PoisonInv'
  <2> DEFINE first == WaitFirst
             middle == Flush(LiveKeys)
             last == IF r THEN ForEach(LiveKeys, <<"unmapIfClean">>) ELSE << >>
  <2>1. middle \in Seq(Unarmed) /\ ForEach(LiveKeys, <<"unmapIfClean">>) \in Seq(Unarmed)
    BY PlanTypes, CalmLoops
  <2>2. last \in Seq(Unarmed)
    BY <2>1
  <2>3. first \o middle \o last # << >> /\ Begin("drain", << >>, Zero, first \o middle \o last)
    BY <1>5 DEF Drain
  <2> HIDE DEF first, middle, last
  <2>4. first \o middle \o last \in Seq(Unarmed)
    <3>1. first \in Seq(Unarmed)
      BY <1>4 DEF first
    <3> QED BY <2>1, <2>2, <3>1, UnarmedConcat
  <2> QED BY <2>3, <2>4, BeginUnarmed
<1>6. ASSUME Close PROVE PoisonInv'
  <2> DEFINE first == WaitFirst \o <<Task("abandon")>>
             frames == [i \in 1..MaxFrames |-> FrameTask("closeFrame", i - 1)]
             last == <<Task("closeEnd")>>
  <2>1. <<Task("abandon")>> \in Seq(Unarmed) /\ last \in Seq(Unarmed) /\ last # << >>
    BY CalmTasks DEF PlainDo
  <2>2. first \in Seq(Unarmed)
    BY <1>4, <2>1, UnarmedConcat
  <2>3. frames \in Seq(Unarmed)
    <3>1. \A i \in 1..MaxFrames : FrameTask("closeFrame", i - 1) \in Unarmed
      BY CalmTasks, RuntimeAssumption DEF FrameDo
    <3>2. frames \in [1..MaxFrames -> Unarmed] /\ MaxFrames \in Nat
      BY <3>1, RuntimeAssumption
    <3> QED BY <3>2, SeqDef
  <2>4. Begin("close", << >>, Zero, first \o frames \o last)
    BY <1>6 DEF Close
  <2> HIDE DEF first, frames, last
  <2>5. first \o frames \in Seq(Unarmed)
    BY <2>2, <2>3, UnarmedConcat
  <2>6. first \o frames \o last \in Seq(Unarmed) /\ first \o frames \o last # << >>
    BY <2>1, <2>5, UnarmedConcat
  <2> QED BY <2>4, <2>6, BeginUnarmed
<1> QED BY <1>2, <1>3, <1>5, <1>6

(* Only a runtime that is not poisoned starts to acquire.                  *)
LEMMA AcquireKeeps ==
  ASSUME TypeInv, NEW plan, AcquireExternal(plan)
  PROVE  PoisonInv'
<1> DEFINE p == <<Task("refresh"), Task("checkCapacity")>>
           q == <<Task("workspace")>>
           s == <<Task("refresh"), Task("checkCapacity"), Task("workspace")>>
<1>1. ~rt'.poisoned /\ Begin("acquire", plan, Zero, s)
  BY DEF AcquireExternal, Ready, Begin
<1>2. p \in Seq(Steady)
  BY CalmTasks
<1>3. q \in Seq(Tasks) /\ AdmitsFirst(q)
  <2>1. q \in Seq(Tasks)
    BY TaskTypes DEF PlainDo, Tasks
  <2>2. DOMAIN q = {1} /\ q[1].do = "workspace"
    BY DEF Task
  <2> HIDE DEF q
  <2> QED BY <2>1, <2>2 DEF AdmitsFirst, EndsAdmission, Catch
<1>4. s = p \o q
  OBVIOUS
<1>5. s # << >>
  OBVIOUS
<1> HIDE DEF p, q, s
<1>6. s \in Seq(Tasks) /\ AdmitsFirst(s)
  BY <1>2, <1>3, <1>4, SteadyPrefix
<1>7. AdmitsFirst(Unrolled(s))
  BY <1>5, <1>6, UnrolledAdmission
<1>8. call'.todo = Unrolled(s)
  BY <1>1 DEF Begin
<1> QED BY <1>1, <1>7, <1>8 DEF PoisonInv

LEMMA SameTodo ==
  ASSUME PoisonInv, call' = call, rt' = rt \/ call.todo = << >>
  PROVE  PoisonInv'
<1>1. CASE call.todo = << >>
  <2>1. NoAdmission(<< >>)
    BY DEF NoAdmission
  <2> QED BY <1>1, <2>1 DEF PoisonInv
<1>2. CASE rt' = rt
  BY <1>2 DEF PoisonInv
<1> QED BY <1>1, <1>2

LEMMA ClientStaysFirst ==
  ASSUME TypeInv, PoisonInv, Client
  PROVE  PoisonInv'
<1>1. ASSUME NEW a \in Alloc,
             \/ Release(a)
             \/ \E plan \in RangePlans(a, {"full"}) : DiscardDead(a, plan)
             \/ \E plan \in RangePlans(a, {"full", "part"}), v \in Val : Write(a, plan, v)
             \/ \E plan \in RangePlans(a, {"part"}) : Read(a, plan)
      PROVE  PoisonInv'
  BY <1>1, CalmCallsKeep
<1>2. ASSUME NEW plan \in Plans(LiveKeys, PrefetchModes), Prefetch(plan) PROVE PoisonInv'
  BY <1>2, OtherCallsKeep
<1>3. ASSUME NEW plan \in Plans(LiveKeys, Mode), AcquireExternal(plan) PROVE PoisonInv'
  BY <1>3, AcquireKeeps
<1>4. ASSUME Poll \/ Wait \/ (\E r \in BOOLEAN : Drain(r)) \/ Close PROVE PoisonInv'
  BY <1>4, OtherCallsKeep
<1>5. ASSUME NEW mode, Seal(mode) PROVE PoisonInv'
  BY <1>5, SameTodo DEF Seal
<1>6. ASSUME NEW a \in Alloc, Allocate(a) PROVE PoisonInv'
  BY <1>6, SameTodo DEF Allocate
<1>7. ASSUME Launch PROVE PoisonInv'
  BY <1>7, SameTodo DEF Launch
<1> QED
  BY <1>1, <1>2, <1>3, <1>4, <1>5, <1>6, <1>7 DEF Client

LEMMA StepKeeps == TypeInv /\ PoisonInv /\ [Next]_vars => PoisonInv'
<1> SUFFICES ASSUME TypeInv, PoisonInv, [Next]_vars PROVE PoisonInv'
  OBVIOUS
<1>1. CASE Worker
  BY <1>1, WorkerStaysFirst
<1>2. CASE Client
  BY <1>2, ClientStaysFirst
<1>3. CASE Kernel
  BY <1>3, SameTodo DEF Kernel, KernelWrites, KernelFinishes
<1>4. CASE UNCHANGED vars
  BY <1>4, SameTodo DEF vars
<1> QED BY <1>1, <1>2, <1>3, <1>4 DEF Next

LEMMA InitUnpoisoned == Init => PoisonInv
<1>1. NoAdmission(<< >>)
  BY DEF NoAdmission
<1> QED BY <1>1, CalmIsAdmitsFirst DEF Init, NoCall, PoisonInv

-----------------------------------------------------------------------------
(* Only two actions admit.                                                 *)

Admitted ==
  \/ lease'.state = "armed" /\ lease.state # "armed"
  \/ \E a \in Alloc : owner'[a].live /\ ~owner[a].live

LEMMA KeepsOwner ==
  ASSUME TypeInv, owner' = owner \/ \E k \in Key : owner' = QuarantineVa(k),
         lease'.state = lease.state \/ lease'.state # "armed"
  PROVE  ~Admitted
<1>1. owner \in OwnerType
  BY DEF TypeInv, DataInv, TypeOK, OwnerType
<1>2. \A a \in Alloc : owner'[a].live = owner[a].live
  <2>1. CASE owner' = owner
    BY <2>1
  <2>2. CASE \E k \in Key : owner' = QuarantineVa(k)
    <3>1. PICK k \in Key : owner' = [owner EXCEPT ![AllocOf[k]].va = "quarantined"]
      BY <2>2 DEF QuarantineVa
    <3> TAKE a \in Alloc
    <3>2. owner[a] \in [live: BOOLEAN,
                       va: {"none", "held", "quarantined", "retired", "freed"}]
      BY <1>1 DEF OwnerType
    <3>3. owner'[a] = IF a = AllocOf[k] THEN [owner[a] EXCEPT !.va = "quarantined"] ELSE owner[a]
      BY <1>1, <3>1 DEF OwnerType
    <3> QED BY <3>2, <3>3
  <2> QED BY <2>1, <2>2
<1> QED BY <1>2 DEF Admitted

(* A step that leaves leases and allocations alone admits nothing. *)
LEMMA LeaseUntouched ==
  ASSUME UNCHANGED <<owner, lease>>
  PROVE  ~Admitted
BY DEF Admitted

LEMMA UntouchedSteps ==
  /\ \A k \in Key, f \in Frame :
       MapRefused(k, f) \/ MapFails(k, f) \/ MapAndSubmit(k, f) \/ MapWithoutSource(k, f)
       => ~Admitted
  /\ \A k \in Key :
       \/ H2dDone(k) \/ TransferStuck(k) \/ EnsureHit(k) \/ EnsureMiss(k)
       \/ WritebackSkipped(k) \/ D2hDone(k) \/ UnmapSkipped(k)
       \/ PutHost(k) \/ GetHost(k) \/ Invalidate(k)
       => ~Admitted
  /\ \A f \in Frame :
       CreateHandle(f) \/ CreateHandleFails(f) \/ DropMapping(f) \/ ReleaseTailHandle(f)
       => ~Admitted
  /\ \A n \in 0..MaxFrames : RefreshShrinks(n) \/ RefreshKeeps(n) \/ SetCapacity(n)
       => ~Admitted
  /\ \/ RefreshSkipped \/ RefreshFails \/ CheckCapacity \/ EnsureWorkspace \/ FailTask
     \/ Catching \/ Rollback \/ PollNotReady \/ CheckSources
     => ~Admitted
  /\ \A op, plan, val, s : Begin(op, plan, val, s) => ~Admitted
  /\ Launch \/ Kernel => ~Admitted
<1>1. \A k \in Key, f \in Frame :
        MapRefused(k, f) \/ MapFails(k, f) \/ MapAndSubmit(k, f) \/ MapWithoutSource(k, f)
        => ~Admitted
  BY LeaseUntouched DEF MapRefused, MapFails, MapAndSubmit, MapWithoutSource, MapFrame
<1>2. \A k \in Key :
        \/ H2dDone(k) \/ TransferStuck(k) \/ EnsureHit(k) \/ EnsureMiss(k)
        \/ WritebackSkipped(k) \/ D2hDone(k) \/ UnmapSkipped(k)
        \/ PutHost(k) \/ GetHost(k) \/ Invalidate(k)
        => ~Admitted
  BY LeaseUntouched DEF H2dDone, TransferStuck, EnsureHit, EnsureMiss, WritebackSkipped, D2hDone,
     UnmapSkipped, PutHost, GetHost, Invalidate
<1>3. \A f \in Frame :
        CreateHandle(f) \/ CreateHandleFails(f) \/ DropMapping(f) \/ ReleaseTailHandle(f)
        => ~Admitted
  BY LeaseUntouched DEF CreateHandle, CreateHandleFails, DropMapping, ReleaseTailHandle
<1>4. \A n \in 0..MaxFrames : RefreshShrinks(n) \/ RefreshKeeps(n) \/ SetCapacity(n) => ~Admitted
  BY LeaseUntouched DEF RefreshShrinks, RefreshKeeps, SetCapacity
<1>5. \/ RefreshSkipped \/ RefreshFails \/ CheckCapacity \/ EnsureWorkspace \/ FailTask
      \/ Catching \/ Rollback \/ PollNotReady \/ CheckSources
      => ~Admitted
  BY LeaseUntouched DEF RefreshSkipped, RefreshFails, CheckCapacity, EnsureWorkspace, FailTask,
     Catching, Rollback, PollNotReady, CheckSources
<1>6. \A op, plan, val, s : Begin(op, plan, val, s) => ~Admitted
  BY LeaseUntouched DEF Begin
<1>7. Launch \/ Kernel => ~Admitted
  BY LeaseUntouched DEF Launch, Kernel, KernelWrites, KernelFinishes
<1> QED BY <1>1, <1>2, <1>3, <1>4, <1>5, <1>6, <1>7

LEMMA CallsAdmitNothing ==
  /\ \A a \in Alloc : Release(a) => ~Admitted
  /\ \A a \in Alloc : \A plan : DiscardDead(a, plan) \/ Read(a, plan) => ~Admitted
  /\ \A a \in Alloc : \A plan, v : Write(a, plan, v) => ~Admitted
  /\ \A plan : Prefetch(plan) \/ AcquireExternal(plan) => ~Admitted
  /\ Poll \/ Wait \/ (\E r \in BOOLEAN : Drain(r)) \/ Close => ~Admitted
BY LeaseUntouched DEF Release, DiscardDead, Read, Write, Prefetch, AcquireExternal, Poll, Wait,
   Drain, Close, Begin

(* Steps that quarantine a reservation, or change a lease without arming   *)
(* it.                                                                     *)
LEMMA QuarantiningSteps ==
  ASSUME TypeInv
  PROVE  /\ \A k \in Key, f \in Frame : MapRollbackFails(k, f) \/ MapAndSubmitFails(k, f) => ~Admitted
         /\ \A k \in Key :
              RetireFailedH2d(k) \/ StartD2h(k) \/ Unmap(k) \/ DropDirty(k) => ~Admitted
         /\ \A f \in Frame : CloseFrame(f) \/ CloseCheck(f) => ~Admitted
<1> DEFINE Quarantining == /\ owner' = owner \/ \E k \in Key : owner' = QuarantineVa(k)
                           /\ lease' = lease
<1>1. Quarantining => ~Admitted
  BY KeepsOwner
<1>2. ASSUME NEW k \in Key, NEW f \in Frame, MapRollbackFails(k, f) \/ MapAndSubmitFails(k, f)
      PROVE  Quarantining
  BY <1>2 DEF MapRollbackFails, MapAndSubmitFails, MapFrame
<1>3. ASSUME NEW k \in Key, RetireFailedH2d(k) \/ StartD2h(k) \/ Unmap(k) \/ DropDirty(k)
      PROVE  Quarantining
  BY <1>3 DEF RetireFailedH2d, StartD2h, Unmap, DropDirty, TakeDownFails
<1>4. ASSUME NEW f \in Frame, CloseFrame(f) \/ CloseCheck(f)
      PROVE  Quarantining
  <2>1. Mapped(f) => frame[f].key \in Key
    BY DEF Mapped, TypeInv, DataInv, TypeOK
  <2>2. lease' = lease /\ (owner' = owner \/ (Mapped(f) /\ owner' = QuarantineVa(frame[f].key)))
    BY <1>4 DEF CloseFrame, CloseCheck
  <2> QED BY <2>1, <2>2
<1> HIDE DEF Quarantining
<1> QED BY <1>1, <1>2, <1>3, <1>4

LEMMA LeaseSteps ==
  ASSUME TypeInv
  PROVE  /\ \A k \in Key : PrepareUse(k) \/ Pin(k) => ~Admitted
         /\ DropSpills \/ RetireUnknown \/ Retire \/ FinishLease \/ Abandon => ~Admitted
         /\ \A mode : Seal(mode) => ~Admitted
<1>1. lease \in LeaseType
  BY DEF TypeInv, DataInv, TypeOK, LeaseType, UseType
<1>2. ASSUME NEW k \in Key, PrepareUse(k) \/ Pin(k) PROVE ~Admitted
  <2>1. owner' = owner /\ lease'.state = lease.state
    BY <1>1, <1>2 DEF PrepareUse, Pin, LeaseType
  <2> QED BY <2>1, KeepsOwner
<1>3. ASSUME DropSpills \/ RetireUnknown \/ Retire \/ FinishLease \/ Abandon PROVE ~Admitted
  <2>1. owner' = owner /\ lease' \in {lease, NoLease, [lease EXCEPT !.state = "quarantined"]}
    BY <1>3 DEF DropSpills, RetireUnknown, Retire, FinishLease, Abandon
  <2>2. lease'.state = lease.state \/ lease'.state # "armed"
    BY <1>1, <2>1 DEF LeaseType, NoLease
  <2> QED BY <2>1, <2>2, KeepsOwner
<1>4. ASSUME NEW mode, Seal(mode) PROVE ~Admitted
  <2>1. /\ owner' = owner
        /\ lease' \in {[lease EXCEPT !.state = "submitted", !.seal = mode],
                       [lease EXCEPT !.state = "quarantined"]}
    BY <1>4 DEF Seal
  <2>2. lease'.state # "armed"
    BY <1>1, <2>1 DEF LeaseType
  <2> QED BY <2>1, <2>2, KeepsOwner
<1> QED BY <1>2, <1>3, <1>4

LEMMA ReleasingSteps ==
  ASSUME TypeInv, (\E a \in Alloc : EraseAllocation(a)) \/ \E FA, FF : CloseEnd(FA, FF)
  PROVE  ~Admitted
<1>1. owner \in OwnerType
  BY DEF TypeInv, DataInv, TypeOK, OwnerType
<1>2. lease' = lease /\ \A b \in Alloc : owner'[b].live => owner[b].live
  <2>1. ASSUME NEW a \in Alloc, EraseAllocation(a)
        PROVE  lease' = lease /\ \A b \in Alloc : owner'[b].live => owner[b].live
    BY <1>1, <2>1 DEF EraseAllocation, OwnerType
  <2>2. ASSUME NEW FA, NEW FF, CloseEnd(FA, FF)
        PROVE  lease' = lease /\ \A b \in Alloc : ~owner'[b].live
    BY <2>2 DEF CloseEnd
  <2> QED BY <2>1, <2>2
<1> QED BY <1>2 DEF Admitted

LEMMA OnlyTheReadyAdmit ==
  ASSUME TypeInv, PoisonInv, Next, rt.poisoned
  PROVE  ~Admitted
<1>1. ASSUME NEW k \in Key, NEW f \in Frame,
             \/ MapRefused(k, f) \/ MapFails(k, f) \/ MapRollbackFails(k, f)
             \/ MapAndSubmit(k, f) \/ MapAndSubmitFails(k, f) \/ MapWithoutSource(k, f)
      PROVE  ~Admitted
  BY <1>1, UntouchedSteps, QuarantiningSteps
<1>2. ASSUME NEW k \in Key,
             \/ H2dDone(k) \/ TransferStuck(k) \/ RetireFailedH2d(k)
             \/ EnsureHit(k) \/ EnsureMiss(k)
             \/ WritebackSkipped(k) \/ StartD2h(k) \/ D2hDone(k)
             \/ UnmapSkipped(k) \/ Unmap(k) \/ DropDirty(k)
             \/ PrepareUse(k) \/ Pin(k)
             \/ PutHost(k) \/ GetHost(k) \/ Invalidate(k)
      PROVE  ~Admitted
  BY <1>2, UntouchedSteps, QuarantiningSteps, LeaseSteps
<1>3. ASSUME NEW f \in Frame,
             \/ CreateHandle(f) \/ CreateHandleFails(f) \/ DropMapping(f)
             \/ ReleaseTailHandle(f) \/ CloseFrame(f) \/ CloseCheck(f)
      PROVE  ~Admitted
  BY <1>3, UntouchedSteps, QuarantiningSteps
<1>4. ASSUME NEW observed \in 0..MaxFrames,
             RefreshShrinks(observed) \/ RefreshKeeps(observed) \/ SetCapacity(observed)
      PROVE  ~Admitted
  BY <1>4, UntouchedSteps
<1>5. ~Arm
  BY ArmUnpoisoned
<1>6. ASSUME \/ RefreshSkipped \/ RefreshFails \/ CheckCapacity \/ EnsureWorkspace
             \/ FailTask \/ Catching \/ Rollback \/ DropSpills
             \/ PollNotReady \/ RetireUnknown \/ Retire \/ FinishLease
             \/ CheckSources \/ Abandon
      PROVE  ~Admitted
  BY <1>6, UntouchedSteps, LeaseSteps
<1>7. ASSUME (\E a \in Alloc : EraseAllocation(a)) \/ \E FA, FF : CloseEnd(FA, FF)
      PROVE  ~Admitted
  BY <1>7, ReleasingSteps
<1>8. CASE Worker
  BY <1>1, <1>2, <1>3, <1>4, <1>5, <1>6, <1>7, <1>8 DEF Worker
<1>9. \A a \in Alloc : ~Allocate(a)
  BY DEF Allocate, Ready
<1>10. CASE Client
  <2>1. ASSUME NEW a \in Alloc,
               \/ Release(a)
               \/ \E plan \in RangePlans(a, {"full"}) : DiscardDead(a, plan)
               \/ \E plan \in RangePlans(a, {"full", "part"}), v \in Val : Write(a, plan, v)
               \/ \E plan \in RangePlans(a, {"part"}) : Read(a, plan)
        PROVE  ~Admitted
    BY <2>1, CallsAdmitNothing
  <2>2. ASSUME NEW plan, Prefetch(plan) \/ AcquireExternal(plan) PROVE ~Admitted
    BY <2>2, CallsAdmitNothing
  <2>3. ASSUME Poll \/ Wait \/ (\E r \in BOOLEAN : Drain(r)) \/ Close \/ Launch PROVE ~Admitted
    BY <2>3, CallsAdmitNothing, UntouchedSteps
  <2>4. ASSUME NEW mode, Seal(mode) PROVE ~Admitted
    BY <2>4, LeaseSteps
  <2> QED BY <1>9, <1>10, <2>1, <2>2, <2>3, <2>4 DEF Client
<1>11. CASE Kernel
  BY <1>11, UntouchedSteps
<1> QED BY <1>8, <1>10, <1>11 DEF Next

(* A runtime that was poisoned, by whatever failure and in the middle of   *)
(* whatever call, arms no lease and hands out no allocation any more       *)
(* (runtime.cpp, acquire_external, allocate): also not with the tasks of   *)
(* an acquire that were still to come.                                     *)
THEOREM NothingAdmittedAfterPoison == Spec => PoisonStopsAdmission
<1> DEFINE Stops == rt.poisoned => /\ lease'.state = "armed" => lease.state = "armed"
                                   /\ \A a \in Alloc : owner'[a].live => owner[a].live
<1>1. Init => TypeInv /\ PoisonInv
  BY InitType, InitUnpoisoned
<1>2. TypeInv /\ PoisonInv /\ [Next]_vars => TypeInv' /\ PoisonInv'
  BY StepType, StepKeeps
<1>3. TypeInv /\ PoisonInv /\ [Next]_vars => [Stops]_vars
  <2> SUFFICES ASSUME TypeInv, PoisonInv, Next PROVE Stops
    OBVIOUS
  <2>1. rt.poisoned => ~Admitted
    BY OnlyTheReadyAdmit
  <2> QED BY <2>1 DEF Admitted
<1> QED BY <1>1, <1>2, <1>3, PTL DEF Spec, PoisonStopsAdmission

=============================================================================
