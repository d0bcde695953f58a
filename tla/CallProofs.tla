------------------------------ MODULE CallProofs ------------------------------
(***************************************************************************)
(* What the task list of a residency call may look like.                   *)
(*                                                                         *)
(* A loop stands for the tasks it will unroll into, so a list is seen      *)
(* through the work it still has to do.  The invariant says which work a   *)
(* call of each kind may have, in which order, and what is done right      *)
(* before a chunk is pinned and right after a dirty one was dropped.       *)
(***************************************************************************)
EXTENDS ResidencyRuntimeProofs

(* The tasks t stands for, without the frame they are about. *)
WorkOf(t) ==
  IF t.do = "forEach" THEN {KeyTask(t.steps[i], k) : i \in DOMAIN t.steps, k \in t.keys}
  ELSE IF t.do \in KeyDo \union {"d2h", "map"} THEN {KeyTask(t.do, t.key)}
  ELSE {KeyTask(t.do, None)}
Work(s) == UNION {WorkOf(s[i]) : i \in DOMAIN s}

(* Completions of a copy and some other tasks are executed where they were *)
(* put, and after some tasks the call has nothing left to do.              *)
HeadDo == {"h2d", "retireH2d", "d2h"}
FirstDo == HeadDo \union {"create", "poll", "wait"}
LastDo == {"workspace", "rollback", "dropSpills", "erase", "closeEnd"}

(* What may lead to a copy between host and device. *)
CopyingDo == {"ensure", "map", "h2d", "retireH2d", "d2h", "writeback", "writebackIfDirty",
           "refresh", "forceRefresh", "dropFrame", "create", "createRetry"}
(* What is done while the cache shrinks. *)
ShrinkDo == {"dropFrame", "writebackIfDirty", "d2h", "unmap"}
ShrinkEnd == {"dropFrame", "setCapacity", "setCapacityFor"}

(* v may wait in front of w in a call of this kind. *)
InOrder(op, v, w) ==
  /\ v.do \notin LastDo
  /\ w.do \notin FirstDo
  /\ v.do \in Catch => w.do \notin {"workspace", "prepare", "pin", "arm"}
  /\ v.do \in Catch \ {"finishLease"} => w.do \notin CopyingDo
  /\ v.do = "arm" => w.do \notin {"pin", "dropSpills"}
  /\ v.do \in {"prepare", "ensure", "map", "h2d", "retireH2d", "pin"} =>
       w # KeyTask("prepare", v.key)
  /\ v.do = "unmapIfClean" /\ op \in {"release", "write"} =>
       w # KeyTask("writebackIfDirty", v.key)
  /\ v.do \in {"dropDirty", "invalidate"} => w # KeyTask("unmapIfClean", v.key)
  /\ v.do = "invalidate" => w # KeyTask("dropDirty", v.key)
  /\ v.do = "put" => w.do \notin {"writebackIfDirty", "unmapIfClean"}
  /\ v.do = "get" => w.do \notin {"writebackIfDirty", "checkSources"}
  /\ w.do = "finishLease" => v.do = "unmapIfClean"
  /\ w.do \in ShrinkEnd => v.do \in ShrinkDo

AcquireDo == {"workspace", "prepare", "pin", "arm", "rollback", "catch", "dropSpills"}
LeaseDo == {"poll", "wait", "finishLease"}
CloseDo == {"abandon", "closeFrame", "closeCheck", "closeEnd"}
FetchDo == {"refresh", "forceRefresh", "checkCapacity", "ensure", "map", "h2d", "retireH2d",
            "create", "createRetry", "dropFrame", "setCapacity", "setCapacityFor", "fail"}
DiscardDo == {"dropDirty", "invalidate"}
OfPlan == {"ensure", "map", "h2d", "retireH2d", "prepare", "pin", "put"}

(* The work of a call of this kind whose plan covers the chunks of K. *)
Permitted(op, K, w) ==
  /\ w.do \in AcquireDo => op = "acquire"
  /\ w.do \in LeaseDo => op \in {"poll", "wait", "drain", "close"}
  /\ w.do \in CloseDo => op = "close"
  /\ w.do \in FetchDo => op \in {"prefetch", "acquire"}
  /\ w.do \in DiscardDo => op = "discard"
  /\ w.do = "erase" => op = "release"
  /\ w.do = "put" => op = "write"
  /\ w.do \in OfPlan => w.key \in K

LoopForms == {<<"ensure">>, <<"prepare", "ensure", "pin">>, <<"unmapIfClean">>,
              <<"unmapIfClean", "catch">>, <<"writebackIfDirty">>,
              <<"writebackIfDirty", "unmapIfClean">>,
              <<"unmapIfClean", "dropDirty", "invalidate">>, <<"put">>, <<"get">>}
KnownLoops(s) == \A i \in DOMAIN s : s[i].do = "forEach" => s[i].steps \in LoopForms

Sorted(op, s) ==
  \A i, j \in DOMAIN s : i < j => \A v \in WorkOf(s[i]), w \in WorkOf(s[j]) : InOrder(op, v, w)

(* After such a task is done the call goes on only if chunk k is resident. *)
MakesResident(t, k) == t.do = "fail" \/ (t.do \in {"ensure", "map", "h2d"} /\ t.key = k)
CleaningDo == {"writeback", "writebackIfDirty", "d2h", "retireH2d"}
Follows(t, u) ==
  /\ u.do = "pin" => MakesResident(t, u.key)
  /\ u.do = "unmap" => t.do \in CleaningDo /\ t.key = u.key
Linked(s) ==
  /\ \A i \in DOMAIN s : i + 1 \in DOMAIN s => Follows(s[i], s[i + 1])
  /\ \A i \in DOMAIN s : s[i].do = "dropDirty" =>
       i + 1 \in DOMAIN s /\ s[i + 1] = KeyTask("invalidate", s[i].key)

ListOK(op, K, s) ==
  /\ s \in Seq(Tasks)
  /\ KnownLoops(s)
  /\ \A w \in Work(s) : Permitted(op, K, w)
  /\ Sorted(op, s)
  /\ Linked(s)

Pending(do, k) == KeyTask(do, k) \in Work(call.todo)
Awaits(do) == KeyTask(do, None) \in Work(call.todo)

(* Such a list may be left of a call: it pins what it prepared, and rolls  *)
(* back what it pinned.                                                    *)
Proper(op, K, s) ==
  /\ ListOK(op, K, s)
  /\ \A k \in Key : KeyTask("prepare", k) \in Work(s) => KeyTask("pin", k) \in Work(s)
  /\ KeyTask("arm", None) \in Work(s) \/ (\E k \in Key : KeyTask("pin", k) \in Work(s)) =>
       KeyTask("rollback", None) \in Work(s)

CallInv ==
  /\ Proper(call.op, Touched, call.todo)
  /\ call.todo = << >> => call.op = "none"

-----------------------------------------------------------------------------
(* The work of a task and of a list. *)

LEMMA WorkOfTask ==
  ASSUME NEW t \in Tasks
  PROVE  /\ t.do = "forEach" =>
              /\ t \in Loops
              /\ WorkOf(t) = {KeyTask(t.steps[i], k) : i \in DOMAIN t.steps, k \in t.keys}
              /\ \A v \in WorkOf(t) : v.do \in LoopDo
         /\ t.do \in KeyDo \union {"d2h", "map"} =>
              t.key \in Key /\ WorkOf(t) = {KeyTask(t.do, t.key)}
         /\ t.do \notin KeyDo \union {"d2h", "map", "forEach"} => WorkOf(t) = {KeyTask(t.do, None)}
         /\ t.do # "forEach" => \A v \in WorkOf(t) : v.do = t.do
<1>1. t.do = "forEach" => t \in Loops
  BY TaskFields
<1>2. ASSUME t.do = "forEach", NEW v \in WorkOf(t) PROVE v.do \in LoopDo
  <2>1. PICK i \in DOMAIN t.steps, k \in t.keys : v = KeyTask(t.steps[i], k)
    BY <1>2 DEF WorkOf
  <2>2. t.steps \in Seq(LoopDo)
    BY <1>1, <1>2 DEF Loops
  <2>3. t.steps[i] \in LoopDo
    BY <2>2, ElementOfSeq
  <2> QED BY <2>1, <2>3 DEF KeyTask
<1>3. t.do \in KeyDo \union {"d2h", "map"} => t.key \in Key /\ t.do # "forEach"
  BY TaskFields DEF KeyDo, LoopDo
<1> QED BY <1>1, <1>2, <1>3 DEF WorkOf, KeyTask

LEMMA WorkFields ==
  /\ \A do, k : KeyTask(do, k).do = do /\ KeyTask(do, k).key = k
  /\ \A do, k, e, j : KeyTask(do, k) = KeyTask(e, j) <=> do = e /\ k = j
  /\ \A do \in KeyDo \union {"d2h"}, k \in Key : WorkOf(KeyTask(do, k)) = {KeyTask(do, k)}
  /\ \A k \in Key : \A f : WorkOf(MapTask(k, f)) = {KeyTask("map", k)}
  /\ \A do \in PlainDo : WorkOf(Task(do)) = {KeyTask(do, None)}
  /\ \A do \in FrameDo : \A f : WorkOf(FrameTask(do, f)) = {KeyTask(do, None)}
<1>1. \A do, k : KeyTask(do, k).do = do /\ KeyTask(do, k).key = k
  BY DEF KeyTask
<1>2. \A do, k, e, j : KeyTask(do, k) = KeyTask(e, j) <=> do = e /\ k = j
  <2> TAKE do, k, e, j
  <2>1. KeyTask(do, k) = KeyTask(e, j) => do = e /\ k = j
    BY <1>1
  <2> QED BY <2>1
<1>3. \A do \in KeyDo \union {"d2h"}, k \in Key : WorkOf(KeyTask(do, k)) = {KeyTask(do, k)}
  BY DEF WorkOf, KeyTask, KeyDo, LoopDo
<1>4. \A k \in Key : \A f : WorkOf(MapTask(k, f)) = {KeyTask("map", k)}
  BY DEF WorkOf, MapTask, KeyDo, LoopDo
<1>5. \A do \in PlainDo : WorkOf(Task(do)) = {KeyTask(do, None)}
  BY DEF WorkOf, Task, PlainDo, KeyDo, LoopDo
<1>6. \A do \in FrameDo : \A f : WorkOf(FrameTask(do, f)) = {KeyTask(do, None)}
  BY DEF WorkOf, FrameTask, FrameDo, KeyDo, LoopDo
<1> QED BY <1>1, <1>2, <1>3, <1>4, <1>5, <1>6

LEMMA WorkEmpty == Work(<< >>) = {}
BY DEF Work

LEMMA InWork ==
  ASSUME NEW s, NEW i \in DOMAIN s
  PROVE  WorkOf(s[i]) \subseteq Work(s)
BY DEF Work

LEMMA FromWork ==
  ASSUME NEW s, NEW w \in Work(s)
  PROVE  \E i \in DOMAIN s : w \in WorkOf(s[i])
BY DEF Work

-----------------------------------------------------------------------------
(* Parts of a list, and lists put together. *)

LEMMA SuffixOK ==
  ASSUME NEW op, NEW K, NEW s, ListOK(op, K, s), NEW m \in 1..(Len(s) + 1)
  PROVE  /\ ListOK(op, K, SubSeq(s, m, Len(s)))
         /\ Work(SubSeq(s, m, Len(s))) \subseteq Work(s)
         /\ Len(SubSeq(s, m, Len(s))) = Len(s) - m + 1
         /\ \A i \in 1..(Len(s) - m + 1) : SubSeq(s, m, Len(s))[i] = s[m + i - 1]
         /\ \A i \in m..Len(s) : WorkOf(s[i]) \subseteq Work(SubSeq(s, m, Len(s)))
<1> DEFINE u == SubSeq(s, m, Len(s))
<1>1. s \in Seq(Tasks) /\ Len(s) \in Nat /\ DOMAIN s = 1..Len(s)
  BY DEF ListOK
<1>2. \A i \in m..Len(s) : s[i] \in Tasks
  BY <1>1, ElementOfSeq
<1>3. /\ u \in Seq(Tasks) /\ Len(u) = Len(s) - m + 1
      /\ \A i \in 1..(Len(s) - m + 1) : u[i] = s[m + i - 1]
  BY <1>1, <1>2, SubSeqProperties
<1> HIDE DEF u
<1>4. /\ DOMAIN u = 1..Len(u) /\ Len(u) \in Nat
      /\ \A i \in DOMAIN u : m + i - 1 \in DOMAIN s /\ u[i] = s[m + i - 1]
  BY <1>1, <1>3
<1>5. Work(u) \subseteq Work(s)
  BY <1>4 DEF Work
<1>6. \A i \in m..Len(s) : WorkOf(s[i]) \subseteq Work(u)
  <2> TAKE i \in m..Len(s)
  <2>1. i - m + 1 \in DOMAIN u /\ u[i - m + 1] = s[i]
    <3>1. Len(s) \in Nat /\ i \in Int /\ m \in Int /\ m <= i /\ i <= Len(s) /\ 1 <= m
      BY <1>1
    <3>2. i - m + 1 \in 1..(Len(s) - m + 1) /\ m + (i - m + 1) - 1 = i
      BY <3>1
    <3> QED BY <1>3, <1>4, <3>2
  <2> QED BY <2>1, InWork
<1>7. KnownLoops(u)
  BY <1>4 DEF ListOK, KnownLoops
<1>8. Sorted(op, u)
  <2> SUFFICES ASSUME NEW i \in DOMAIN u, NEW j \in DOMAIN u, i < j,
                      NEW v \in WorkOf(u[i]), NEW w \in WorkOf(u[j])
               PROVE  InOrder(op, v, w)
    BY DEF Sorted
  <2>1. m + i - 1 < m + j - 1
    BY <1>4
  <2> QED BY <1>4, <2>1 DEF ListOK, Sorted
<1>9. Linked(u)
  <2>1. ASSUME NEW i \in DOMAIN u, i + 1 \in DOMAIN u PROVE Follows(u[i], u[i + 1])
    <3>1. (m + i - 1) + 1 \in DOMAIN s /\ u[i + 1] = s[(m + i - 1) + 1]
      BY <1>4, <2>1
    <3> QED BY <1>4, <3>1 DEF ListOK, Linked
  <2>2. ASSUME NEW i \in DOMAIN u, u[i].do = "dropDirty"
        PROVE  i + 1 \in DOMAIN u /\ u[i + 1] = KeyTask("invalidate", u[i].key)
    <3>1. (m + i - 1) + 1 \in DOMAIN s /\ s[(m + i - 1) + 1] = KeyTask("invalidate", u[i].key)
      BY <1>4, <2>2 DEF ListOK, Linked
    <3>2. i + 1 \in DOMAIN u
      BY <1>1, <1>3, <1>4, <3>1
    <3>3. u[i + 1] = s[(m + i - 1) + 1]
      BY <1>4, <3>2
    <3> QED BY <3>1, <3>2, <3>3
  <2> QED BY <2>1, <2>2 DEF Linked
<1> QED BY <1>3, <1>5, <1>6, <1>7, <1>8, <1>9 DEF ListOK, u

LEMMA TailOK ==
  ASSUME NEW op, NEW K, NEW s, ListOK(op, K, s), s # << >>
  PROVE  /\ ListOK(op, K, Tail(s))
         /\ Head(s) \in Tasks
         /\ Work(s) = WorkOf(Head(s)) \union Work(Tail(s))
         /\ \A v \in WorkOf(Head(s)), w \in Work(Tail(s)) : InOrder(op, v, w)
         /\ Tail(s) # << >> => Follows(Head(s), Head(Tail(s)))
         /\ Head(s).do = "dropDirty" =>
              Tail(s) # << >> /\ Head(Tail(s)) = KeyTask("invalidate", Head(s).key)
<1> DEFINE t == Tail(s)
<1>1. /\ s \in Seq(Tasks) /\ Len(s) \in Nat \ {0} /\ DOMAIN s = 1..Len(s)
      /\ Head(s) = s[1] /\ Head(s) \in Tasks
  BY EmptySeq, HeadTailProperties DEF ListOK
<1>2. t = SubSeq(s, 2, Len(s)) /\ 2 \in 1..(Len(s) + 1)
  BY <1>1, TailIsSubSeq
<1>3. /\ ListOK(op, K, t) /\ Work(t) \subseteq Work(s)
      /\ Len(t) = Len(s) - 1 /\ \A i \in 1..(Len(s) - 1) : t[i] = s[i + 1]
      /\ \A i \in 2..Len(s) : WorkOf(s[i]) \subseteq Work(t)
  <2> DEFINE u == SubSeq(s, 2, Len(s))
  <2>1. /\ ListOK(op, K, u) /\ Work(u) \subseteq Work(s)
        /\ Len(u) = Len(s) - 2 + 1 /\ \A i \in 1..(Len(s) - 2 + 1) : u[i] = s[2 + i - 1]
        /\ \A i \in 2..Len(s) : WorkOf(s[i]) \subseteq Work(u)
    <3> DEFINE m == 2
    <3>1. m \in 1..(Len(s) + 1)
      BY <1>2
    <3> HIDE DEF m
    <3>2. /\ ListOK(op, K, SubSeq(s, m, Len(s))) /\ Work(SubSeq(s, m, Len(s))) \subseteq Work(s)
          /\ Len(SubSeq(s, m, Len(s))) = Len(s) - m + 1
          /\ \A i \in 1..(Len(s) - m + 1) : SubSeq(s, m, Len(s))[i] = s[m + i - 1]
          /\ \A i \in m..Len(s) : WorkOf(s[i]) \subseteq Work(SubSeq(s, m, Len(s)))
      BY <3>1, SuffixOK
    <3> QED BY <3>2 DEF m
  <2>2. t = u
    BY <1>2
  <2> HIDE DEF t, u
  <2>3. Len(s) - 2 + 1 = Len(s) - 1 /\ \A i \in 1..(Len(s) - 1) : 2 + i - 1 = i + 1
    BY <1>1
  <2> QED BY <1>1, <2>1, <2>2, <2>3
<1> HIDE DEF t
<1>4. t \in Seq(Tasks) /\ DOMAIN t = 1..Len(t)
  BY <1>3 DEF ListOK
<1>5. Work(s) = WorkOf(Head(s)) \union Work(t)
  <2>1. WorkOf(Head(s)) \subseteq Work(s)
    BY <1>1, InWork
  <2>2. ASSUME NEW w \in Work(s) PROVE w \in WorkOf(Head(s)) \union Work(t)
    <3>1. PICK i \in DOMAIN s : w \in WorkOf(s[i])
      BY <2>2, FromWork
    <3>2. i = 1 \/ i \in 2..Len(s)
      BY <1>1
    <3> QED BY <1>1, <1>3, <3>1, <3>2
  <2> QED BY <1>3, <2>1, <2>2
<1>6. ASSUME NEW v \in WorkOf(Head(s)), NEW w \in Work(t) PROVE InOrder(op, v, w)
  <2>1. PICK i \in DOMAIN t : w \in WorkOf(t[i])
    BY FromWork
  <2>2. t[i] = s[i + 1] /\ i + 1 \in DOMAIN s /\ 1 < i + 1 /\ 1 \in DOMAIN s
    BY <1>1, <1>3, <1>4
  <2> QED BY <1>1, <2>1, <2>2 DEF ListOK, Sorted
<1>7. t # << >> => Head(t) = s[2] /\ 2 \in DOMAIN s
  BY <1>1, <1>3, <1>4, EmptySeq
<1>8. t # << >> => Follows(Head(s), Head(t))
  <2>1. 1 \in DOMAIN s /\ (2 \in DOMAIN s => 1 + 1 \in DOMAIN s /\ s[1 + 1] = s[2])
    BY <1>1
  <2> QED BY <1>1, <1>7, <2>1 DEF ListOK, Linked
<1>9. Head(s).do = "dropDirty" => t # << >> /\ Head(t) = KeyTask("invalidate", Head(s).key)
  <2> SUFFICES ASSUME Head(s).do = "dropDirty"
               PROVE  t # << >> /\ Head(t) = KeyTask("invalidate", Head(s).key)
    OBVIOUS
  <2>1. 1 + 1 \in DOMAIN s /\ s[1 + 1] = KeyTask("invalidate", Head(s).key)
    BY <1>1 DEF ListOK, Linked
  <2>2. Len(s) >= 2 /\ s[2] = KeyTask("invalidate", Head(s).key)
    BY <1>1, <2>1
  <2> QED BY <1>3, <1>4, <1>7, <2>2
<1> QED BY <1>1, <1>3, <1>5, <1>6, <1>8, <1>9 DEF t

(* p may be put in front of s. *)
Fits(op, p, s) ==
  /\ \A v \in Work(p), w \in Work(s) : InOrder(op, v, w)
  /\ p # << >> /\ s # << >> => Follows(p[Len(p)], Head(s))

LEMMA WorkConcat ==
  ASSUME NEW p \in Seq(Tasks), NEW s \in Seq(Tasks)
  PROVE  Work(p \o s) = Work(p) \union Work(s)
<1> DEFINE u == p \o s
<1>1. /\ u \in Seq(Tasks) /\ Len(u) = Len(p) + Len(s)
      /\ \A i \in 1..Len(p) + Len(s) : u[i] = IF i <= Len(p) THEN p[i] ELSE s[i - Len(p)]
  BY ConcatProperties
<1> HIDE DEF u
<1>2. /\ DOMAIN p = 1..Len(p) /\ DOMAIN s = 1..Len(s) /\ DOMAIN u = 1..(Len(p) + Len(s))
      /\ Len(p) \in Nat /\ Len(s) \in Nat
  BY <1>1
<1>3. ASSUME NEW w \in Work(u) PROVE w \in Work(p) \union Work(s)
  <2>1. PICK i \in DOMAIN u : w \in WorkOf(u[i])
    BY FromWork
  <2>2. CASE i <= Len(p)
    <3>1. i \in DOMAIN p /\ u[i] = p[i]
      BY <1>1, <1>2, <2>2
    <3> QED BY <2>1, <3>1, InWork
  <2>3. CASE ~(i <= Len(p))
    <3>1. i - Len(p) \in DOMAIN s /\ u[i] = s[i - Len(p)]
      BY <1>1, <1>2, <2>3
    <3> QED BY <2>1, <3>1, InWork
  <2> QED BY <2>2, <2>3
<1>4. ASSUME NEW w \in Work(p) PROVE w \in Work(u)
  <2>1. PICK i \in DOMAIN p : w \in WorkOf(p[i])
    BY FromWork
  <2>2. i \in DOMAIN u /\ u[i] = p[i]
    BY <1>1, <1>2
  <2> QED BY <2>1, <2>2, InWork
<1>5. ASSUME NEW w \in Work(s) PROVE w \in Work(u)
  <2>1. PICK i \in DOMAIN s : w \in WorkOf(s[i])
    BY FromWork
  <2>2. i + Len(p) \in DOMAIN u /\ u[i + Len(p)] = s[i]
    BY <1>1, <1>2
  <2> QED BY <2>1, <2>2, InWork
<1> QED BY <1>3, <1>4, <1>5 DEF u

LEMMA ConcatOK ==
  ASSUME NEW op, NEW K, NEW p, NEW s, ListOK(op, K, p), ListOK(op, K, s), Fits(op, p, s)
  PROVE  ListOK(op, K, p \o s) /\ Work(p \o s) = Work(p) \union Work(s)
<1> DEFINE u == p \o s
<1>1. p \in Seq(Tasks) /\ s \in Seq(Tasks)
  BY DEF ListOK
<1>2. /\ u \in Seq(Tasks) /\ Len(u) = Len(p) + Len(s)
      /\ \A i \in 1..Len(p) + Len(s) : u[i] = IF i <= Len(p) THEN p[i] ELSE s[i - Len(p)]
      /\ Work(u) = Work(p) \union Work(s)
  BY <1>1, ConcatProperties, WorkConcat
<1> HIDE DEF u
<1>3. /\ DOMAIN p = 1..Len(p) /\ DOMAIN s = 1..Len(s) /\ DOMAIN u = 1..(Len(p) + Len(s))
      /\ Len(p) \in Nat /\ Len(s) \in Nat
  BY <1>1, <1>2
<1>4. /\ \A i \in DOMAIN p : i \in DOMAIN u /\ u[i] = p[i]
      /\ \A i \in DOMAIN u : i \notin DOMAIN p =>
           i - Len(p) \in DOMAIN s /\ u[i] = s[i - Len(p)]
  BY <1>2, <1>3
<1>5. KnownLoops(u)
  BY <1>4 DEF ListOK, KnownLoops
<1>6. \A w \in Work(u) : Permitted(op, K, w)
  BY <1>2 DEF ListOK
<1>7. Sorted(op, u)
  <2> SUFFICES ASSUME NEW i \in DOMAIN u, NEW j \in DOMAIN u, i < j,
                      NEW v \in WorkOf(u[i]), NEW w \in WorkOf(u[j])
               PROVE  InOrder(op, v, w)
    BY DEF Sorted
  <2>1. CASE j \in DOMAIN p
    <3>1. i \in DOMAIN p
      BY <1>3, <2>1
    <3> QED BY <1>4, <2>1, <3>1 DEF ListOK, Sorted
  <2>2. CASE i \in DOMAIN p /\ j \notin DOMAIN p
    <3>1. v \in Work(p)
      BY <1>4, <2>2, InWork
    <3>2. w \in Work(s)
      BY <1>4, <2>2, InWork
    <3> QED BY <3>1, <3>2 DEF Fits
  <2>3. CASE i \notin DOMAIN p /\ j \notin DOMAIN p
    <3>1. /\ i - Len(p) \in DOMAIN s /\ j - Len(p) \in DOMAIN s /\ i - Len(p) < j - Len(p)
          /\ u[i] = s[i - Len(p)] /\ u[j] = s[j - Len(p)]
      BY <1>3, <1>4, <2>3
    <3> QED BY <3>1 DEF ListOK, Sorted
  <2> QED BY <2>1, <2>2, <2>3
<1>8. Linked(u)
  <2>1. ASSUME NEW i \in DOMAIN u, i + 1 \in DOMAIN u PROVE Follows(u[i], u[i + 1])
    <3>1. CASE i + 1 \in DOMAIN p
      <4>1. i \in DOMAIN p /\ u[i] = p[i] /\ u[i + 1] = p[i + 1]
        BY <1>3, <1>4, <3>1
      <4> QED BY <3>1, <4>1 DEF ListOK, Linked
    <3>2. CASE i \in DOMAIN p /\ i + 1 \notin DOMAIN p
      <4>1. i = Len(p) /\ p # << >>
        BY <1>3, <3>2
      <4>2. u[i] = p[Len(p)] /\ u[i + 1] = s[1] /\ 1 \in DOMAIN s
        BY <1>3, <1>4, <2>1, <3>2, <4>1
      <4>3. s # << >> /\ Head(s) = s[1]
        BY <1>1, <4>2
      <4> QED BY <4>1, <4>2, <4>3 DEF Fits
    <3>3. CASE i \notin DOMAIN p
      <4>1. /\ i - Len(p) \in DOMAIN s /\ (i - Len(p)) + 1 \in DOMAIN s
            /\ u[i] = s[i - Len(p)] /\ u[i + 1] = s[(i - Len(p)) + 1]
        <5>1. i + 1 \notin DOMAIN p /\ (i + 1) - Len(p) = (i - Len(p)) + 1
          BY <1>3, <3>3
        <5>2. (i + 1) - Len(p) \in DOMAIN s /\ u[i + 1] = s[(i + 1) - Len(p)]
          BY <1>4, <2>1, <5>1
        <5> QED BY <1>4, <3>3, <5>1, <5>2
      <4> QED BY <4>1 DEF ListOK, Linked
    <3> QED BY <3>1, <3>2, <3>3
  <2>2. ASSUME NEW i \in DOMAIN u, u[i].do = "dropDirty"
        PROVE  i + 1 \in DOMAIN u /\ u[i + 1] = KeyTask("invalidate", u[i].key)
    <3>1. CASE i \in DOMAIN p
      <4>1. i + 1 \in DOMAIN p /\ p[i + 1] = KeyTask("invalidate", u[i].key)
        BY <1>4, <2>2, <3>1 DEF ListOK, Linked
      <4> QED BY <1>4, <4>1
    <3>2. CASE i \notin DOMAIN p
      <4>1. i - Len(p) \in DOMAIN s /\ u[i] = s[i - Len(p)]
        BY <1>4, <3>2
      <4>2. (i - Len(p)) + 1 \in DOMAIN s /\ s[(i - Len(p)) + 1] = KeyTask("invalidate", u[i].key)
        BY <2>2, <4>1 DEF ListOK, Linked
      <4>3. i + 1 \in DOMAIN u /\ i + 1 \notin DOMAIN p /\ (i + 1) - Len(p) = (i - Len(p)) + 1
        BY <1>3, <3>2, <4>2
      <4>4. u[i + 1] = s[(i + 1) - Len(p)]
        BY <1>4, <4>3
      <4> QED BY <4>2, <4>3, <4>4
    <3> QED BY <3>1, <3>2
  <2> QED BY <2>1, <2>2 DEF Linked
<1> QED BY <1>2, <1>5, <1>6, <1>7, <1>8 DEF ListOK, u

-----------------------------------------------------------------------------
(* Loops. *)

LEMMA LoopFormFacts ==
  ASSUME NEW st \in LoopForms
  PROVE  /\ st \in Seq(LoopDo) /\ Len(st) \in 1..3 /\ DOMAIN st = 1..Len(st)
         /\ \A a, b \in DOMAIN st :
              /\ st[a] = "catch" => st[b] \notin {"prepare", "pin", "ensure", "writebackIfDirty"}
              /\ st[a] = "put" => st[b] \notin {"writebackIfDirty", "unmapIfClean"}
              /\ st[a] = "get" => st[b] # "writebackIfDirty"
              /\ a < b /\ st[a] = "unmapIfClean" => st[b] # "writebackIfDirty"
              /\ a < b => st[b] # "prepare"
              /\ a < b /\ st[a] = "dropDirty" => st[b] # "unmapIfClean"
              /\ a < b => st[a] # "invalidate"
         /\ st[1] \notin {"pin", "invalidate"}
         /\ \A a \in DOMAIN st :
              /\ a + 1 \in DOMAIN st /\ st[a + 1] = "pin" => st[a] = "ensure"
              /\ st[a] = "dropDirty" => a + 1 \in DOMAIN st /\ st[a + 1] = "invalidate"
<1> DEFINE Do == LoopDo
<1>0. /\ {"ensure", "unmapIfClean", "writebackIfDirty", "put", "get"} \subseteq Do
      /\ {"catch", "prepare", "pin", "dropDirty", "invalidate"} \subseteq Do
  BY DEF LoopDo
<1> HIDE DEF Do
<1>1. CASE st \in {<<"ensure">>, <<"unmapIfClean">>, <<"writebackIfDirty">>, <<"put">>, <<"get">>}
  <2>1. Len(st) = 1 /\ DOMAIN st = {1} /\ 1..1 = {1}
    BY <1>1
  <2>2. st[1] \in {"ensure", "unmapIfClean", "writebackIfDirty", "put", "get"}
    BY <1>1
  <2>3. st \in Seq(Do)
    <3>1. /\ <<"ensure">> \in Seq(Do) /\ <<"unmapIfClean">> \in Seq(Do) /\ <<"writebackIfDirty">> \in Seq(Do)
          /\ <<"put">> \in Seq(Do) /\ <<"get">> \in Seq(Do)
      BY <1>0
    <3> QED BY <1>1, <3>1
  <2> QED BY <2>1, <2>2, <2>3 DEF Do
<1>2. CASE st \in {<<"unmapIfClean", "catch">>, <<"writebackIfDirty", "unmapIfClean">>}
  <2>1. Len(st) = 2 /\ DOMAIN st = {1, 2} /\ 1..2 = {1, 2}
    BY <1>2
  <2>2. \/ st[1] = "unmapIfClean" /\ st[2] = "catch"
        \/ st[1] = "writebackIfDirty" /\ st[2] = "unmapIfClean"
    BY <1>2
  <2>3. st \in Seq(Do)
    <3>1. /\ <<"unmapIfClean", "catch">> \in Seq(Do)
          /\ <<"writebackIfDirty", "unmapIfClean">> \in Seq(Do)
      BY <1>0
    <3> QED BY <1>2, <3>1
  <2> QED BY <2>1, <2>2, <2>3 DEF Do
<1>3. CASE st \in {<<"prepare", "ensure", "pin">>, <<"unmapIfClean", "dropDirty", "invalidate">>}
  <2>1. Len(st) = 3 /\ DOMAIN st = {1, 2, 3} /\ 1..3 = {1, 2, 3}
    BY <1>3
  <2>2. \/ st[1] = "prepare" /\ st[2] = "ensure" /\ st[3] = "pin"
        \/ st[1] = "unmapIfClean" /\ st[2] = "dropDirty" /\ st[3] = "invalidate"
    BY <1>3
  <2>3. st \in Seq(Do)
    <3>1. /\ <<"prepare", "ensure", "pin">> \in Seq(Do)
          /\ <<"unmapIfClean", "dropDirty", "invalidate">> \in Seq(Do)
      BY <1>0
    <3> QED BY <1>3, <3>1
  <2> QED BY <2>1, <2>2, <2>3 DEF Do
<1> QED BY <1>1, <1>2, <1>3 DEF LoopForms

LEMMA SingleOK ==
  ASSUME NEW op, NEW K, NEW t \in Tasks, t.do = "forEach" => t.steps \in LoopForms,
         \A w \in WorkOf(t) : Permitted(op, K, w), t.do # "dropDirty"
  PROVE  ListOK(op, K, <<t>>) /\ Work(<<t>>) = WorkOf(t)
<1> DEFINE s == <<t>>
<1>1. s \in Seq(Tasks) /\ DOMAIN s = {1} /\ s[1] = t
  OBVIOUS
<1> HIDE DEF s
<1>2. Work(s) = WorkOf(t)
  BY <1>1 DEF Work
<1>3. Sorted(op, s)
  <2>1. \A i, j \in DOMAIN s : ~(i < j)
    BY <1>1
  <2> QED BY <2>1 DEF Sorted
<1>4. Linked(s)
  <2>1. \A i \in DOMAIN s : i + 1 \notin DOMAIN s
    BY <1>1
  <2> QED BY <1>1, <2>1 DEF Linked
<1>5. ListOK(op, K, s)
  BY <1>1, <1>2, <1>3, <1>4 DEF ListOK, KnownLoops
<1> QED BY <1>2, <1>5 DEF s

LEMMA EmptyOK ==
  ASSUME NEW op, NEW K
  PROVE  ListOK(op, K, << >>) /\ Work(<< >>) = {}
<1>1. DOMAIN << >> = {} /\ << >> \in Seq(Tasks)
  BY EmptySeq
<1> QED BY <1>1, WorkEmpty DEF ListOK, KnownLoops, Sorted, Linked

LoopWork(K, steps) == {KeyTask(steps[i], k) : i \in DOMAIN steps, k \in K}

LEMMA ForEachOK ==
  ASSUME NEW op, NEW K, NEW L \in SUBSET Key, NEW steps \in LoopForms,
         \A w \in LoopWork(L, steps) : Permitted(op, K, w)
  PROVE  /\ ListOK(op, K, ForEach(L, steps))
         /\ Work(ForEach(L, steps)) = LoopWork(L, steps)
         /\ L = {} => ForEach(L, steps) = << >>
         /\ L # {} => ForEach(L, steps) # << >> /\ Head(ForEach(L, steps)).do = "forEach"
<1> DEFINE loop == [do |-> "forEach", keys |-> L, steps |-> steps]
<1>1. CASE L = {}
  <2>1. ForEach(L, steps) = << >>
    BY <1>1 DEF ForEach
  <2>2. LoopWork(L, steps) = {}
    BY <1>1 DEF LoopWork
  <2> QED BY <1>1, <2>1, <2>2, EmptyOK
<1>2. CASE L # {}
  <2>1. loop \in Tasks /\ loop.do = "forEach" /\ loop.steps = steps /\ WorkOf(loop) = LoopWork(L, steps)
    BY <1>2, LoopFormFacts DEF Tasks, Queued, Loops, WorkOf, LoopWork
  <2>2. ForEach(L, steps) = <<loop>>
    BY <1>2 DEF ForEach
  <2> HIDE DEF loop
  <2>3. ListOK(op, K, <<loop>>) /\ Work(<<loop>>) = WorkOf(loop)
    BY <2>1, SingleOK
  <2>4. <<loop>> # << >> /\ Head(<<loop>>) = loop
    OBVIOUS
  <2> QED BY <1>2, <2>1, <2>2, <2>3, <2>4
<1> QED BY <1>1, <1>2

LEMMA IterationOK ==
  ASSUME NEW op, NEW K, NEW loop \in Loops, loop.steps \in LoopForms,
         \A w \in WorkOf(loop) : Permitted(op, K, w)
  PROVE  /\ ListOK(op, K, Iteration(loop))
         /\ Work(Iteration(loop)) = WorkOf(loop)
         /\ Iteration(loop) # << >>
         /\ Head(Iteration(loop)).do \in LoopDo \ {"pin", "invalidate"}
<1> DEFINE st == loop.steps
           k == Least(loop.keys)
           others == loop.keys \ {k}
           first == [i \in DOMAIN st |-> KeyTask(st[i], k)]
           rest == ForEach(others, st)
<1>1. loop.keys \in SUBSET Key /\ loop.keys # {} /\ loop.do = "forEach"
  BY DEF Loops
<1>2. k \in loop.keys /\ k \in Key
  <2>1. loop.keys \in SUBSET Nat
    BY <1>1, RuntimeAssumption DEF Key
  <2> QED BY <1>1, <2>1, LeastElement
<1>3. /\ st \in Seq(LoopDo) /\ Len(st) \in 1..3 /\ DOMAIN st = 1..Len(st)
      /\ \A a \in DOMAIN st : st[a] \in LoopDo
  <2>1. st \in Seq(LoopDo) /\ Len(st) \in 1..3 /\ DOMAIN st = 1..Len(st)
    BY LoopFormFacts
  <2> QED BY <2>1, ElementOfSeq
<1>4. WorkOf(loop) = LoopWork(loop.keys, st)
  BY <1>1 DEF WorkOf, LoopWork
<1> HIDE DEF st, k
<1>5. /\ ListOK(op, K, rest) /\ Work(rest) = LoopWork(others, st)
      /\ rest # << >> => Head(rest).do = "forEach"
  <2>1. \A w \in LoopWork(others, st) : Permitted(op, K, w)
    BY <1>4 DEF LoopWork
  <2>2. others \in SUBSET Key /\ st \in LoopForms
    BY <1>1 DEF st
  <2> HIDE DEF others
  <2>3. /\ ListOK(op, K, ForEach(others, st)) /\ Work(ForEach(others, st)) = LoopWork(others, st)
        /\ others = {} => ForEach(others, st) = << >>
        /\ others # {} => Head(ForEach(others, st)).do = "forEach"
    BY <2>1, <2>2, ForEachOK, ZenonT(40)
  <2> QED BY <2>3
<1>6. /\ first \in Seq(Tasks) /\ Len(first) = Len(st) /\ DOMAIN first = DOMAIN st
      /\ \A a \in DOMAIN first : first[a] = KeyTask(st[a], k) /\ WorkOf(first[a]) = {KeyTask(st[a], k)}
  <2>1. \A a \in 1..Len(st) : KeyTask(st[a], k) \in Tasks /\ WorkOf(KeyTask(st[a], k)) = {KeyTask(st[a], k)}
    BY <1>2, <1>3, TaskTypes, WorkFields DEF KeyDo, Tasks
  <2>2. first \in [1..Len(st) -> Tasks]
    BY <1>3, <2>1
  <2>3. Len(st) \in Nat
    BY <1>3
  <2>4. first \in Seq(Tasks) /\ Len(first) = Len(st)
    BY <2>2, <2>3, SeqDef
  <2> QED BY <1>3, <2>1, <2>4
<1>7. Work(first) = LoopWork({k}, st)
  BY <1>6 DEF Work, LoopWork
<1> HIDE DEF first, rest
<1>8. ListOK(op, K, first)
  <2>1. \A w \in Work(first) : Permitted(op, K, w)
    BY <1>2, <1>4, <1>7 DEF LoopWork
  <2>2. KnownLoops(first)
    BY <1>3, <1>6, WorkFields DEF KnownLoops, LoopDo
  <2>3. Sorted(op, first)
    <3> SUFFICES ASSUME NEW a \in DOMAIN first, NEW b \in DOMAIN first, a < b
                 PROVE  InOrder(op, KeyTask(st[a], k), KeyTask(st[b], k))
      BY <1>6 DEF Sorted
    <3>1. /\ st[a] \in LoopDo /\ st[b] \in LoopDo
          /\ st[a] = "catch" => st[b] \notin {"prepare", "pin", "ensure", "writebackIfDirty"}
          /\ st[a] = "put" => st[b] \notin {"writebackIfDirty", "unmapIfClean"}
          /\ st[a] = "get" => st[b] # "writebackIfDirty"
          /\ st[a] = "unmapIfClean" => st[b] # "writebackIfDirty"
          /\ st[b] # "prepare" /\ st[a] # "invalidate"
          /\ st[a] = "dropDirty" => st[b] # "unmapIfClean"
      BY <1>3, <1>6, LoopFormFacts DEF st
    <3> QED BY <3>1, WorkFields DEF InOrder, LoopDo, LastDo, HeadDo, Catch, CopyingDo, FirstDo, ShrinkEnd
  <2>4. Linked(first)
    <3>1. ASSUME NEW a \in DOMAIN first, a + 1 \in DOMAIN first
          PROVE  Follows(first[a], first[a + 1])
      <4>1. (st[a + 1] = "pin" => st[a] = "ensure") /\ st[a + 1] # "unmap"
        BY <1>6, <3>1, LoopFormFacts DEF st, LoopDo
      <4> QED BY <1>6, <3>1, <4>1, WorkFields DEF Follows, MakesResident
    <3>2. ASSUME NEW a \in DOMAIN first, first[a].do = "dropDirty"
          PROVE  a + 1 \in DOMAIN first /\ first[a + 1] = KeyTask("invalidate", first[a].key)
      <4>1. st[a] = "dropDirty"
        BY <1>6, <3>2, WorkFields
      <4>2. a + 1 \in DOMAIN st /\ st[a + 1] = "invalidate"
        BY <1>6, <4>1, LoopFormFacts DEF st
      <4> QED BY <1>6, <4>2, WorkFields
    <3> QED BY <3>1, <3>2 DEF Linked
  <2> QED BY <1>6, <2>1, <2>2, <2>3, <2>4 DEF ListOK
<1>9. Fits(op, first, rest)
  <2>1. ASSUME NEW v \in Work(first), NEW w \in Work(rest) PROVE InOrder(op, v, w)
    <3>1. PICK a \in DOMAIN st : v = KeyTask(st[a], k)
      BY <1>7, <2>1 DEF LoopWork
    <3>2. PICK b \in DOMAIN st, j \in others : w = KeyTask(st[b], j)
      BY <1>5, <2>1 DEF LoopWork
    <3>3. /\ st[a] \in LoopDo /\ st[b] \in LoopDo /\ j # k
          /\ st[a] = "catch" => st[b] \notin {"prepare", "pin", "ensure", "writebackIfDirty"}
          /\ st[a] = "put" => st[b] \notin {"writebackIfDirty", "unmapIfClean"}
          /\ st[a] = "get" => st[b] # "writebackIfDirty"
      BY <1>3, LoopFormFacts DEF st
    <3> QED BY <3>1, <3>2, <3>3, WorkFields DEF InOrder, LoopDo, LastDo, HeadDo, Catch, CopyingDo, FirstDo, ShrinkEnd
  <2> QED BY <1>5, <2>1 DEF Fits, Follows
<1>10. /\ ListOK(op, K, first \o rest)
       /\ Work(first \o rest) = LoopWork({k}, st) \union LoopWork(others, st)
  BY <1>5, <1>7, <1>8, <1>9, ConcatOK
<1>11. LoopWork({k}, st) \union LoopWork(others, st) = LoopWork(loop.keys, st)
  BY <1>2 DEF LoopWork
<1>12. first \o rest # << >> /\ Head(first \o rest).do \in LoopDo \ {"pin", "invalidate"}
  <2>1. rest \in Seq(Tasks)
    BY <1>5 DEF ListOK
  <2>2. /\ first \o rest \in Seq(Tasks) /\ Len(first \o rest) = Len(first) + Len(rest)
        /\ \A i \in 1..Len(first) + Len(rest) :
             (first \o rest)[i] = IF i <= Len(first) THEN first[i] ELSE rest[i - Len(first)]
    BY <1>6, <2>1, ConcatProperties
  <2> DEFINE u == first \o rest
  <2> HIDE DEF u
  <2>3. Len(u) \in Nat /\ Len(u) >= 1 /\ u[1] = first[1] /\ 1 \in DOMAIN st /\ u \in Seq(Tasks)
    BY <1>3, <1>6, <2>1, <2>2 DEF u
  <2>4. u # << >> /\ Head(u) = u[1]
    BY <2>3
  <2>5. st[1] \in LoopDo \ {"pin", "invalidate"}
    BY <1>3, <2>3, LoopFormFacts DEF st
  <2> QED BY <1>6, <2>3, <2>4, <2>5, WorkFields DEF u
<1> QED BY <1>4, <1>10, <1>11, <1>12 DEF Iteration, first, rest, k, st

LEMMA UnrolledOK ==
  ASSUME NEW op, NEW K, NEW s, ListOK(op, K, s), s # << >>
  PROVE  /\ ListOK(op, K, Unrolled(s)) /\ Work(Unrolled(s)) = Work(s)
         /\ Unrolled(s) # << >>
         /\ Head(s).do # "forEach" => Unrolled(s) = s
         /\ Head(s).do = "forEach" => Head(Unrolled(s)).do \in LoopDo \ {"pin", "invalidate"}
<1>1. CASE Head(s).do # "forEach"
  BY <1>1 DEF Unrolled
<1>2. CASE Head(s).do = "forEach"
  <2> DEFINE loop == Head(s)
             t == Tail(s)
             p == Iteration(loop)
  <2>1. /\ ListOK(op, K, t) /\ loop \in Tasks
        /\ Work(s) = WorkOf(loop) \union Work(t)
        /\ \A v \in WorkOf(loop), w \in Work(t) : InOrder(op, v, w)
        /\ t # << >> => Follows(loop, Head(t))
    BY TailOK
  <2>2. loop.steps \in LoopForms
    <3>1. 1 \in DOMAIN s /\ loop = s[1]
      BY EmptySeq DEF ListOK
    <3> QED BY <1>2, <3>1 DEF ListOK, KnownLoops
  <2>3. loop \in Loops /\ \A w \in WorkOf(loop) : Permitted(op, K, w)
    BY <1>2, <2>1, TaskFields DEF ListOK
  <2>4. Unrolled(s) = p \o t
    BY <1>2 DEF Unrolled
  <2> HIDE DEF t, loop
  <2>5. /\ ListOK(op, K, p) /\ Work(p) = WorkOf(loop) /\ p # << >>
        /\ Head(p).do \in LoopDo \ {"pin", "invalidate"}
    BY <2>2, <2>3, IterationOK
  <2> HIDE DEF p
  <2>6. Fits(op, p, t)
    <3>1. loop.do = "forEach"
      BY <1>2 DEF loop
    <3> QED BY <2>1, <2>5, <3>1 DEF Fits, Follows, MakesResident, CleaningDo
  <2>7. ListOK(op, K, p \o t) /\ Work(p \o t) = Work(s)
    <3>1. ListOK(op, K, p) /\ ListOK(op, K, t)
      BY <2>1, <2>5
    <3>2. ListOK(op, K, p \o t)
      BY <2>6, <3>1, ConcatOK
    <3>3. p \in Seq(Tasks) /\ t \in Seq(Tasks)
      BY <3>1 DEF ListOK
    <3>4. Work(p \o t) = Work(p) \union Work(t)
      BY <3>3, WorkConcat
    <3> QED BY <2>1, <2>5, <3>2, <3>4
  <2>8. p \o t # << >> /\ Head(p \o t) = Head(p)
    <3>1. p \in Seq(Tasks) /\ t \in Seq(Tasks)
      BY <2>1, <2>5 DEF ListOK
    <3>2. /\ p \o t \in Seq(Tasks) /\ Len(p \o t) = Len(p) + Len(t)
          /\ Len(p) \in Nat \ {0} /\ Len(t) \in Nat
          /\ (p \o t)[1] = p[1]
      BY <2>5, <3>1, ConcatProperties, EmptySeq
    <3> QED BY <2>5, <3>1, <3>2
  <2> QED BY <1>2, <2>4, <2>5, <2>7, <2>8 DEF loop
<1> QED BY <1>1, <1>2

-----------------------------------------------------------------------------
(* What is left of a call after its first task. *)

LEMMA HeadWork ==
  ASSUME NEW t \in Tasks, t.do # "forEach"
  PROVE  \E v \in WorkOf(t) : v.do = t.do /\ (t.do \in KeyDo \union {"d2h", "map"} => v.key = t.key)
BY WorkOfTask, WorkFields

LEMMA TailProper ==
  ASSUME NEW op, NEW K, NEW s, Proper(op, K, s), s # << >>
  PROVE  /\ Proper(op, K, Tail(s))
         /\ Head(s).do # "forEach" => \A w \in Work(Tail(s)) : w.do \notin FirstDo
         /\ Head(s).do # "forEach" /\ Tail(s) # << >> => Head(Tail(s)).do \notin HeadDo
<1> DEFINE t == Tail(s)
           h == Head(s)
<1>1. /\ ListOK(op, K, t) /\ h \in Tasks /\ Work(s) = WorkOf(h) \union Work(t)
      /\ \A v \in WorkOf(h), w \in Work(t) : InOrder(op, v, w)
  BY TailOK DEF Proper
<1>2. t # << >> => Head(t) \in Tasks /\ WorkOf(Head(t)) \subseteq Work(t)
  <2>1. t \in Seq(Tasks)
    BY <1>1 DEF ListOK
  <2> HIDE DEF t
  <2>2. t # << >> => 1 \in DOMAIN t /\ Head(t) = t[1] /\ Head(t) \in Tasks
    BY <2>1, EmptySeq, HeadTailProperties
  <2> QED BY <2>2, InWork
<1> HIDE DEF t, h
<1>3. ASSUME NEW k \in Key, KeyTask("prepare", k) \in Work(t) PROVE KeyTask("pin", k) \in Work(t)
  <2>1. KeyTask("pin", k) \in Work(s)
    BY <1>1, <1>3 DEF Proper
  <2>2. KeyTask("pin", k) \notin WorkOf(h)
    BY <1>1, <1>3, WorkFields DEF InOrder
  <2> QED BY <1>1, <2>1, <2>2
<1>4. ASSUME NEW w \in Work(t), w = KeyTask("arm", None) \/ \E k \in Key : w = KeyTask("pin", k)
      PROVE  KeyTask("rollback", None) \in Work(t)
  <2>1. KeyTask("rollback", None) \in Work(s)
    BY <1>1, <1>4 DEF Proper
  <2>2. KeyTask("rollback", None) \notin WorkOf(h)
    BY <1>1, <1>4, WorkFields DEF InOrder, LastDo
  <2> QED BY <1>1, <2>1, <2>2
<1>5. ASSUME h.do # "forEach", NEW w \in Work(t) PROVE w.do \notin FirstDo
  BY <1>1, <1>5, HeadWork DEF InOrder
<1>6. ASSUME h.do # "forEach", t # << >> PROVE Head(t).do \notin HeadDo
  <2>1. CASE Head(t).do = "forEach"
    BY <2>1 DEF HeadDo
  <2>2. CASE Head(t).do # "forEach"
    <3>1. PICK v \in WorkOf(Head(t)) : v.do = Head(t).do
      BY <1>2, <1>6, <2>2, HeadWork
    <3>2. v \in Work(t)
      BY <1>2, <1>6
    <3> QED BY <1>5, <1>6, <3>1, <3>2 DEF FirstDo
  <2> QED BY <2>1, <2>2
<1>7. Proper(op, K, t)
  BY <1>1, <1>3, <1>4 DEF Proper
<1> QED BY <1>5, <1>6, <1>7 DEF t, h

-----------------------------------------------------------------------------
(* The three ways a task ends: the call goes on with a list, or it fails.  *)

Leads(u) ==
  /\ u = << >> => call' = NoCall
  /\ u # << >> => /\ call'.op = call.op /\ call'.plan = call.plan
                  /\ call'.todo # << >> /\ Work(call'.todo) = Work(u)
                  /\ Head(u).do # "forEach" => Head(call'.todo) = Head(u)
                  /\ Head(u).do = "forEach" =>
                       Head(call'.todo).do \in LoopDo \ {"pin", "invalidate"}

LEMMA IdleProper ==
  /\ \A K : Proper("none", K, << >>)
  /\ NoCall.op = "none" /\ NoCall.todo = << >> /\ Work(NoCall.todo) = {} /\ NoCall.plan = << >>
<1>1. \A K : ListOK("none", K, << >>) /\ Work(<< >>) = {}
  BY EmptyOK
<1> QED BY <1>1 DEF Proper, NoCall

LEMMA GotoOK ==
  ASSUME call \in CallRecord, NEW u, Proper(call.op, Touched, u), Goto(u)
  PROVE  CallInv' /\ Leads(u)
<1>1. CASE u = << >>
  <2>1. call' = NoCall
    BY <1>1 DEF Goto
  <2>2. Proper(call'.op, Touched', call'.todo)
    BY <2>1, IdleProper
  <2> QED BY <1>1, <2>1, <2>2, IdleProper DEF CallInv, Leads
<1>2. CASE u # << >>
  <2>1. call' = [call EXCEPT !.todo = Unrolled(u)]
    BY <1>2 DEF Goto
  <2>2. call'.op = call.op /\ call'.plan = call.plan /\ call'.todo = Unrolled(u)
    BY <2>1 DEF CallRecord
  <2>3. /\ ListOK(call.op, Touched, Unrolled(u)) /\ Work(Unrolled(u)) = Work(u)
        /\ Unrolled(u) # << >>
        /\ Head(u).do # "forEach" => Unrolled(u) = u
        /\ Head(u).do = "forEach" => Head(Unrolled(u)).do \in LoopDo \ {"pin", "invalidate"}
    BY <1>2, UnrolledOK DEF Proper
  <2>4. Touched' = Touched
    BY <2>2 DEF Touched, Plan
  <2>5. Proper(call'.op, Touched', call'.todo)
    BY <2>2, <2>3, <2>4 DEF Proper
  <2> QED BY <1>2, <2>2, <2>3, <2>5 DEF CallInv, Leads
<1> QED BY <1>1, <1>2

LEMMA ContinueOK ==
  ASSUME call \in CallRecord, CallInv, call.todo # << >>, Continue
  PROVE  CallInv' /\ Leads(Tail(call.todo))
<1>1. Proper(call.op, Touched, Tail(call.todo))
  BY TailProper DEF CallInv
<1> QED BY <1>1, GotoOK DEF Continue

(* The call is over, or goes on with the first of the handlers that wait.  *)
Fails ==
  \/ /\ call' = NoCall
     /\ \A do \in Catch \ {"catch"} : KeyTask(do, None) \notin Work(Tail(call.todo))
  \/ /\ call'.op = call.op /\ call'.plan = call.plan
     /\ call'.todo # << >> /\ Head(call'.todo).do \in Catch
     /\ Work(call'.todo) \subseteq Work(Tail(call.todo))
     /\ \A do \in Catch \ {"catch"} :
          KeyTask(do, None) \in Work(Tail(call.todo)) => KeyTask(do, None) \in Work(call'.todo)
     /\ \A w \in Work(call'.todo) :
          /\ w.do \notin {"workspace", "prepare", "pin", "arm"} \union ShrinkEnd
          /\ w.do \in CopyingDo => Head(call.todo).do = "unmapIfClean"

LEMMA FailOK ==
  ASSUME call \in CallRecord, CallInv, call.todo # << >>, Head(call.todo).do # "forEach",
         NEW status, Fail(status)
  PROVE  CallInv' /\ Fails
<1> DEFINE rest == Tail(call.todo)
           handlers == {i \in DOMAIN rest : rest[i].do \in Catch}
           m == Least(handlers)
           u == SubSeq(rest, m, Len(rest))
<1>1. /\ ListOK(call.op, Touched, rest) /\ rest \in Seq(Tasks)
      /\ Len(rest) \in Nat /\ DOMAIN rest = 1..Len(rest)
  <2>1. Proper(call.op, Touched, rest)
    BY TailProper DEF CallInv
  <2>2. ListOK(call.op, Touched, rest) /\ rest \in Seq(Tasks)
    BY <2>1 DEF Proper, ListOK
  <2> QED BY <2>2
<1>2. call' = IF handlers = {} THEN NoCall ELSE [call EXCEPT !.todo = u, !.failure = status]
  BY DEF Fail
<1>3. ASSUME NEW do \in Catch \ {"catch"}, KeyTask(do, None) \in Work(rest)
      PROVE  \E i \in handlers : KeyTask(do, None) \in WorkOf(rest[i])
  <2> HIDE DEF rest
  <2>1. PICK i \in DOMAIN rest : KeyTask(do, None) \in WorkOf(rest[i])
    BY <1>3, FromWork
  <2>2. rest[i] \in Tasks
    BY <1>1, ElementOfSeq
  <2>3. rest[i].do # "forEach"
    BY <1>3, <2>1, <2>2, WorkOfTask, WorkFields DEF LoopDo, Catch
  <2>4. rest[i].do = do
    BY <2>1, <2>2, <2>3, WorkOfTask, WorkFields
  <2> QED BY <2>1, <2>4
<1> HIDE DEF rest
<1>4. CASE handlers = {}
  <2>1. call' = NoCall
    BY <1>2, <1>4
  <2>2. \A do \in Catch \ {"catch"} : KeyTask(do, None) \notin Work(rest)
    BY <1>3, <1>4
  <2>3. Proper(call'.op, Touched', call'.todo)
    BY <2>1, IdleProper
  <2> QED BY <2>1, <2>2, <2>3, IdleProper DEF CallInv, Fails, rest
<1>5. CASE handlers # {}
  <2>1. m \in DOMAIN rest /\ rest[m].do \in Catch /\ m \in Nat /\ \A i \in handlers : m <= i
    <3>1. handlers \in SUBSET Nat
      BY <1>1
    <3> HIDE DEF handlers
    <3>2. m \in handlers /\ m \in Nat /\ \A i \in handlers : m <= i
      BY <1>5, <3>1, LeastElement
    <3> QED BY <3>2 DEF handlers
  <2>2. call' = [call EXCEPT !.todo = u, !.failure = status]
    BY <1>2, <1>5
  <2> HIDE DEF m
  <2>3. m \in 1..(Len(rest) + 1) /\ m \in 1..Len(rest)
    BY <1>1, <2>1
  <2>4. /\ ListOK(call.op, Touched, u) /\ Work(u) \subseteq Work(rest)
        /\ Len(u) = Len(rest) - m + 1
        /\ \A i \in 1..(Len(rest) - m + 1) : u[i] = rest[m + i - 1]
        /\ \A i \in m..Len(rest) : WorkOf(rest[i]) \subseteq Work(u)
    BY <1>1, <2>3, SuffixOK
  <2> HIDE DEF u
  <2>5. u \in Seq(Tasks) /\ u # << >> /\ Head(u) = rest[m]
    <3>1. u \in Seq(Tasks) /\ Len(u) >= 1 /\ u[1] = rest[m]
      BY <1>1, <2>3, <2>4 DEF ListOK
    <3>2. Len(u) # 0
      BY <2>3, <2>4
    <3> QED BY <3>1, <3>2
  <2>6. call'.op = call.op /\ call'.plan = call.plan /\ call'.todo = u
    BY <2>2 DEF CallRecord
  <2>7. \A do \in Catch \ {"catch"} : KeyTask(do, None) \in Work(rest) => KeyTask(do, None) \in Work(u)
    <3> TAKE do \in Catch \ {"catch"}
    <3> HAVE KeyTask(do, None) \in Work(rest)
    <3>1. PICK i \in handlers : KeyTask(do, None) \in WorkOf(rest[i])
      BY <1>3
    <3>2. i \in m..Len(rest)
      BY <1>1, <2>1, <3>1
    <3> QED BY <2>4, <3>1, <3>2
  <2>8. \A w \in Work(u) :
          /\ w.do \notin {"workspace", "prepare", "pin", "arm"} \union ShrinkEnd
          /\ w.do \in CopyingDo => Head(call.todo).do = "unmapIfClean"
    <3>1. /\ Head(u) \in Tasks /\ Work(u) = WorkOf(Head(u)) \union Work(Tail(u))
          /\ \A v \in WorkOf(Head(u)), w \in Work(Tail(u)) : InOrder(call.op, v, w)
      BY <2>4, <2>5, TailOK
    <3>2. Head(u).do \in Catch
      BY <2>1, <2>5
    <3>3. /\ Head(u).do # "forEach"
          /\ Head(u).do \notin {"workspace", "prepare", "pin", "arm"} \union ShrinkEnd \union CopyingDo
      BY <3>2 DEF Catch, ShrinkEnd, CopyingDo
    <3>4. \A v \in WorkOf(Head(u)) : v.do = Head(u).do
      BY <3>1, <3>3, WorkOfTask
    <3>5. PICK v \in WorkOf(Head(u)) : v.do = Head(u).do
      BY <3>1, <3>3, HeadWork
    <3>6. \A w \in Work(Tail(u)) :
            /\ w.do \notin {"workspace", "prepare", "pin", "arm"} \union ShrinkEnd
            /\ w.do \in CopyingDo => Head(u).do = "finishLease"
      BY <3>1, <3>2, <3>5 DEF InOrder, ShrinkDo, Catch
    <3>7. Head(u).do = "finishLease" => Head(call.todo).do = "unmapIfClean"
      <4> HAVE Head(u).do = "finishLease"
      <4> DEFINE h == Head(call.todo)
      <4>1. /\ h \in Tasks /\ \A x \in WorkOf(h), w \in Work(rest) : InOrder(call.op, x, w)
        BY TailOK DEF CallInv, Proper, rest
      <4>2. \E x \in WorkOf(h) : x.do = h.do
        BY <4>1, HeadWork
      <4>3. \E w \in Work(rest) : w.do = "finishLease"
        BY <2>4, <3>1, <3>5
      <4> QED BY <4>1, <4>2, <4>3 DEF InOrder
    <3> QED BY <3>1, <3>3, <3>4, <3>6, <3>7
  <2>9. Proper(call'.op, Touched', call'.todo)
    <3>1. Touched' = Touched
      BY <2>6 DEF Touched, Plan
    <3>2. Proper(call.op, Touched, u)
      BY <2>4, <2>8, WorkFields DEF Proper
    <3> QED BY <2>6, <3>1, <3>2
  <2>10. CallInv'
    BY <2>5, <2>6, <2>9 DEF CallInv
  <2>11. Fails
    BY <2>1, <2>4, <2>5, <2>6, <2>7, <2>8 DEF Fails, rest
  <2> QED BY <2>10, <2>11
<1> QED BY <1>4, <1>5

-----------------------------------------------------------------------------
(* Tasks put in front of the list. *)

(* v may wait in front of everything that waits in a call of this kind. *)
Neutral(op, v) ==
  /\ v.do \notin LastDo \union LeaseDo \union DiscardDo
  /\ v.do \notin {"abandon", "arm", "prepare", "pin", "put", "get"}
  /\ v.do \in Catch => op # "acquire"
  /\ v.do = "unmapIfClean" => op \notin {"release", "write"}

(* v may wait in front of w. *)
Suits(v, w) ==
  /\ w.do # "finishLease"
  /\ w.do \in ShrinkEnd => v.do \in ShrinkDo
  /\ v.do \in Catch => w.do \notin CopyingDo
  /\ v.do \in {"ensure", "map", "h2d", "retireH2d"} => w # KeyTask("prepare", v.key)

(* What the order of h says holds for the task v that replaces it, too. *)
Heir(h, v) ==
  /\ h.do # "unmapIfClean"
  /\ h.do \in ShrinkDo => v.do \in ShrinkDo
  /\ v.do \in ShrinkEnd => h.do \in {"refresh", "forceRefresh"}
  /\ v.do = "create" => h.do = "ensure"
  /\ v.do \in Catch => h.do \in Catch \ {"finishLease"}
  /\ v.do \in {"ensure", "map", "h2d", "retireH2d"} =>
       h.do \in {"ensure", "map"} /\ v.key = h.key

(* v ends the lease, and nothing of s still deals with it. *)
Finishes(v, s) == v.do = "finishLease" /\ \A w \in Work(s) : w.do \notin LeaseDo

LEMMA NeutralInOrder ==
  ASSUME NEW op, NEW K, NEW v, Neutral(op, v), NEW w, w.do \notin FirstDo,
         Permitted(op, K, w), Suits(v, w)
  PROVE  InOrder(op, v, w)
<1>1. v.do \in Catch => w.do \notin {"workspace", "prepare", "pin", "arm"}
  BY DEF Neutral, Permitted, AcquireDo
<1>2. v.do \notin LastDo \union {"dropDirty", "invalidate", "prepare", "pin", "put", "get", "arm"}
  BY DEF Neutral, DiscardDo
<1>3. v.do \in {"prepare", "ensure", "map", "h2d", "retireH2d", "pin"} => w # KeyTask("prepare", v.key)
  BY <1>2 DEF Suits
<1>4. /\ v.do \in Catch \ {"finishLease"} => w.do \notin CopyingDo
      /\ w.do = "finishLease" => v.do = "unmapIfClean"
      /\ w.do \in ShrinkEnd => v.do \in ShrinkDo
  BY DEF Suits
<1>5. v.do = "unmapIfClean" /\ op \in {"release", "write"} => w # KeyTask("writebackIfDirty", v.key)
  BY DEF Neutral
<1> QED BY <1>1, <1>2, <1>3, <1>4, <1>5 DEF InOrder

LEMMA NeutralSuits ==
  ASSUME NEW op, NEW v, NEW w, Neutral(op, v), Neutral(op, w),
         w.do \in ShrinkEnd => v.do \in ShrinkDo, v.do \notin Catch
  PROVE  Suits(v, w)
BY WorkFields DEF Neutral, Suits, LeaseDo

LEMMA NeutralList ==
  ASSUME NEW op, NEW K, NEW p \in Seq(Tasks),
         \A i \in DOMAIN p : p[i].do \notin {"forEach", "dropDirty", "pin"},
         \A i \in DOMAIN p : \A w \in WorkOf(p[i]) : Neutral(op, w) /\ Permitted(op, K, w),
         \A i \in DOMAIN p : i # 1 => p[i].do \notin HeadDo \union {"create"},
         \A i, j \in DOMAIN p : i < j => /\ p[i].do \notin Catch
                                       /\ (p[j].do \in ShrinkEnd => p[i].do \in ShrinkDo),
         \A i \in DOMAIN p : i + 1 \in DOMAIN p /\ p[i + 1].do = "unmap" =>
                               p[i].do \in CleaningDo /\ p[i].key = p[i + 1].key
  PROVE  ListOK(op, K, p) /\ \A w \in Work(p) : Neutral(op, w)
<1>1. DOMAIN p = 1..Len(p) /\ \A i \in DOMAIN p : p[i] \in Tasks
  <2>1. DOMAIN p = 1..Len(p)
    OBVIOUS
  <2> QED BY <2>1, ElementOfSeq
<1>2. \A w \in Work(p) : Neutral(op, w) /\ Permitted(op, K, w)
  BY FromWork
<1>3. Sorted(op, p)
  <2> SUFFICES ASSUME NEW i \in DOMAIN p, NEW j \in DOMAIN p, i < j,
                      NEW v \in WorkOf(p[i]), NEW w \in WorkOf(p[j])
               PROVE  InOrder(op, v, w)
    BY DEF Sorted
  <2>1. j # 1
    BY <1>1
  <2>2. w.do = p[j].do /\ v.do = p[i].do
    BY <1>1, WorkOfTask
  <2>3. w.do \notin FirstDo
    BY <2>1, <2>2 DEF Neutral, LeaseDo, FirstDo, ShrinkEnd
  <2>4. Neutral(op, v) /\ Neutral(op, w) /\ Permitted(op, K, w)
    OBVIOUS
  <2>5. Suits(v, w)
    BY <2>2, <2>4, NeutralSuits
  <2> QED BY <2>3, <2>4, <2>5, NeutralInOrder
<1>4. Linked(p)
  <2>1. ASSUME NEW i \in DOMAIN p, i + 1 \in DOMAIN p PROVE Follows(p[i], p[i + 1])
    BY <2>1 DEF Follows
  <2> QED BY <2>1 DEF Linked
<1>5. KnownLoops(p)
  BY DEF KnownLoops
<1> QED BY <1>2, <1>3, <1>4, <1>5 DEF ListOK

LEMMA PrefixProper ==
  ASSUME NEW op, NEW K, NEW s, Proper(op, K, s),
         \A w \in Work(s) : w.do \notin FirstDo,
         NEW p, ListOK(op, K, p),
         \A v \in Work(p) : \/ Neutral(op, v) /\ \A w \in Work(s) : Suits(v, w)
                           \/ Finishes(v, s),
         p # << >> /\ s # << >> => Follows(p[Len(p)], Head(s))
  PROVE  Proper(op, K, p \o s) /\ Work(p \o s) = Work(p) \union Work(s)
<1>1. ListOK(op, K, s) /\ p \in Seq(Tasks) /\ s \in Seq(Tasks)
  BY DEF Proper, ListOK
<1>2. Fits(op, p, s)
  <2>1. ASSUME NEW v \in Work(p), NEW w \in Work(s) PROVE InOrder(op, v, w)
    <3>1. Permitted(op, K, w) /\ w.do \notin FirstDo
      BY <1>1 DEF ListOK
    <3>2. CASE Neutral(op, v) /\ Suits(v, w)
      BY <3>1, <3>2, NeutralInOrder
    <3>3. CASE Finishes(v, s)
      <4>1. Permitted(op, K, v)
        BY DEF ListOK
      <4> QED BY <3>1, <3>3, <4>1
           DEF InOrder, Finishes, Permitted, AcquireDo, LeaseDo, FetchDo, LastDo, Catch, FirstDo, ShrinkEnd
    <3> QED BY <3>2, <3>3
  <2> QED BY <2>1 DEF Fits
<1>3. ListOK(op, K, p \o s)
  BY <1>1, <1>2, ConcatOK
<1>4. Work(p \o s) = Work(p) \union Work(s)
  BY <1>1, WorkConcat
<1>5. \A v \in Work(p) : v.do \notin {"prepare", "pin", "arm"}
  BY DEF Neutral, Finishes
<1>6. Proper(op, K, p \o s)
  <2> DEFINE u == p \o s
  <2>1. \A w \in Work(u) : w.do \in {"prepare", "pin", "arm"} => w \in Work(s)
    BY <1>4, <1>5
  <2>2. Work(s) \subseteq Work(u)
    BY <1>4
  <2> HIDE DEF u
  <2>3. \A k \in Key : KeyTask("prepare", k) \in Work(u) => KeyTask("pin", k) \in Work(u)
    BY <2>1, <2>2, WorkFields DEF Proper
  <2>4. KeyTask("arm", None) \in Work(u) \/ (\E k \in Key : KeyTask("pin", k) \in Work(u)) =>
          KeyTask("rollback", None) \in Work(u)
    BY <2>1, <2>2, WorkFields DEF Proper
  <2>5. ListOK(op, K, u)
    BY <1>3 DEF u
  <2> QED BY <2>3, <2>4, <2>5 DEF Proper, u
<1> QED BY <1>4, <1>6

(* The call goes on with the tasks of p and then those of s. *)
Prepends(p, s) ==
  /\ call'.op = call.op /\ call'.plan = call.plan /\ call'.todo # << >>
  /\ Work(call'.todo) = Work(p) \union Work(s)
  /\ Head(p).do # "forEach" => Head(call'.todo) = Head(p)
  /\ Head(p).do = "forEach" => Head(call'.todo).do \in LoopDo \ {"pin", "invalidate"}

LEMMA PrefixOK ==
  ASSUME call \in CallRecord, NEW s, Proper(call.op, Touched, s),
         \A w \in Work(s) : w.do \notin FirstDo,
         NEW p, p # << >>, ListOK(call.op, Touched, p),
         \A v \in Work(p) : \/ Neutral(call.op, v) /\ \A w \in Work(s) : Suits(v, w)
                           \/ Finishes(v, s),
         s # << >> => Follows(p[Len(p)], Head(s)), Goto(p \o s)
  PROVE  CallInv' /\ Prepends(p, s)
<1> DEFINE u == p \o s
<1>1. p \in Seq(Tasks) /\ s \in Seq(Tasks)
  BY DEF Proper, ListOK
<1>2. Proper(call.op, Touched, u) /\ Work(u) = Work(p) \union Work(s)
  BY PrefixProper
<1>3. u # << >> /\ Head(u) = Head(p)
  <2>1. /\ u \in Seq(Tasks) /\ Len(u) = Len(p) + Len(s)
        /\ Len(p) \in Nat \ {0} /\ Len(s) \in Nat
        /\ u[1] = p[1]
    BY <1>1, ConcatProperties, EmptySeq
  <2> HIDE DEF u
  <2>2. Len(u) # 0 /\ Len(u) \in Nat
    BY <2>1
  <2>3. u # << >>
    BY <2>1, <2>2
  <2>4. Head(u) = u[1] /\ Head(p) = p[1]
    BY <1>1, <2>1
  <2> QED BY <2>1, <2>3, <2>4
<1>4. Goto(u)
  OBVIOUS
<1> HIDE DEF u
<1>5. CallInv' /\ Leads(u)
  BY <1>2, <1>4, GotoOK
<1> QED BY <1>2, <1>3, <1>5 DEF Leads, Prepends

LEMMA HeirSuits ==
  ASSUME NEW op, NEW K, NEW s, ListOK(op, K, s), s # << >>, Head(s).do # "forEach",
         NEW v, Heir(Head(s), v), NEW w \in Work(Tail(s))
  PROVE  Suits(v, w)
<1> DEFINE h == Head(s)
<1>1. /\ h \in Tasks /\ \A x \in WorkOf(h) : InOrder(op, x, w)
  BY TailOK
<1> HIDE DEF h
<1>2. PICK x \in WorkOf(h) : x.do = h.do /\ (h.do \in {"ensure", "map"} => x.key = h.key)
  BY <1>1, HeadWork DEF h, KeyDo, LoopDo
<1>3. InOrder(op, x, w) /\ Heir(h, v)
  BY <1>1 DEF h
<1>4. w.do # "finishLease" /\ (w.do \in ShrinkEnd => v.do \in ShrinkDo)
  BY <1>2, <1>3 DEF InOrder, Heir, ShrinkEnd
<1>5. v.do \in Catch => w.do \notin CopyingDo
  BY <1>2, <1>3 DEF InOrder, Heir
<1>6. v.do \in {"ensure", "map", "h2d", "retireH2d"} => w # KeyTask("prepare", v.key)
  BY <1>2, <1>3 DEF InOrder, Heir
<1> QED BY <1>4, <1>5, <1>6 DEF Suits

LEMMA PushOK ==
  ASSUME call \in CallRecord, CallInv, call.todo # << >>, Head(call.todo).do # "forEach",
         NEW p, p # << >>, ListOK(call.op, Touched, p),
         \A v \in Work(p) : \/ Neutral(call.op, v) /\ Heir(Head(call.todo), v)
                           \/ Finishes(v, Tail(call.todo)),
         Tail(call.todo) # << >> => Follows(p[Len(p)], Head(Tail(call.todo))), Push(p)
  PROVE  CallInv' /\ Prepends(p, Tail(call.todo))
<1> DEFINE s == Tail(call.todo)
<1>1. Proper(call.op, Touched, s) /\ \A w \in Work(s) : w.do \notin FirstDo
  BY TailProper DEF CallInv
<1>5. ASSUME NEW v \in Work(p), Heir(Head(call.todo), v), NEW w \in Work(s) PROVE Suits(v, w)
  BY <1>5, HeirSuits DEF CallInv, Proper
<1>2. Goto(p \o s)
  BY DEF Push
<1>3. /\ s # << >> => Follows(p[Len(p)], Head(s))
      /\ \A v \in Work(p) : \/ Neutral(call.op, v) /\ \A w \in Work(s) : Suits(v, w)
                           \/ Finishes(v, s)
  BY <1>5
<1> HIDE DEF s
<1>4. CallInv' /\ Prepends(p, s)
  BY <1>1, <1>2, <1>3, PrefixOK
<1> QED BY <1>4 DEF s

-----------------------------------------------------------------------------
(* The first task of a call, and the short lists it may put in its place.  *)

LEMMA AtTask ==
  ASSUME call \in CallRecord, CallInv, NEW do, At(do), do # "forEach"
  PROVE  /\ call.todo # << >> /\ Head(call.todo).do = do /\ Head(call.todo) \in Tasks
         /\ do \in KeyDo \union {"d2h", "map"} =>
              LET k == Head(call.todo).key
              IN  k \in Key /\ Pending(do, k) /\ Permitted(call.op, Touched, KeyTask(do, k))
         /\ do \notin KeyDo \union {"d2h", "map"} =>
              Awaits(do) /\ Permitted(call.op, Touched, KeyTask(do, None))
<1> DEFINE h == Head(call.todo)
<1>1. call.todo # << >> /\ h.do = do
  BY DEF At
<1>2. ListOK(call.op, Touched, call.todo)
  BY DEF CallInv, Proper
<1>3. h \in Tasks /\ Work(call.todo) = WorkOf(h) \union Work(Tail(call.todo))
  BY <1>1, <1>2, TailOK
<1>4. \A w \in WorkOf(h) : w \in Work(call.todo) /\ Permitted(call.op, Touched, w)
  BY <1>2, <1>3 DEF ListOK
<1> HIDE DEF h
<1>5. CASE do \in KeyDo \union {"d2h", "map"}
  BY <1>1, <1>3, <1>4, <1>5, WorkOfTask DEF Pending, h
<1>6. CASE do \notin KeyDo \union {"d2h", "map"}
  BY <1>1, <1>3, <1>4, <1>6, WorkOfTask DEF Awaits, h
<1> QED BY <1>1, <1>3, <1>5, <1>6 DEF h

(* A call of this kind may put t in front of its list. *)
Fine(op, K, t) ==
  /\ t \in Tasks /\ t.do \notin {"forEach", "dropDirty", "pin"}
  /\ \A w \in WorkOf(t) : Neutral(op, w) /\ Permitted(op, K, w)

LEMMA FineTasks ==
  ASSUME NEW op, NEW K
  PROVE  /\ \A do \in {"unmap", "writeback", "writebackIfDirty", "d2h"}, k \in Key :
              Fine(op, K, KeyTask(do, k))
         /\ op \in {"prefetch", "acquire"} =>
              /\ \A do \in {"h2d", "retireH2d"}, k \in K \intersect Key : Fine(op, K, KeyTask(do, k))
              /\ \A k \in K \intersect Key, f \in Frame : Fine(op, K, MapTask(k, f))
              /\ \A do \in {"fail", "forceRefresh"} : Fine(op, K, Task(do))
              /\ \A do \in {"create", "createRetry", "dropFrame", "setCapacity", "setCapacityFor"},
                    f \in Nat : Fine(op, K, FrameTask(do, f))
         /\ op = "close" => \A f \in Nat : Fine(op, K, FrameTask("closeCheck", f))
<1>1. ASSUME NEW t \in Tasks, NEW do, NEW k, WorkOf(t) = {KeyTask(do, k)}, t.do = do,
             do \notin LastDo \union LeaseDo \union
                        {"abandon", "arm", "prepare", "pin", "put", "get", "forEach", "dropDirty",
                         "invalidate", "unmapIfClean"},
             do \in Catch => op # "acquire", Permitted(op, K, KeyTask(do, k))
      PROVE  Fine(op, K, t)
  BY <1>1, WorkFields DEF Fine, Neutral, DiscardDo
<1>2. ASSUME NEW do \in {"unmap", "writeback", "writebackIfDirty", "d2h"}, NEW k \in Key
      PROVE  Fine(op, K, KeyTask(do, k))
  <2>1. KeyTask(do, k) \in Tasks /\ WorkOf(KeyTask(do, k)) = {KeyTask(do, k)}
    BY TaskTypes, WorkFields DEF KeyDo, LoopDo, Tasks
  <2>2. Permitted(op, K, KeyTask(do, k))
    BY WorkFields DEF Permitted, AcquireDo, LeaseDo, CloseDo, FetchDo, DiscardDo, OfPlan
  <2> QED BY <1>1, <2>1, <2>2, WorkFields DEF LeaseDo, LastDo, Catch
<1>3. ASSUME op \in {"prefetch", "acquire"}, NEW do \in {"h2d", "retireH2d"}, NEW k \in K \intersect Key
      PROVE  Fine(op, K, KeyTask(do, k))
  <2>1. KeyTask(do, k) \in Tasks /\ WorkOf(KeyTask(do, k)) = {KeyTask(do, k)}
    BY TaskTypes, WorkFields DEF KeyDo, LoopDo, Tasks
  <2>2. Permitted(op, K, KeyTask(do, k))
    BY <1>3, WorkFields DEF Permitted, AcquireDo, LeaseDo, CloseDo, FetchDo, DiscardDo, OfPlan
  <2> QED BY <1>1, <2>1, <2>2, WorkFields DEF LeaseDo, LastDo, Catch
<1>4. ASSUME op \in {"prefetch", "acquire"}, NEW k \in K \intersect Key, NEW f \in Frame
      PROVE  Fine(op, K, MapTask(k, f))
  <2>1. MapTask(k, f) \in Tasks /\ WorkOf(MapTask(k, f)) = {KeyTask("map", k)} /\ MapTask(k, f).do = "map"
    BY TaskTypes, WorkFields DEF Tasks, MapTask
  <2>2. Permitted(op, K, KeyTask("map", k))
    BY <1>4, WorkFields DEF Permitted, AcquireDo, LeaseDo, CloseDo, FetchDo, DiscardDo, OfPlan
  <2> QED BY <1>1, <2>1, <2>2 DEF LeaseDo, LastDo, Catch
<1>5. ASSUME op \in {"prefetch", "acquire"}, NEW do \in {"fail", "forceRefresh"}
      PROVE  Fine(op, K, Task(do))
  <2>1. Task(do) \in Tasks /\ WorkOf(Task(do)) = {KeyTask(do, None)} /\ Task(do).do = do
    BY TaskTypes, WorkFields DEF Tasks, PlainDo, Task
  <2>2. Permitted(op, K, KeyTask(do, None))
    BY <1>5, WorkFields DEF Permitted, AcquireDo, LeaseDo, CloseDo, FetchDo, DiscardDo, OfPlan
  <2> QED BY <1>1, <2>1, <2>2 DEF LeaseDo, LastDo, Catch
<1>6. ASSUME op \in {"prefetch", "acquire"}, NEW f \in Nat,
             NEW do \in {"create", "createRetry", "dropFrame", "setCapacity", "setCapacityFor"}
      PROVE  Fine(op, K, FrameTask(do, f))
  <2>1. FrameTask(do, f) \in Tasks /\ WorkOf(FrameTask(do, f)) = {KeyTask(do, None)} /\ FrameTask(do, f).do = do
    BY TaskTypes, WorkFields DEF Tasks, FrameDo, FrameTask
  <2>2. Permitted(op, K, KeyTask(do, None))
    BY <1>6, WorkFields DEF Permitted, AcquireDo, LeaseDo, CloseDo, FetchDo, DiscardDo, OfPlan
  <2> QED BY <1>1, <2>1, <2>2 DEF LeaseDo, LastDo, Catch
<1>7. ASSUME op = "close", NEW f \in Nat
      PROVE  Fine(op, K, FrameTask("closeCheck", f))
  <2> DEFINE do == "closeCheck"
  <2>1. FrameTask(do, f) \in Tasks /\ WorkOf(FrameTask(do, f)) = {KeyTask(do, None)} /\ FrameTask(do, f).do = do
    BY TaskTypes, WorkFields DEF Tasks, FrameDo, FrameTask
  <2>2. Permitted(op, K, KeyTask(do, None))
    BY <1>7, WorkFields DEF Permitted, AcquireDo, LeaseDo, CloseDo, FetchDo, DiscardDo, OfPlan
  <2> QED BY <1>1, <1>7, <2>1, <2>2 DEF LeaseDo, LastDo
<1> QED BY <1>2, <1>3, <1>4, <1>5, <1>6, <1>7

LEMMA FetchCall ==
  ASSUME call \in CallRecord, CallInv, NEW do \in FetchDo, At(do)
  PROVE  /\ call.op \in {"prefetch", "acquire"}
         /\ do \in OfPlan => Head(call.todo).key \in Touched \intersect Key
<1>1. do # "forEach"
  BY DEF FetchDo
<1>2. CASE do \in KeyDo \union {"d2h", "map"}
  <2>1. PICK k \in Key : k = Head(call.todo).key /\ Permitted(call.op, Touched, KeyTask(do, k))
    BY <1>1, <1>2, AtTask
  <2> QED BY <2>1, WorkFields DEF Permitted
<1>3. CASE do \notin KeyDo \union {"d2h", "map"}
  <2>1. Permitted(call.op, Touched, KeyTask(do, None))
    BY <1>1, <1>3, AtTask
  <2> QED BY <1>3, <2>1, WorkFields DEF Permitted, OfPlan, KeyDo, LoopDo
<1> QED BY <1>2, <1>3

(* What may come before the task that was second. *)
LEMMA FollowsOn ==
  ASSUME CallInv, call.todo # << >>, Tail(call.todo) # << >>, NEW t,
         \/ t.do = "fail"
         \/ Head(call.todo).do \notin {"fail", "ensure", "map", "h2d"}
         \/ /\ Head(call.todo).do \in {"ensure", "map", "h2d"} /\ t.do \in {"ensure", "map", "h2d"}
            /\ t.key = Head(call.todo).key,
         Head(call.todo).do \in CleaningDo => t.do \in CleaningDo /\ t.key = Head(call.todo).key
  PROVE  Follows(t, Head(Tail(call.todo)))
<1>1. ListOK(call.op, Touched, call.todo)
  BY DEF CallInv, Proper
<1>2. Follows(Head(call.todo), Head(Tail(call.todo)))
  BY <1>1, TailOK
<1> DEFINE h == Head(call.todo)
           u == Head(Tail(call.todo))
<1>3. Follows(h, u)
  BY <1>2
<1>4. /\ \/ t.do = "fail"
         \/ h.do \notin {"fail", "ensure", "map", "h2d"}
         \/ /\ h.do \in {"ensure", "map", "h2d"} /\ t.do \in {"ensure", "map", "h2d"}
            /\ t.key = h.key
      /\ h.do \in CleaningDo => t.do \in CleaningDo /\ t.key = h.key
  OBVIOUS
<1> HIDE DEF h, u
<1>5. Follows(t, u)
  BY <1>3, <1>4 DEF Follows, MakesResident
<1> QED BY <1>5 DEF u

LEMMA HeadInWork ==
  ASSUME NEW op, NEW K, NEW p, p # << >>, ListOK(op, K, p), Head(p).do # "forEach"
  PROVE  \E v \in Work(p) : v.do = Head(p).do
<1>1. Head(p) \in Tasks /\ Work(p) = WorkOf(Head(p)) \union Work(Tail(p))
  BY TailOK
<1> QED BY <1>1, HeadWork

(* The call takes up some more work first, all of it neutral. *)
DetourDo == {"writeback", "writebackIfDirty", "unmap", "map", "create", "createRetry",
             "forceRefresh", "dropFrame", "setCapacity", "setCapacityFor", "closeCheck"}
Detour ==
  /\ call'.op = call.op /\ call'.plan = call.plan /\ call'.todo # << >>
  /\ Work(Tail(call.todo)) \subseteq Work(call'.todo)
  /\ \A w \in Work(call'.todo) :
       w \in Work(call.todo) \/ (w.do \in DetourDo /\ (w.do \in ShrinkEnd => AtRefresh))
  /\ Head(call'.todo).do \notin HeadDo \union {"pin"}
  /\ Head(call'.todo).do = "create" => At("ensure")

LEMMA DetourOK ==
  ASSUME call \in CallRecord, CallInv, call.todo # << >>, Head(call.todo).do # "forEach",
         NEW p, p # << >>, ListOK(call.op, Touched, p), \A v \in Work(p) : Neutral(call.op, v),
         \A v \in Work(p) : v.do \in DetourDo /\ Heir(Head(call.todo), v), Head(p).do \in DetourDo,
         Tail(call.todo) # << >> => Follows(p[Len(p)], Head(Tail(call.todo))), Push(p)
  PROVE  CallInv' /\ Detour
<1>1. CallInv' /\ Prepends(p, Tail(call.todo))
  BY PushOK
<1>2. Work(call.todo) = WorkOf(Head(call.todo)) \union Work(Tail(call.todo))
  BY TailOK DEF CallInv, Proper
<1>3. Head(p).do # "forEach" /\ Head(p).do \notin HeadDo \union {"pin"}
  BY DEF DetourDo, HeadDo
<1>4. Head(call'.todo) = Head(p)
  BY <1>1, <1>3 DEF Prepends
<1>5. \A v \in Work(p) : /\ v.do \in DetourDo /\ (v.do \in ShrinkEnd => AtRefresh)
                         /\ v.do = "create" => At("ensure")
  BY DEF Heir, AtRefresh, At
<1>6. \E v \in Work(p) : v.do = Head(p).do
  BY <1>3, HeadInWork
<1>7. Head(call'.todo).do = "create" => At("ensure")
  BY <1>4, <1>5, <1>6
<1>8. \A v \in Work(p) : v.do \in DetourDo /\ (v.do \in ShrinkEnd => AtRefresh)
  BY <1>5
<1> QED BY <1>1, <1>2, <1>3, <1>4, <1>7, <1>8 DEF Prepends, Detour

(* Before the first task is executed. *)
LEMMA BeforeOK ==
  ASSUME call \in CallRecord, CallInv, call.todo # << >>,
         Head(call.todo).do \in {"prepare", "dropFrame"},
         NEW p, p # << >>, ListOK(call.op, Touched, p), \A v \in Work(p) : Neutral(call.op, v),
         \A v \in Work(p) : v.do \in DetourDo /\ Heir(Head(call.todo), v), Head(p).do \in DetourDo,
         Goto(p \o call.todo)
  PROVE  CallInv' /\ Detour
<1> DEFINE s == call.todo
<1>1. /\ Head(s) \in Tasks /\ Work(s) = WorkOf(Head(s)) \union Work(Tail(s))
      /\ \A w \in Work(Tail(s)) : w.do \notin FirstDo
      /\ \A v \in Work(p), w \in Work(Tail(s)) : Suits(v, w)
  <2>1. ListOK(call.op, Touched, s) /\ Proper(call.op, Touched, s) /\ s # << >>
    BY DEF CallInv, Proper
  <2>5. \A v \in Work(p) : Heir(Head(s), v)
    OBVIOUS
  <2>2. Head(s) \in Tasks /\ Work(s) = WorkOf(Head(s)) \union Work(Tail(s))
    BY <2>1, TailOK
  <2>3. Head(s).do # "forEach"
    BY DEF s
  <2>4. \A w \in Work(Tail(s)) : w.do \notin FirstDo
    BY <2>1, <2>3, TailProper
  <2>6. \A v \in Work(p), w \in Work(Tail(s)) : Suits(v, w)
    BY <2>1, <2>3, <2>5, HeirSuits
  <2> QED BY <2>2, <2>4, <2>6
<1>8. Head(s).do \in {"prepare", "dropFrame"} /\ \A w \in WorkOf(Head(s)) : w.do = Head(s).do
  BY <1>1, WorkOfTask
<1>2. \A w \in Work(s) : w.do \notin FirstDo
  BY <1>1, <1>8 DEF FirstDo, HeadDo
<1>9. \A v \in Work(p) : Neutral(call.op, v) /\ \A w \in Work(s) : Suits(v, w)
  <2> SUFFICES ASSUME NEW v \in Work(p), NEW w \in WorkOf(Head(s)) PROVE Suits(v, w)
    BY <1>1
  <2>1. v.do \notin Catch \union {"ensure", "map", "h2d", "retireH2d"}
    BY <1>8 DEF Heir, Catch
  <2>2. w.do \in ShrinkEnd => v.do \in ShrinkDo
    BY <1>8 DEF Heir, ShrinkEnd, ShrinkDo
  <2> QED BY <1>8, <2>1, <2>2 DEF Suits
<1>3. Proper(call.op, Touched, s)
  BY DEF CallInv
<1>4. Follows(p[Len(p)], Head(s)) /\ Goto(p \o s)
  BY <1>8 DEF Follows
<1> HIDE DEF s
<1>5. CallInv' /\ Prepends(p, s)
  BY <1>2, <1>3, <1>4, <1>9, PrefixOK
<1>6. Head(p).do # "forEach" /\ Head(p).do \notin HeadDo \union {"pin"}
  BY DEF DetourDo, HeadDo
<1>7. Head(call'.todo) = Head(p)
  BY <1>5, <1>6 DEF Prepends
<1>10. \A v \in Work(p) : /\ v.do \in DetourDo /\ (v.do \in ShrinkEnd => AtRefresh)
                          /\ v.do = "create" => At("ensure")
  BY DEF Heir, AtRefresh, At, s
<1>11. \E v \in Work(p) : v.do = Head(p).do
  BY <1>6, HeadInWork
<1>12. Head(call'.todo).do = "create" => At("ensure")
  BY <1>7, <1>10, <1>11
<1>13. \A v \in Work(p) : v.do \in DetourDo /\ (v.do \in ShrinkEnd => AtRefresh)
  BY <1>10
<1> QED BY <1>1, <1>5, <1>6, <1>7, <1>12, <1>13 DEF Prepends, Detour, s

-----------------------------------------------------------------------------
(* The steps that put tasks in front of the list. *)

LEMMA OneTask ==
  ASSUME NEW op, NEW K, NEW a, Fine(op, K, a)
  PROVE  /\ ListOK(op, K, <<a>>) /\ \A w \in Work(<<a>>) : Neutral(op, w)
         /\ <<a>> # << >> /\ Head(<<a>>) = a /\ <<a>>[Len(<<a>>)] = a
<1> DEFINE p == <<a>>
<1>1. p \in Seq(Tasks) /\ DOMAIN p = {1} /\ p[1] = a /\ Len(p) = 1
  BY DEF Fine
<1>2. p # << >> /\ Head(p) = a
  OBVIOUS
<1> HIDE DEF p
<1>3. /\ \A i \in DOMAIN p : p[i].do \notin {"forEach", "dropDirty", "pin"}
      /\ \A i \in DOMAIN p : \A w \in WorkOf(p[i]) : Neutral(op, w) /\ Permitted(op, K, w)
      /\ \A i \in DOMAIN p : i # 1 => p[i].do \notin HeadDo \union {"create"}
  BY <1>1 DEF Fine
<1>4. \A i, j \in DOMAIN p : i < j => /\ p[i].do \notin Catch
                                     /\ (p[j].do \in ShrinkEnd => p[i].do \in ShrinkDo)
  BY <1>1
<1>5. \A i \in DOMAIN p : i + 1 \in DOMAIN p /\ p[i + 1].do = "unmap" =>
                             p[i].do \in CleaningDo /\ p[i].key = p[i + 1].key
  BY <1>1
<1>6. ListOK(op, K, p) /\ \A w \in Work(p) : Neutral(op, w)
  BY <1>1, <1>3, <1>4, <1>5, NeutralList
<1> QED BY <1>1, <1>2, <1>6 DEF p

LEMMA TwoTasks ==
  ASSUME NEW op, NEW K, NEW a, Fine(op, K, a), NEW b, Fine(op, K, b), b.do \notin HeadDo \union {"create"},
         a.do \notin Catch, b.do \notin ShrinkEnd,
         b.do = "unmap" => a.do \in CleaningDo /\ a.key = b.key
  PROVE  /\ ListOK(op, K, <<a, b>>) /\ \A w \in Work(<<a, b>>) : Neutral(op, w)
         /\ <<a, b>> # << >> /\ Head(<<a, b>>) = a /\ <<a, b>>[Len(<<a, b>>)] = b
<1> DEFINE p == <<a, b>>
<1>1. p \in Seq(Tasks) /\ DOMAIN p = {1, 2} /\ p[1] = a /\ p[2] = b /\ Len(p) = 2
  BY DEF Fine
<1>2. p # << >> /\ Head(p) = a
  OBVIOUS
<1> HIDE DEF p
<1>3. /\ \A i \in DOMAIN p : p[i].do \notin {"forEach", "dropDirty", "pin"}
      /\ \A i \in DOMAIN p : \A w \in WorkOf(p[i]) : Neutral(op, w) /\ Permitted(op, K, w)
      /\ \A i \in DOMAIN p : i # 1 => p[i].do \notin HeadDo \union {"create"}
  BY <1>1 DEF Fine
<1>4. \A i, j \in DOMAIN p : i < j => /\ p[i].do \notin Catch
                                     /\ (p[j].do \in ShrinkEnd => p[i].do \in ShrinkDo)
  BY <1>1
<1>5. \A i \in DOMAIN p : i + 1 \in DOMAIN p /\ p[i + 1].do = "unmap" =>
                             p[i].do \in CleaningDo /\ p[i].key = p[i + 1].key
  BY <1>1
<1>6. ListOK(op, K, p) /\ \A w \in Work(p) : Neutral(op, w)
  BY <1>1, <1>3, <1>4, <1>5, NeutralList
<1> QED BY <1>1, <1>2, <1>6 DEF p

LEMMA ThreeTasks ==
  ASSUME NEW op, NEW K, NEW a, Fine(op, K, a), NEW b, Fine(op, K, b), NEW c, Fine(op, K, c),
         b.do \notin HeadDo \union {"create"}, c.do \notin HeadDo \union {"create"}, a.do \notin Catch, b.do \notin Catch,
         b.do \notin ShrinkEnd, c.do \notin ShrinkEnd \union {"unmap"},
         b.do = "unmap" => a.do \in CleaningDo /\ a.key = b.key
  PROVE  /\ ListOK(op, K, <<a, b, c>>) /\ \A w \in Work(<<a, b, c>>) : Neutral(op, w)
         /\ <<a, b, c>> # << >> /\ Head(<<a, b, c>>) = a /\ <<a, b, c>>[Len(<<a, b, c>>)] = c
<1> DEFINE p == <<a, b, c>>
<1>1. p \in Seq(Tasks) /\ DOMAIN p = {1, 2, 3} /\ p[1] = a /\ p[2] = b /\ p[3] = c /\ Len(p) = 3
  BY DEF Fine
<1>2. p # << >> /\ Head(p) = a
  OBVIOUS
<1> HIDE DEF p
<1>3. /\ \A i \in DOMAIN p : p[i].do \notin {"forEach", "dropDirty", "pin"}
      /\ \A i \in DOMAIN p : \A w \in WorkOf(p[i]) : Neutral(op, w) /\ Permitted(op, K, w)
      /\ \A i \in DOMAIN p : i # 1 => p[i].do \notin HeadDo \union {"create"}
  BY <1>1 DEF Fine
<1>4. \A i, j \in DOMAIN p : i < j => /\ p[i].do \notin Catch
                                     /\ (p[j].do \in ShrinkEnd => p[i].do \in ShrinkDo)
  BY <1>1
<1>5. \A i \in DOMAIN p : i + 1 \in DOMAIN p /\ p[i + 1].do = "unmap" =>
                             p[i].do \in CleaningDo /\ p[i].key = p[i + 1].key
  BY <1>1
<1>6. ListOK(op, K, p) /\ \A w \in Work(p) : Neutral(op, w)
  BY <1>1, <1>3, <1>4, <1>5, NeutralList
<1> QED BY <1>1, <1>2, <1>6 DEF p

LEMMA PutTogether ==
  \A a, b, c : << >> \o <<b, c>> = <<b, c>> /\ <<a>> \o <<b, c>> = <<a, b, c>>
<1> TAKE a, b, c
<1>1. <<b, c>> \in Seq({a, b, c}) /\ <<a>> \in Seq({a, b, c})
  OBVIOUS
<1>2. << >> \o <<b, c>> = <<b, c>>
  BY <1>1, ConcatEmptySeq
<1>3. <<a>> \o <<b, c>> = <<a, b, c>>
  <2> DEFINE s == <<a>>
             t == <<b, c>>
             u == <<a, b, c>>
  <2>1. /\ s \in Seq({a, b, c}) /\ Len(s) = 1 /\ s[1] = a
        /\ t \in Seq({a, b, c}) /\ Len(t) = 2 /\ t[1] = b /\ t[2] = c
        /\ u \in Seq({a, b, c}) /\ Len(u) = 3 /\ u[1] = a /\ u[2] = b /\ u[3] = c
    OBVIOUS
  <2> HIDE DEF s, t, u
  <2>2. /\ s \o t \in Seq({a, b, c}) /\ Len(s \o t) = 3
        /\ \A i \in 1..3 : (s \o t)[i] = IF i <= 1 THEN s[i] ELSE t[i - 1]
    <3>1. /\ s \o t \in Seq({a, b, c}) /\ Len(s \o t) = Len(s) + Len(t)
          /\ \A i \in 1..Len(s) + Len(t) : (s \o t)[i] = IF i <= Len(s) THEN s[i] ELSE t[i - Len(s)]
      BY <2>1, ConcatProperties
    <3> QED BY <2>1, <3>1
  <2>3. \A i \in 1..3 : (s \o t)[i] = u[i]
    BY <2>1, <2>2
  <2>4. s \o t = u
    BY <2>1, <2>2, <2>3, SeqEqual
  <2> QED BY <2>4 DEF s, t, u
<1> QED BY <1>2, <1>3

LEMMA WorkOfLists ==
  /\ \A a : Work(<<a>>) = WorkOf(a)
  /\ \A a, b : Work(<<a, b>>) = WorkOf(a) \union WorkOf(b)
  /\ \A a, b, c : Work(<<a, b, c>>) = WorkOf(a) \union WorkOf(b) \union WorkOf(c)
<1>1. ASSUME NEW a PROVE Work(<<a>>) = WorkOf(a)
  <2> DEFINE p == <<a>>
  <2>1. DOMAIN p = {1} /\ p[1] = a
    OBVIOUS
  <2> HIDE DEF p
  <2>2. Work(p) = WorkOf(a)
    BY <2>1 DEF Work
  <2> QED BY <2>2 DEF p
<1>2. ASSUME NEW a, NEW b PROVE Work(<<a, b>>) = WorkOf(a) \union WorkOf(b)
  <2> DEFINE p == <<a, b>>
  <2>1. DOMAIN p = {1, 2} /\ p[1] = a /\ p[2] = b
    OBVIOUS
  <2> HIDE DEF p
  <2>2. Work(p) = WorkOf(a) \union WorkOf(b)
    BY <2>1 DEF Work
  <2> QED BY <2>2 DEF p
<1>3. ASSUME NEW a, NEW b, NEW c PROVE Work(<<a, b, c>>) = WorkOf(a) \union WorkOf(b) \union WorkOf(c)
  <2> DEFINE p == <<a, b, c>>
  <2>1. DOMAIN p = {1, 2, 3} /\ p[1] = a /\ p[2] = b /\ p[3] = c
    OBVIOUS
  <2> HIDE DEF p
  <2>2. Work(p) = WorkOf(a) \union WorkOf(b) \union WorkOf(c)
    BY <2>1 DEF Work
  <2> QED BY <2>2 DEF p
<1> QED BY <1>1, <1>2, <1>3

LEMMA DetourWork ==
  /\ \A do \in {"writeback", "writebackIfDirty", "unmap"}, k \in Key :
       /\ KeyTask(do, k).do \in DetourDo
       /\ \A w \in WorkOf(KeyTask(do, k)) : w.do \in DetourDo
  /\ \A k \in Key : \A f : /\ MapTask(k, f).do \in DetourDo
                           /\ \A w \in WorkOf(MapTask(k, f)) : w.do \in DetourDo
  /\ \A do \in {"create", "createRetry", "dropFrame", "setCapacity", "setCapacityFor", "closeCheck"} : \A f :
       /\ FrameTask(do, f).do \in DetourDo
       /\ \A w \in WorkOf(FrameTask(do, f)) : w.do \in DetourDo
  /\ Task("forceRefresh").do \in DetourDo
  /\ \A w \in WorkOf(Task("forceRefresh")) : w.do \in DetourDo
BY WorkFields DEF DetourDo, KeyDo, LoopDo, FrameDo, PlainDo, KeyTask, MapTask, FrameTask, Task

LEMMA HeirWork ==
  ASSUME NEW h, h.do # "unmapIfClean"
  PROVE  /\ \A do \in {"writebackIfDirty", "unmap", "d2h"}, k \in Key :
              \A w \in WorkOf(KeyTask(do, k)) : Heir(h, w)
         /\ h.do \notin ShrinkDo =>
              /\ \A k \in Key : \A w \in WorkOf(KeyTask("writeback", k)) : Heir(h, w)
              /\ \A f : \A w \in WorkOf(FrameTask("createRetry", f)) : Heir(h, w)
              /\ h.do = "ensure" => \A f : \A w \in WorkOf(FrameTask("create", f)) : Heir(h, w)
              /\ h.do \in {"refresh", "forceRefresh"} => \A do \in ShrinkEnd : \A f :
                   \A w \in WorkOf(FrameTask(do, f)) : Heir(h, w)
              /\ \A do \in {"fail", "forceRefresh"} : \A w \in WorkOf(Task(do)) : Heir(h, w)
              /\ h.do = "closeFrame" => \A f : \A w \in WorkOf(FrameTask("closeCheck", f)) : Heir(h, w)
              /\ \A k \in Key : h.do \in {"ensure", "map"} /\ h.key = k =>
                   /\ \A do \in {"h2d", "retireH2d"} : \A w \in WorkOf(KeyTask(do, k)) : Heir(h, w)
                   /\ \A f : \A w \in WorkOf(MapTask(k, f)) : Heir(h, w)
<1>1. \A do \in {"writebackIfDirty", "unmap", "d2h"}, k \in Key :
        \A w \in WorkOf(KeyTask(do, k)) : Heir(h, w)
  BY WorkFields DEF Heir, KeyDo, LoopDo, Catch, ShrinkDo, FirstDo, ShrinkEnd
<1>2. ASSUME h.do \notin ShrinkDo
      PROVE  /\ \A k \in Key : \A w \in WorkOf(KeyTask("writeback", k)) : Heir(h, w)
             /\ \A f : \A w \in WorkOf(FrameTask("createRetry", f)) : Heir(h, w)
             /\ h.do = "ensure" => \A f : \A w \in WorkOf(FrameTask("create", f)) : Heir(h, w)
             /\ h.do \in {"refresh", "forceRefresh"} => \A do \in ShrinkEnd : \A f :
                  \A w \in WorkOf(FrameTask(do, f)) : Heir(h, w)
             /\ \A do \in {"fail", "forceRefresh"} : \A w \in WorkOf(Task(do)) : Heir(h, w)
  BY <1>2, WorkFields DEF Heir, KeyDo, LoopDo, Catch, FrameDo, PlainDo, FirstDo, ShrinkEnd
<1>3. ASSUME h.do \notin ShrinkDo, h.do = "closeFrame", NEW f, NEW w \in WorkOf(FrameTask("closeCheck", f))
      PROVE  Heir(h, w)
  BY <1>3, WorkFields DEF Heir, Catch, FrameDo, FirstDo, ShrinkEnd
<1>4. ASSUME NEW k \in Key, h.do \in {"ensure", "map"}, h.key = k
      PROVE  /\ \A do \in {"h2d", "retireH2d"} : \A w \in WorkOf(KeyTask(do, k)) : Heir(h, w)
             /\ \A f : \A w \in WorkOf(MapTask(k, f)) : Heir(h, w)
  BY <1>4, WorkFields DEF Heir, KeyDo, LoopDo, Catch, ShrinkDo, FirstDo, ShrinkEnd
<1> QED BY <1>1, <1>2, <1>3, <1>4

LEMMA EnsureMissCall ==
  ASSUME TypeInv, CallInv, NEW k \in Key, EnsureMiss(k)
  PROVE  CallInv' /\ (Detour \/ Fails)
<1>1. call \in CallRecord /\ At("ensure") /\ Head(call.todo).key = k
  BY DEF TypeInv, CallOK, EnsureMiss, AtKey
<1>2. /\ call.todo # << >> /\ Head(call.todo).do = "ensure" /\ Head(call.todo).do \notin CleaningDo
      /\ call.op \in {"prefetch", "acquire"} /\ k \in Touched \intersect Key
  BY <1>1, FetchCall DEF At, FetchDo, OfPlan, CleaningDo
<1> DEFINE h == Head(call.todo)
<1>0. /\ \A x \in Key : \A w \in WorkOf(KeyTask("writeback", x)) \union WorkOf(KeyTask("unmap", x)) : Heir(h, w)
      /\ \A f : \A w \in WorkOf(FrameTask("create", f)) \union WorkOf(MapTask(k, f)) : Heir(h, w)
  <2>1. h.do = "ensure" /\ h.key = k /\ h.do # "unmapIfClean" /\ h.do \notin ShrinkDo
    BY <1>1, <1>2 DEF ShrinkDo
  <2> HIDE DEF h
  <2> QED BY <2>1, HeirWork
<1>3. ASSUME NEW f \in Frame
      PROVE  /\ Fine(call.op, Touched, MapTask(k, f)) /\ MapTask(k, f).do = "map"
             /\ Fine(call.op, Touched, FrameTask("create", f)) /\ FrameTask("create", f).do = "create"
             /\ Tail(call.todo) # << >> => Follows(MapTask(k, f), Head(Tail(call.todo)))
  <2>1. MapTask(k, f).do = "map" /\ MapTask(k, f).key = k /\ FrameTask("create", f).do = "create"
    BY DEF MapTask, FrameTask
  <2>2. Tail(call.todo) # << >> => Follows(MapTask(k, f), Head(Tail(call.todo)))
    BY <1>1, <1>2, <2>1, FollowsOn
  <2>3. f \in Nat
    BY FrameTypes
  <2> QED BY <1>2, <2>1, <2>2, <2>3, FineTasks
<1>4. CASE Reusable # {}
  <2> DEFINE f == Least(Reusable)
             p == <<MapTask(k, f)>>
  <2>1. f \in Frame /\ Push(p)
    <3>1. Reusable \in SUBSET Nat /\ Reusable \subseteq Frame
      BY FrameTypes DEF Reusable, Active
    <3>2. f \in Reusable
      BY <1>4, <3>1, LeastElement
    <3> QED BY <1>4, <3>1, <3>2 DEF EnsureMiss
  <2> DEFINE t == MapTask(k, f)
  <2>2. Fine(call.op, Touched, t) /\ t.do = "map"
    BY <1>3, <2>1
  <2>3. t.do \notin HeadDo
    BY <2>2 DEF HeadDo
  <2>4. /\ ListOK(call.op, Touched, <<t>>) /\ \A w \in Work(<<t>>) : Neutral(call.op, w)
        /\ <<t>> # << >> /\ Head(<<t>>) = t /\ <<t>>[Len(<<t>>)] = t
    <3> HIDE DEF t
    <3> QED BY <2>2, OneTask
  <2>5. \A w \in Work(<<t>>) : w.do \in DetourDo /\ Heir(h, w)
    BY <1>0, DetourWork, WorkOfLists
  <2>6. t.do \in DetourDo
    BY DetourWork
  <2> QED BY <1>1, <1>2, <1>3, <2>1, <2>4, <2>5, <2>6, DetourOK
<1>5. CASE Reusable = {} /\ Creatable # {}
  <2> DEFINE f == Least(Creatable)
             a == FrameTask("create", f)
             t == MapTask(k, f)
             p == <<a, t>>
  <2>1. f \in Frame /\ Push(p)
    <3>1. Creatable \in SUBSET Nat /\ Creatable \subseteq Frame
      BY FrameTypes DEF Creatable, Active
    <3>2. f \in Creatable
      BY <1>5, <3>1, LeastElement
    <3> QED BY <1>5, <3>1, <3>2 DEF EnsureMiss
  <2>2. Fine(call.op, Touched, t) /\ t.do = "map" /\ Fine(call.op, Touched, a) /\ a.do = "create"
    BY <1>3, <2>1
  <2>3. /\ t.do \notin HeadDo /\ a.do \notin HeadDo \union Catch
        /\ t.do \notin ShrinkEnd \union {"unmap"}
    BY <2>2 DEF HeadDo, Catch, ShrinkEnd
  <2>4. /\ ListOK(call.op, Touched, p) /\ \A w \in Work(p) : Neutral(call.op, w)
        /\ p # << >> /\ Head(p) = a /\ p[Len(p)] = t
    <3> HIDE DEF a, t
    <3> QED BY <2>2, <2>3, TwoTasks
  <2>5. \A w \in Work(p) : w.do \in DetourDo /\ Heir(h, w)
    BY <1>0, <2>1, DetourWork, WorkOfLists
  <2>6. a.do \in DetourDo
    BY DetourWork
  <2> QED BY <1>1, <1>2, <1>3, <2>1, <2>4, <2>5, <2>6, DetourOK
<1>6. CASE Reusable = {} /\ Creatable = {} /\ Victims = {}
  <2>1. Fail("pressure")
    BY <1>6 DEF EnsureMiss
  <2> QED BY <1>1, <1>2, <2>1, FailOK
<1>7. CASE Reusable = {} /\ Creatable = {} /\ Victims # {}
  <2>1. PICK f \in Victims :
          Push((IF chunk[frame[f].key].state = "resident_dirty"
                THEN <<KeyTask("writeback", frame[f].key)>> ELSE << >>)
               \o <<KeyTask("unmap", frame[f].key), MapTask(k, f)>>)
    BY <1>7 DEF EnsureMiss
  <2> DEFINE v == frame[f].key
             c == MapTask(k, f)
             b == KeyTask("unmap", v)
             a == KeyTask("writeback", v)
  <2>2. f \in Frame /\ v \in Key
    BY DEF Victims, Active, Mapped, TypeInv, DataInv, TypeOK
  <2>3. PICK p \in {<<b, c>>, <<a, b, c>>} : Push(p)
    <3>1. << >> \o <<b, c>> = <<b, c>> /\ <<a>> \o <<b, c>> = <<a, b, c>>
      BY PutTogether
    <3>2. PICK q \in {<< >>, <<a>>} : Push(q \o <<b, c>>)
      BY <2>1
    <3> QED BY <3>1, <3>2
  <2>4. /\ Fine(call.op, Touched, a) /\ Fine(call.op, Touched, b) /\ Fine(call.op, Touched, c)
        /\ a.do = "writeback" /\ b.do = "unmap" /\ c.do = "map"
    <3>1. Fine(call.op, Touched, a) /\ Fine(call.op, Touched, b)
      BY <2>2, FineTasks
    <3>2. a.do = "writeback" /\ b.do = "unmap"
      BY WorkFields
    <3> QED BY <1>3, <2>2, <3>1, <3>2
  <2>5. /\ b.do \notin HeadDo \union Catch \union ShrinkEnd
        /\ c.do \notin HeadDo \union ShrinkEnd \union {"unmap"}
        /\ a.do \notin Catch /\ a.do \in CleaningDo /\ a.key = b.key
    BY <2>4, WorkFields DEF HeadDo, Catch, ShrinkEnd, CleaningDo
  <2>6. /\ ListOK(call.op, Touched, p) /\ \A w \in Work(p) : Neutral(call.op, w)
        /\ p # << >> /\ Head(p) \in {a, b} /\ p[Len(p)] = c
    <3> HIDE DEF a, b, c
    <3>1. CASE p = <<a, b, c>>
      BY <2>4, <2>5, <3>1, ThreeTasks
    <3>2. CASE p = <<b, c>>
      BY <2>4, <2>5, <3>2, TwoTasks
    <3> QED BY <2>3, <3>1, <3>2
  <2>7. \A w \in Work(p) : w.do \in DetourDo /\ Heir(h, w)
    <3>1. \A w \in WorkOf(a) \union WorkOf(b) \union WorkOf(c) : w.do \in DetourDo /\ Heir(h, w)
      BY <1>0, <2>2, DetourWork
    <3>2. Work(p) \subseteq WorkOf(a) \union WorkOf(b) \union WorkOf(c)
      <4> HIDE DEF a, b, c
      <4> QED BY <2>3, WorkOfLists
    <3> QED BY <3>1, <3>2
  <2>8. Head(p).do \in DetourDo
    BY <2>2, <2>6, DetourWork
  <2>9. Tail(call.todo) # << >> => Follows(p[Len(p)], Head(Tail(call.todo)))
    BY <1>3, <2>2, <2>6
  <2> QED BY <1>1, <1>2, <2>3, <2>6, <2>7, <2>8, <2>9, DetourOK
<1> QED BY <1>4, <1>5, <1>6, <1>7

LEMMA RefreshShrinksCall ==
  ASSUME TypeInv, CallInv, NEW observed \in 0..MaxFrames, RefreshShrinks(observed)
  PROVE  CallInv' /\ (Detour \/ Fails)
<1> DEFINE do == IF At("refresh") THEN "setCapacityFor" ELSE "setCapacity"
           p == DropTail(observed)
           last == FrameTask(do, observed)
           s == p \o <<last>>
           n == capacity - observed
<1>1. call \in CallRecord
  BY DEF TypeInv, CallOK
<1>2. PICK e \in {"refresh", "forceRefresh"} : At(e)
  BY DEF RefreshShrinks, AtRefresh
<1>3. /\ call.todo # << >> /\ Head(call.todo).do = e /\ call.op \in {"prefetch", "acquire"}
      /\ e \notin {"forEach", "fail", "ensure", "map", "h2d"} \union CleaningDo
  BY <1>1, <1>2, FetchCall DEF At, FetchDo, CleaningDo
<1>4. capacity \in Nat /\ observed \in Nat /\ observed < capacity /\ n \in Nat
  BY RuntimeAssumption DEF RefreshShrinks, TypeInv, DataInv, TypeOK
<1>5. \A i \in 1..n : FrameTask("dropFrame", observed + i - 1) \in Tasks
  BY <1>4, TaskTypes DEF FrameDo, Tasks
<1>6. last \in Tasks /\ do \in {"setCapacity", "setCapacityFor"} /\ last.do = do
  BY <1>4, TaskTypes DEF FrameDo, Tasks, FrameTask
<1>7. p \in Seq(Tasks) /\ Len(p) = n /\ \A i \in 1..n : p[i] = FrameTask("dropFrame", observed + i - 1)
  <2>1. p = [i \in 1..n |-> FrameTask("dropFrame", observed + i - 1)]
    BY DEF DropTail
  <2>2. p \in [1..n -> Tasks]
    BY <1>5, <2>1
  <2> HIDE DEF p, n
  <2>3. p \in Seq(Tasks) /\ Len(p) = n
    BY <1>4, <2>2, SeqDef
  <2>4. \A i \in 1..n : p[i] = FrameTask("dropFrame", observed + i - 1)
    BY <2>1
  <2> QED BY <2>3, <2>4
<1>8. <<last>> \in Seq(Tasks) /\ Len(<<last>>) = 1 /\ <<last>>[1] = last
  BY <1>6
<1>12. Push(s) \/ Fail("pressure")
  BY DEF RefreshShrinks
<1> HIDE DEF p
<1>9. /\ s \in Seq(Tasks) /\ Len(s) = n + 1 /\ DOMAIN s = 1..(n + 1)
      /\ \A i \in 1..n : s[i] = FrameTask("dropFrame", observed + i - 1)
      /\ s[n + 1] = last
  <2> DEFINE z == <<last>>
  <2>1. z \in Seq(Tasks) /\ Len(z) = 1 /\ z[1] = last
    BY <1>8
  <2> HIDE DEF z, n
  <2>2. /\ p \o z \in Seq(Tasks) /\ Len(p \o z) = Len(p) + Len(z)
        /\ \A i \in 1..Len(p) + Len(z) : (p \o z)[i] = IF i <= Len(p) THEN p[i] ELSE z[i - Len(p)]
    BY <1>7, <2>1, ConcatProperties
  <2>3. n + 1 \in 1..Len(p) + Len(z) /\ ~(n + 1 <= Len(p)) /\ n + 1 - Len(p) = 1
    BY <1>4, <1>7, <2>1
  <2>4. \A i \in 1..n : i \in 1..Len(p) + Len(z) /\ i <= Len(p)
    BY <1>4, <1>7, <2>1
  <2> QED BY <1>4, <1>7, <2>1, <2>2, <2>3, <2>4 DEF z
<1>10. ASSUME NEW i \in DOMAIN s
       PROVE  /\ Fine(call.op, Touched, s[i]) /\ s[i].do \in DetourDo
              /\ s[i].do \notin Catch \union {"unmap", "create"}
              /\ (\E j \in DOMAIN s : i < j) => s[i].do \in ShrinkDo
              /\ \A w \in WorkOf(s[i]) : w.do \in DetourDo /\ Heir(Head(call.todo), w)
  <2> HIDE DEF s, n
  <2>1. PICK d \in {"dropFrame", "setCapacity", "setCapacityFor"}, f \in Nat : s[i] = FrameTask(d, f)
    <3>1. i = n + 1 \/ i \in 1..n
      BY <1>4, <1>9
    <3>2. \A j \in 1..n : observed + j - 1 \in Nat
      BY <1>4
    <3> QED BY <1>4, <1>6, <1>9, <3>1, <3>2
  <2>2. Fine(call.op, Touched, FrameTask(d, f))
    BY <1>3, FineTasks
  <2>3. FrameTask(d, f).do \notin Catch \union {"unmap", "create"}
    BY DEF FrameTask, Catch
  <2>4. ASSUME NEW j \in DOMAIN s, i < j PROVE s[i].do \in ShrinkDo
    <3>1. i \in 1..n
      BY <1>4, <1>9, <2>4
    <3>2. s[i] = FrameTask("dropFrame", observed + i - 1)
      BY <1>9, <3>1
    <3> QED BY <3>2 DEF FrameTask, ShrinkDo
  <2>5. \A w \in WorkOf(FrameTask(d, f)) : Heir(Head(call.todo), w)
    <3> DEFINE h == Head(call.todo)
    <3>1. h.do # "unmapIfClean" /\ h.do \notin ShrinkDo /\ h.do \in {"refresh", "forceRefresh"}
      BY <1>2, <1>3 DEF ShrinkDo
    <3>3. d \in ShrinkEnd
      BY DEF ShrinkEnd
    <3> HIDE DEF h
    <3>2. \A w \in WorkOf(FrameTask(d, f)) : Heir(h, w)
      BY <3>1, <3>3, HeirWork
    <3> QED BY <3>2 DEF h
  <2> QED BY <2>1, <2>2, <2>3, <2>4, <2>5, DetourWork
<1>11. s # << >>
  BY <1>4, <1>9
<1> HIDE DEF s
<1>13. 1 \in DOMAIN s /\ Head(s) = s[1]
  BY <1>4, <1>9
<1>14. ListOK(call.op, Touched, s) /\ \A w \in Work(s) : Neutral(call.op, w)
  <2>1. \A i \in DOMAIN s : s[i].do \notin {"forEach", "dropDirty", "pin", "create"} \union HeadDo
    BY <1>10 DEF DetourDo, HeadDo
  <2>2. \A i \in DOMAIN s : \A w \in WorkOf(s[i]) : Neutral(call.op, w) /\ Permitted(call.op, Touched, w)
    BY <1>10 DEF Fine
  <2>3. /\ \A i \in DOMAIN s : s[i].do \notin Catch /\ s[i].do # "unmap"
        /\ \A i, j \in DOMAIN s : i < j => s[i].do \in ShrinkDo
    BY <1>10
  <2>4. \A i, j \in DOMAIN s : i < j => /\ s[i].do \notin Catch
                                       /\ (s[j].do \in ShrinkEnd => s[i].do \in ShrinkDo)
    BY <2>3
  <2>5. \A i \in DOMAIN s : i + 1 \in DOMAIN s /\ s[i + 1].do = "unmap" =>
                               s[i].do \in CleaningDo /\ s[i].key = s[i + 1].key
    BY <2>3
  <2> QED BY <1>9, <2>1, <2>2, <2>4, <2>5, NeutralList
<1>15. \A w \in Work(s) : w.do \in DetourDo /\ Heir(Head(call.todo), w)
  BY <1>10, FromWork
<1>16. Tail(call.todo) # << >> => Follows(s[Len(s)], Head(Tail(call.todo)))
  BY <1>3, FollowsOn
<1>17. CASE Push(s)
  BY <1>1, <1>3, <1>10, <1>11, <1>13, <1>14, <1>15, <1>16, <1>17, DetourOK
<1>18. CASE Fail("pressure")
  BY <1>1, <1>3, <1>18, FailOK
<1> QED BY <1>12, <1>17, <1>18

LEMMA CreateFailsCall ==
  ASSUME TypeInv, CallInv, NEW f \in Frame, CreateHandleFails(f)
  PROVE  CallInv' /\ (Detour \/ Fails)
<1>1. call \in CallRecord
  BY DEF TypeInv, CallOK
<1>2. PICK e \in {"create", "createRetry"} : At(e)
  BY DEF CreateHandleFails, AtFrame
<1>3. /\ call.todo # << >> /\ Head(call.todo).do = e /\ call.op \in {"prefetch", "acquire"}
      /\ e \notin {"forEach", "fail", "ensure", "map", "h2d"} \union CleaningDo
  BY <1>1, <1>2, FetchCall DEF At, FetchDo, CleaningDo
<1> DEFINE a == Task("forceRefresh")
           b == FrameTask("createRetry", f)
           p == <<a, b>>
<1>4. Push(p) \/ \E status : Fail(status)
  BY DEF CreateHandleFails
<1>5. Fine(call.op, Touched, a) /\ Fine(call.op, Touched, b) /\ b.do = "createRetry"
  <2>1. f \in Nat
    BY FrameTypes
  <2>2. b.do = "createRetry"
    BY DEF FrameTask
  <2> QED BY <1>3, <2>1, <2>2, FineTasks
<1>6. a.do \in DetourDo /\ \A w \in WorkOf(a) \union WorkOf(b) : w.do \in DetourDo /\ Heir(Head(call.todo), w)
  <2> DEFINE h == Head(call.todo)
  <2>1. h.do # "unmapIfClean" /\ h.do \notin ShrinkDo
    BY <1>2, <1>3 DEF ShrinkDo
  <2> HIDE DEF h
  <2>2. \A w \in WorkOf(a) \union WorkOf(b) : Heir(h, w)
    BY <2>1, HeirWork
  <2> QED BY <2>2, DetourWork DEF h
<1>9. a.do = "forceRefresh"
  BY DEF Task
<1>7. CASE Push(p)
  <2> HIDE DEF a, b
  <2>1. b.do \notin HeadDo \union ShrinkEnd \union {"unmap"} /\ a.do \notin Catch
    BY <1>5, <1>9 DEF HeadDo, ShrinkEnd, Catch
  <2>2. /\ ListOK(call.op, Touched, p) /\ \A w \in Work(p) : Neutral(call.op, w)
        /\ p # << >> /\ Head(p) = a /\ p[Len(p)] = b
    BY <1>5, <2>1, TwoTasks
  <2>3. \A w \in Work(p) : w.do \in DetourDo /\ Heir(Head(call.todo), w)
    BY <1>6, WorkOfLists
  <2>4. Tail(call.todo) # << >> => Follows(p[Len(p)], Head(Tail(call.todo)))
    BY <1>3, FollowsOn
  <2> HIDE DEF p
  <2> QED BY <1>1, <1>3, <1>6, <1>7, <2>2, <2>3, <2>4, DetourOK
<1>8. CASE \E status : Fail(status)
  BY <1>1, <1>3, <1>8, FailOK
<1> QED BY <1>4, <1>7, <1>8

LEMMA DropMappingCall ==
  ASSUME TypeInv, CallInv, NEW f \in Frame, DropMapping(f)
  PROVE  CallInv' /\ Detour
<1>1. call \in CallRecord
  BY DEF TypeInv, CallOK
<1>2. call.todo # << >> /\ Head(call.todo).do = "dropFrame"
  BY DEF DropMapping, AtFrame, At
<1>3. frame[f].key \in Key
  BY DEF DropMapping, Mapped, TypeInv, DataInv, TypeOK
<1> DEFINE a == KeyTask("writebackIfDirty", frame[f].key)
           b == KeyTask("unmap", frame[f].key)
           p == <<a, b>>
<1>4. Goto(p \o call.todo)
  BY DEF DropMapping
<1>5. Fine(call.op, Touched, a) /\ Fine(call.op, Touched, b)
  BY <1>3, FineTasks
<1>6. b.do = "unmap" /\ a.do = "writebackIfDirty" /\ a.key = b.key
  BY WorkFields
<1>7. a.do \in DetourDo /\ \A w \in WorkOf(a) \union WorkOf(b) : w.do \in DetourDo /\ Heir(Head(call.todo), w)
  <2> DEFINE h == Head(call.todo)
  <2>1. h.do # "unmapIfClean"
    BY <1>2
  <2> HIDE DEF h
  <2>2. \A w \in WorkOf(a) \union WorkOf(b) : Heir(h, w)
    BY <1>3, <2>1, HeirWork
  <2> QED BY <1>3, <2>2, DetourWork DEF h
<1> HIDE DEF a, b
<1>8. b.do \notin HeadDo \union ShrinkEnd /\ a.do \notin Catch /\ a.do \in CleaningDo
  BY <1>6 DEF HeadDo, ShrinkEnd, Catch, CleaningDo
<1>9. /\ ListOK(call.op, Touched, p) /\ \A w \in Work(p) : Neutral(call.op, w)
      /\ p # << >> /\ Head(p) = a
  BY <1>5, <1>6, <1>8, TwoTasks
<1>10. \A w \in Work(p) : w.do \in DetourDo /\ Heir(Head(call.todo), w)
  BY <1>7, WorkOfLists
<1> HIDE DEF p
<1> QED BY <1>1, <1>2, <1>4, <1>7, <1>9, <1>10, BeforeOK

LEMMA SpillWritebackCall ==
  ASSUME TypeInv, CallInv, At("prepare"), NEW v \in Key, Goto(<<KeyTask("writeback", v)>> \o call.todo)
  PROVE  CallInv' /\ Detour
<1>1. call \in CallRecord
  BY DEF TypeInv, CallOK
<1>2. call.todo # << >> /\ Head(call.todo).do = "prepare"
  BY DEF At
<1> DEFINE a == KeyTask("writeback", v)
           p == <<a>>
<1>3. Fine(call.op, Touched, a)
  BY FineTasks
<1>4. a.do \in DetourDo /\ \A w \in WorkOf(a) : w.do \in DetourDo /\ Heir(Head(call.todo), w)
  <2> DEFINE h == Head(call.todo)
  <2>1. h.do # "unmapIfClean" /\ h.do \notin ShrinkDo
    BY <1>2 DEF ShrinkDo
  <2> HIDE DEF h
  <2>2. \A w \in WorkOf(a) : Heir(h, w)
    BY <2>1, HeirWork
  <2> QED BY <2>2, DetourWork DEF h
<1>5. Goto(p \o call.todo)
  OBVIOUS
<1> HIDE DEF a
<1>6. /\ ListOK(call.op, Touched, p) /\ \A w \in Work(p) : Neutral(call.op, w)
      /\ p # << >> /\ Head(p) = a
  BY <1>3, OneTask
<1>7. \A w \in Work(p) : w.do \in DetourDo /\ Heir(Head(call.todo), w)
  BY <1>4, WorkOfLists
<1> HIDE DEF p
<1> QED BY <1>1, <1>2, <1>4, <1>5, <1>6, <1>7, BeforeOK

(* A copy is under way: its completion t comes next. *)
CopyDo == {"h2d", "d2h", "retireH2d", "unmap", "fail"}
Awaiting(t) ==
  /\ call'.op = call.op /\ call'.plan = call.plan /\ call'.todo # << >>
  /\ Head(call'.todo) = t
  /\ Work(Tail(call.todo)) \subseteq Work(call'.todo)
  /\ \A w \in Work(call'.todo) : w \in Work(Tail(call.todo)) \/ w.do \in CopyDo

LEMMA MapCalls ==
  ASSUME TypeInv, CallInv, NEW k \in Key, AtKey("map", k)
  PROVE  /\ Push(<<KeyTask("h2d", k)>>) => CallInv' /\ Awaiting(KeyTask("h2d", k))
         /\ Push(<<KeyTask("retireH2d", k), KeyTask("unmap", k), Task("fail")>>) =>
              CallInv' /\ Awaiting(KeyTask("retireH2d", k))
<1>1. call \in CallRecord /\ At("map") /\ Head(call.todo).key = k
  BY DEF TypeInv, CallOK, AtKey
<1>2. /\ call.todo # << >> /\ Head(call.todo).do = "map" /\ Head(call.todo).do \notin CleaningDo
      /\ call.op \in {"prefetch", "acquire"} /\ k \in Touched \intersect Key
  BY <1>1, FetchCall DEF At, FetchDo, OfPlan, CleaningDo
<1> DEFINE h == KeyTask("h2d", k)
           r == KeyTask("retireH2d", k)
           u == KeyTask("unmap", k)
           e == Task("fail")
<1>3. /\ Fine(call.op, Touched, h) /\ Fine(call.op, Touched, r)
      /\ Fine(call.op, Touched, u) /\ Fine(call.op, Touched, e)
  BY <1>2, FineTasks
<1>0. \A w \in WorkOf(h) \union WorkOf(r) \union WorkOf(u) \union WorkOf(e) : Heir(Head(call.todo), w)
  <2> DEFINE t == Head(call.todo)
  <2>1. t.do = "map" /\ t.key = k /\ t.do # "unmapIfClean" /\ t.do \notin ShrinkDo
    BY <1>1, <1>2 DEF ShrinkDo
  <2> HIDE DEF t
  <2>2. \A w \in WorkOf(h) \union WorkOf(r) \union WorkOf(u) \union WorkOf(e) : Heir(t, w)
    BY <1>2, <2>1, HeirWork
  <2> QED BY <2>2 DEF t
<1>4. /\ h.do = "h2d" /\ h.key = k /\ r.do = "retireH2d" /\ u.do = "unmap" /\ e.do = "fail"
      /\ r.key = u.key
      /\ \A w \in WorkOf(h) \union WorkOf(r) \union WorkOf(u) \union WorkOf(e) : w.do \in CopyDo
  BY WorkFields DEF CopyDo, Task, KeyDo, LoopDo, PlainDo
<1>5. /\ u.do \notin HeadDo \union Catch \union ShrinkEnd
      /\ e.do \notin HeadDo \union ShrinkEnd \union {"unmap"}
      /\ r.do \notin Catch /\ r.do \in CleaningDo
  BY <1>4 DEF HeadDo, Catch, ShrinkEnd, CleaningDo
<1>6. /\ Tail(call.todo) # << >> => Follows(h, Head(Tail(call.todo)))
      /\ Tail(call.todo) # << >> => Follows(e, Head(Tail(call.todo)))
  BY <1>1, <1>2, <1>4, FollowsOn
<1> HIDE DEF h, r, u, e
<1>7. ASSUME Push(<<h>>) PROVE CallInv' /\ Awaiting(h)
  <2> DEFINE p == <<h>>
  <2>1. /\ ListOK(call.op, Touched, p) /\ \A w \in Work(p) : Neutral(call.op, w)
        /\ p # << >> /\ Head(p) = h /\ p[Len(p)] = h
    BY <1>3, OneTask
  <2>2. \A w \in Work(p) : w.do \in CopyDo /\ Heir(Head(call.todo), w)
    BY <1>0, <1>4, WorkOfLists
  <2>3. Push(p)
    BY <1>7
  <2> HIDE DEF p
  <2>4. CallInv' /\ Prepends(p, Tail(call.todo))
    BY <1>1, <1>2, <1>6, <2>1, <2>2, <2>3, PushOK
  <2> QED BY <1>4, <2>1, <2>2, <2>4 DEF Prepends, Awaiting
<1>8. ASSUME Push(<<r, u, e>>) PROVE CallInv' /\ Awaiting(r)
  <2> DEFINE p == <<r, u, e>>
  <2>1. /\ ListOK(call.op, Touched, p) /\ \A w \in Work(p) : Neutral(call.op, w)
        /\ p # << >> /\ Head(p) = r /\ p[Len(p)] = e
    BY <1>3, <1>4, <1>5, ThreeTasks
  <2>2. \A w \in Work(p) : w.do \in CopyDo /\ Heir(Head(call.todo), w)
    BY <1>0, <1>4, WorkOfLists
  <2>3. Push(p)
    BY <1>8
  <2> HIDE DEF p
  <2>4. CallInv' /\ Prepends(p, Tail(call.todo))
    BY <1>1, <1>2, <1>6, <2>1, <2>2, <2>3, PushOK
  <2> QED BY <1>4, <2>1, <2>2, <2>4 DEF Prepends, Awaiting
<1> QED BY <1>7, <1>8 DEF h, r, u, e

LEMMA StartD2hCall ==
  ASSUME TypeInv, CallInv, NEW k \in Key, AtWriteback(k), Push(<<KeyTask("d2h", k)>>)
  PROVE  CallInv' /\ Awaiting(KeyTask("d2h", k))
<1>1. call \in CallRecord
  BY DEF TypeInv, CallOK
<1>2. /\ call.todo # << >> /\ Head(call.todo).do \in {"writeback", "writebackIfDirty"}
      /\ Head(call.todo).key = k
  BY DEF AtWriteback, AtKey, At
<1> DEFINE h == KeyTask("d2h", k)
           p == <<h>>
<1>3. Fine(call.op, Touched, h)
  BY FineTasks
<1>4. h.do = "d2h" /\ h.key = k /\ \A w \in WorkOf(h) : w.do \in CopyDo /\ Heir(Head(call.todo), w)
  <2> DEFINE t == Head(call.todo)
  <2>1. t.do # "unmapIfClean"
    BY <1>2
  <2> HIDE DEF t
  <2>2. \A w \in WorkOf(h) : Heir(t, w)
    BY <2>1, HeirWork
  <2> QED BY <2>2, WorkFields DEF CopyDo, t
<1>5. Push(p)
  OBVIOUS
<1> HIDE DEF h
<1>6. /\ ListOK(call.op, Touched, p) /\ \A w \in Work(p) : Neutral(call.op, w)
      /\ p # << >> /\ Head(p) = h /\ p[Len(p)] = h
  BY <1>3, OneTask
<1>7. \A w \in Work(p) : w.do \in CopyDo /\ Heir(Head(call.todo), w)
  BY <1>4, WorkOfLists
<1>8. Tail(call.todo) # << >> => Follows(p[Len(p)], Head(Tail(call.todo)))
  <2>1. Head(call.todo).do \notin {"fail", "ensure", "map", "h2d"} /\ h.do \in CleaningDo /\ h.key = Head(call.todo).key
    BY <1>2, <1>4 DEF CleaningDo
  <2>2. Tail(call.todo) # << >> => Follows(h, Head(Tail(call.todo)))
    BY <1>2, <2>1, FollowsOn
  <2> QED BY <1>6, <2>2
<1> HIDE DEF p
<1>9. CallInv' /\ Prepends(p, Tail(call.todo))
  BY <1>1, <1>2, <1>5, <1>6, <1>7, <1>8, PushOK
<1> QED BY <1>4, <1>6, <1>7, <1>9 DEF Prepends, Awaiting, h

-----------------------------------------------------------------------------
(* The last tasks of a call, and the handlers. *)

LEMMA SomeWork ==
  ASSUME NEW op, NEW K, NEW s, ListOK(op, K, s), s # << >>
  PROVE  \E w \in WorkOf(Head(s)) : w \in Work(s)
<1> DEFINE h == Head(s)
<1>1. s \in Seq(Tasks) /\ KnownLoops(s)
  BY DEF ListOK
<1>2. 1 \in DOMAIN s /\ h = s[1] /\ h \in Tasks
  BY <1>1, EmptySeq, HeadTailProperties
<1>3. WorkOf(h) \subseteq Work(s)
  BY <1>2, InWork
<1>4. h.do = "forEach" => h.steps \in LoopForms
  BY <1>1, <1>2 DEF KnownLoops
<1> HIDE DEF h
<1>5. CASE h.do = "forEach"
  <2>1. h \in Loops /\ WorkOf(h) = {KeyTask(h.steps[i], k) : i \in DOMAIN h.steps, k \in h.keys}
    BY <1>2, <1>5, WorkOfTask
  <2>2. PICK k \in h.keys : TRUE
    BY <2>1 DEF Loops
  <2>3. Len(h.steps) \in 1..3 /\ DOMAIN h.steps = 1..Len(h.steps)
    BY <1>4, <1>5, LoopFormFacts
  <2>4. 1 \in DOMAIN h.steps
    <3> DEFINE n == Len(h.steps)
    <3>1. n \in 1..3 /\ DOMAIN h.steps = 1..n
      BY <2>3
    <3> HIDE DEF n
    <3>2. 1 \in 1..n
      BY <3>1
    <3> QED BY <3>1, <3>2
  <2>5. KeyTask(h.steps[1], k) \in WorkOf(h)
    BY <2>1, <2>2, <2>4
  <2> QED BY <1>3, <2>5 DEF h
<1>6. CASE h.do # "forEach"
  BY <1>2, <1>3, <1>6, HeadWork DEF h
<1> QED BY <1>5, <1>6

LEMMA LastTask ==
  ASSUME call \in CallRecord, CallInv, NEW do \in LastDo, At(do)
  PROVE  Tail(call.todo) = << >>
<1> DEFINE t == Tail(call.todo)
           h == Head(call.todo)
<1>1. call.todo # << >> /\ h.do = do /\ h.do # "forEach" /\ ListOK(call.op, Touched, call.todo)
  BY DEF At, LastDo, CallInv, Proper
<1>2. /\ ListOK(call.op, Touched, t) /\ h \in Tasks
      /\ \A v \in WorkOf(h), w \in Work(t) : InOrder(call.op, v, w)
  BY <1>1, TailOK
<1> HIDE DEF t, h
<1>3. ASSUME t # << >> PROVE FALSE
  <2>1. PICK w \in Work(t) : TRUE
    BY <1>2, <1>3, SomeWork
  <2>2. PICK v \in WorkOf(h) : v.do = h.do
    BY <1>1, <1>2, HeadWork
  <2> QED BY <1>1, <1>2, <2>1, <2>2 DEF InOrder
<1> QED BY <1>3 DEF t

LEMMA PlainTask ==
  ASSUME NEW op, NEW K, NEW do \in PlainDo, Permitted(op, K, KeyTask(do, None))
  PROVE  ListOK(op, K, <<Task(do)>>) /\ Work(<<Task(do)>>) = {KeyTask(do, None)}
<1> DEFINE t == Task(do)
<1>1. /\ t \in Tasks /\ t.do \notin {"forEach", "dropDirty"}
      /\ WorkOf(t) = {KeyTask(do, None)}
  BY TaskTypes, WorkFields DEF Tasks, Task, PlainDo
<1> HIDE DEF t
<1>2. ListOK(op, K, <<t>>) /\ Work(<<t>>) = WorkOf(t)
  BY <1>1, SingleOK
<1> QED BY <1>1, <1>2 DEF t

LEMMA ArmList ==
  ASSUME NEW K
  PROVE  /\ ListOK("acquire", K, <<Task("arm"), Task("rollback")>>)
         /\ Work(<<Task("arm"), Task("rollback")>>) = {KeyTask("arm", None), KeyTask("rollback", None)}
<1> DEFINE a == Task("arm")
           b == Task("rollback")
           p == <<a, b>>
<1>1. a \in Tasks /\ b \in Tasks /\ a.do = "arm" /\ b.do = "rollback"
  BY TaskTypes DEF Tasks, Task, PlainDo
<1>2. WorkOf(a) = {KeyTask("arm", None)} /\ WorkOf(b) = {KeyTask("rollback", None)}
  BY WorkFields DEF PlainDo
<1> HIDE DEF a, b
<1>3. p \in Seq(Tasks) /\ DOMAIN p = {1, 2} /\ p[1] = a /\ p[2] = b
  BY <1>1
<1>4. Work(p) = WorkOf(a) \union WorkOf(b)
  BY WorkOfLists
<1> HIDE DEF p
<1>5. \A w \in Work(p) : Permitted("acquire", K, w)
  BY <1>2, <1>4, WorkFields DEF Permitted, AcquireDo, LeaseDo, CloseDo, FetchDo, DiscardDo, OfPlan
<1>6. Sorted("acquire", p)
  <2>1. \A i, j \in DOMAIN p : i < j => i = 1 /\ j = 2
    BY <1>3
  <2>2. InOrder("acquire", KeyTask("arm", None), KeyTask("rollback", None))
    BY WorkFields DEF InOrder, LastDo, HeadDo, Catch, FirstDo, ShrinkEnd
  <2> QED BY <1>2, <1>3, <2>1, <2>2 DEF Sorted
<1>7. Linked(p)
  BY <1>1, <1>3 DEF Linked, Follows
<1>8. KnownLoops(p)
  BY <1>1, <1>3 DEF KnownLoops
<1>9. ListOK("acquire", K, p)
  BY <1>3, <1>5, <1>6, <1>7, <1>8 DEF ListOK
<1> QED BY <1>2, <1>4, <1>9 DEF p, a, b

LEMMA EnsureWorkspaceCall ==
  ASSUME TypeInv, CallInv, EnsureWorkspace
  PROVE  /\ CallInv' /\ call.op = "acquire"
         /\ \/ call' = NoCall
            \/ /\ call'.op = call.op /\ call'.plan = call.plan /\ call'.todo # << >>
               /\ Work(call'.todo) = LoopWork(Touched, <<"prepare", "ensure", "pin">>)
                    \union {KeyTask("arm", None), KeyTask("rollback", None)}
               /\ Head(call'.todo).do \notin HeadDo \union {"pin"}
<1>1. call \in CallRecord /\ Touched \in SUBSET Key
  BY DEF TypeInv, CallOK, CallRecord, Touched, Plan, PlanSet
<1>2. At("workspace")
  BY DEF EnsureWorkspace
<1>3. call.todo # << >> /\ Head(call.todo).do = "workspace" /\ Tail(call.todo) = << >>
  BY <1>1, <1>2, LastTask DEF At, LastDo
<1>4. call.op = "acquire"
  <2>1. Permitted(call.op, Touched, KeyTask("workspace", None))
    BY <1>1, <1>2, AtTask DEF KeyDo, LoopDo
  <2> QED BY <2>1, WorkFields DEF Permitted, AcquireDo
<1> DEFINE steps == <<"prepare", "ensure", "pin">>
           loop == ForEach(Touched, steps)
           last == <<Task("arm"), Task("rollback")>>
           u == loop \o last
<1>5. Goto(u) \/ Fail("other")
  BY DEF EnsureWorkspace
<1>6. CASE Fail("other")
  <2>1. CallInv' /\ Fails
    BY <1>1, <1>3, <1>6, FailOK
  <2>2. Work(Tail(call.todo)) = {}
    BY <1>3, WorkEmpty
  <2>3. call' = NoCall
    <3>1. CASE call'.todo # << >> /\ Work(call'.todo) \subseteq {}
      <4>1. ListOK(call'.op, Touched', call'.todo)
        BY <2>1 DEF CallInv, Proper
      <4> QED BY <3>1, <4>1, SomeWork
    <3> QED BY <2>1, <2>2, <3>1 DEF Fails
  <2> QED BY <1>4, <2>1, <2>3
<1>7. CASE Goto(u)
  <2>1. /\ steps \in LoopForms /\ DOMAIN steps = {1, 2, 3}
        /\ steps[1] = "prepare" /\ steps[2] = "ensure" /\ steps[3] = "pin"
    BY DEF LoopForms
  <2> HIDE DEF steps
  <2>2. ASSUME NEW w \in LoopWork(Touched, steps)
        PROVE  Permitted("acquire", Touched, w) /\ w.do \in {"prepare", "ensure", "pin"}
    <3>1. PICK i \in {1, 2, 3}, k \in Touched : w = KeyTask(steps[i], k)
      BY <2>1 DEF LoopWork
    <3>2. w.do \in {"prepare", "ensure", "pin"} /\ w.key = k
      BY <2>1, <3>1, WorkFields
    <3> QED BY <3>2 DEF Permitted, AcquireDo, LeaseDo, CloseDo, FetchDo, DiscardDo, OfPlan
  <2>3. /\ ListOK("acquire", Touched, loop) /\ Work(loop) = LoopWork(Touched, steps)
        /\ Touched = {} => loop = << >>
        /\ Touched # {} => loop # << >> /\ Head(loop).do = "forEach"
    <3>1. \A w \in LoopWork(Touched, steps) : Permitted("acquire", Touched, w)
      BY <2>2
    <3>2. Touched \in SUBSET Key /\ steps \in LoopForms
      BY <1>1, <2>1
    <3>3. /\ ListOK("acquire", Touched, ForEach(Touched, steps))
          /\ Work(ForEach(Touched, steps)) = LoopWork(Touched, steps)
      BY <3>1, <3>2, ForEachOK
    <3>4. /\ Touched = {} => ForEach(Touched, steps) = << >>
          /\ Touched # {} => ForEach(Touched, steps) # << >> /\ Head(ForEach(Touched, steps)).do = "forEach"
      <4>1. Touched = {} => ForEach(Touched, steps) = << >>
        BY DEF ForEach
      <4>2. Touched # {} => ForEach(Touched, steps) # << >> /\ Head(ForEach(Touched, steps)).do = "forEach"
        BY <3>1, <3>2, ForEachOK
      <4> QED BY <4>1, <4>2
    <3> QED BY <3>3, <3>4
  <2>4. /\ ListOK("acquire", Touched, last)
        /\ Work(last) = {KeyTask("arm", None), KeyTask("rollback", None)}
        /\ last # << >> /\ Head(last).do = "arm"
    BY ArmList DEF Task
  <2> HIDE DEF loop, last
  <2>5. Fits("acquire", loop, last)
    <3>1. ASSUME NEW v \in Work(loop), NEW w \in Work(last) PROVE InOrder("acquire", v, w)
      <4>1. v.do \in {"prepare", "ensure", "pin"}
        BY <2>2, <2>3
      <4>2. w \in {KeyTask("arm", None), KeyTask("rollback", None)}
        BY <2>4
      <4> QED BY <4>1, <4>2, WorkFields DEF InOrder, LastDo, HeadDo, Catch, FirstDo, ShrinkEnd
    <3> QED BY <2>4, <3>1 DEF Fits, Follows
  <2>6. ListOK("acquire", Touched, u)
    BY <2>3, <2>4, <2>5, ConcatOK
  <2>7. loop \in Seq(Tasks) /\ last \in Seq(Tasks)
    BY <2>3, <2>4 DEF ListOK
  <2>8. Work(u) = Work(loop) \union Work(last)
    BY <2>7, WorkConcat
  <2>9. u # << >> /\ Head(u).do \in {"forEach", "arm"}
    <3>1. CASE Touched = {}
      <4>1. u = last
        BY <2>3, <2>7, <3>1, ConcatEmptySeq
      <4> QED BY <2>4, <4>1
    <3>2. CASE Touched # {}
      <4>1. loop # << >> /\ Head(loop).do = "forEach"
        BY <2>3, <3>2
      <4>2. /\ u \in Seq(Tasks) /\ Len(u) = Len(loop) + Len(last) /\ Len(last) \in Nat
            /\ Len(loop) \in Nat \ {0} /\ u[1] = loop[1] /\ Head(loop) = loop[1]
        BY <2>7, <4>1, ConcatProperties, EmptySeq
      <4> HIDE DEF u
      <4>3. Len(u) # 0
        BY <4>2
      <4> QED BY <4>1, <4>2, <4>3
    <3> QED BY <3>1, <3>2
  <2> HIDE DEF u
  <2>10. Proper("acquire", Touched, u)
    <3>1. \A k \in Key : KeyTask("prepare", k) \in Work(u) => KeyTask("pin", k) \in Work(u)
      <4> SUFFICES ASSUME NEW k \in Key, KeyTask("prepare", k) \in Work(u) PROVE KeyTask("pin", k) \in Work(u)
        OBVIOUS
      <4>1. KeyTask("prepare", k) \in LoopWork(Touched, steps)
        BY <2>3, <2>4, <2>8, WorkFields
      <4>2. k \in Touched
        BY <4>1, WorkFields DEF LoopWork
      <4>3. KeyTask("pin", k) \in LoopWork(Touched, steps)
        BY <2>1, <4>2 DEF LoopWork
      <4> QED BY <2>3, <2>8, <4>3
    <3>2. KeyTask("rollback", None) \in Work(u)
      BY <2>4, <2>8
    <3> QED BY <2>6, <3>1, <3>2 DEF Proper
  <2>11. CallInv' /\ Leads(u)
    BY <1>1, <1>4, <1>7, <2>10, GotoOK
  <2>12. Head(call'.todo).do \notin HeadDo \union {"pin"}
    <3>1. CASE Head(u).do = "forEach"
      BY <2>9, <2>11, <3>1 DEF Leads, LoopDo, HeadDo
    <3>2. CASE Head(u).do = "arm"
      BY <2>9, <2>11, <3>2 DEF Leads, HeadDo
    <3> QED BY <2>9, <3>1, <3>2
  <2> QED BY <1>4, <2>3, <2>4, <2>8, <2>9, <2>11, <2>12 DEF Leads, steps
<1> QED BY <1>5, <1>6, <1>7

(* A loop and one task after it. *)
LoopThen(L, steps, do) == ForEach(L, steps) \o <<Task(do)>>

LEMMA LoopThenOK ==
  ASSUME NEW op, NEW K, NEW L \in SUBSET Key, NEW steps \in LoopForms, NEW do \in PlainDo,
         \A w \in LoopWork(L, steps) : Permitted(op, K, w) /\ InOrder(op, w, KeyTask(do, None)),
         Permitted(op, K, KeyTask(do, None))
  PROVE  /\ ListOK(op, K, LoopThen(L, steps, do))
         /\ \A w \in Work(LoopThen(L, steps, do)) : w \in LoopWork(L, steps) \/ w = KeyTask(do, None)
         /\ \A w \in LoopWork(L, steps) : w \in Work(LoopThen(L, steps, do))
         /\ KeyTask(do, None) \in Work(LoopThen(L, steps, do))
         /\ LoopThen(L, steps, do) # << >>
         /\ LoopThen(L, steps, do)[Len(LoopThen(L, steps, do))] = Task(do)
         /\ L # {} => Head(LoopThen(L, steps, do)).do = "forEach"
         /\ L = {} => Head(LoopThen(L, steps, do)) = Task(do)
<1> DEFINE loop == ForEach(L, steps)
           last == <<Task(do)>>
           u == loop \o last
<1>1. ListOK(op, K, loop) /\ Work(loop) = LoopWork(L, steps)
  <2>1. \A w \in LoopWork(L, steps) : Permitted(op, K, w)
    OBVIOUS
  <2> QED BY <2>1, ForEachOK
<1>2. (L = {} => loop = << >>) /\ (L # {} => loop # << >> /\ Head(loop).do = "forEach")
  <2>1. \A w \in LoopWork(L, steps) : Permitted(op, K, w)
    OBVIOUS
  <2> QED BY <2>1, ForEachOK, ZenonT(40)
<1>3. ListOK(op, K, last) /\ Work(last) = {KeyTask(do, None)}
  BY PlainTask
<1>4. Len(last) = 1 /\ last[1] = Task(do) /\ Task(do).do = do /\ Head(last) = Task(do) /\ last # << >>
  BY DEF Task
<1> HIDE DEF loop, last
<1>5. do \notin {"pin", "unmap"}
  BY DEF PlainDo
<1>6. Fits(op, loop, last)
  BY <1>1, <1>3, <1>4, <1>5 DEF Fits, Follows
<1>7. ListOK(op, K, u)
  BY <1>1, <1>3, <1>6, ConcatOK
<1>8. loop \in Seq(Tasks) /\ last \in Seq(Tasks)
  BY <1>1, <1>3 DEF ListOK
<1>9. Work(u) = LoopWork(L, steps) \union {KeyTask(do, None)}
  BY <1>1, <1>3, <1>8, WorkConcat
<1>10. /\ u \in Seq(Tasks) /\ Len(u) = Len(loop) + 1 /\ Len(loop) \in Nat
       /\ \A i \in 1..Len(loop) + 1 : u[i] = IF i <= Len(loop) THEN loop[i] ELSE last[i - Len(loop)]
  <2>1. /\ u \in Seq(Tasks) /\ Len(u) = Len(loop) + Len(last) /\ Len(loop) \in Nat
        /\ \A i \in 1..Len(loop) + Len(last) : u[i] = IF i <= Len(loop) THEN loop[i] ELSE last[i - Len(loop)]
    BY <1>8, ConcatProperties
  <2> QED BY <1>4, <2>1
<1> HIDE DEF u
<1>11. u # << >> /\ Head(u) = u[1] /\ u[Len(u)] = Task(do)
  <2>1. Len(u) # 0 /\ Len(u) \in 1..Len(loop) + 1 /\ ~(Len(u) <= Len(loop)) /\ Len(u) - Len(loop) = 1
    BY <1>10
  <2>2. u # << >> /\ Head(u) = u[1]
    BY <1>10, <2>1
  <2> QED BY <1>4, <1>10, <2>1, <2>2
<1>12. ASSUME L # {} PROVE Head(u).do = "forEach"
  <2>1. Len(loop) \in Nat \ {0} /\ Head(loop) = loop[1]
    BY <1>2, <1>8, <1>12, EmptySeq
  <2>2. u[1] = loop[1]
    BY <1>10, <2>1
  <2> QED BY <1>2, <1>11, <1>12, <2>1, <2>2
<1>13. ASSUME L = {} PROVE Head(u) = Task(do)
  <2>1. Len(loop) = 0
    BY <1>2, <1>13
  <2>2. u[1] = last[1]
    BY <1>10, <2>1
  <2> QED BY <1>4, <1>11, <2>2
<1>14. /\ \A w \in Work(u) : w \in LoopWork(L, steps) \/ w = KeyTask(do, None)
       /\ \A w \in LoopWork(L, steps) : w \in Work(u)
       /\ KeyTask(do, None) \in Work(u)
  BY <1>9
<1>15. u = LoopThen(L, steps, do)
  BY DEF u, loop, last, LoopThen
<1> QED BY <1>7, <1>11, <1>12, <1>13, <1>14, <1>15

LEMMA LoopThenHead ==
  ASSUME NEW op, NEW K, NEW L \in SUBSET Key, NEW steps \in LoopForms, NEW do \in PlainDo,
         \A w \in LoopWork(L, steps) : Permitted(op, K, w) /\ InOrder(op, w, KeyTask(do, None)),
         Permitted(op, K, KeyTask(do, None))
  PROVE  /\ Head(LoopThen(L, steps, do)).do \in {"forEach", do}
         /\ L = {} => Head(LoopThen(L, steps, do)).do = do
<1> DEFINE u == LoopThen(L, steps, do)
<1>1. (L # {} => Head(u).do = "forEach") /\ (L = {} => Head(u) = Task(do))
  BY LoopThenOK, ZenonT(40)
<1> HIDE DEF u
<1>2. Task(do).do = do
  BY DEF Task
<1>3. L = {} => Head(u).do = do
  BY <1>1, <1>2
<1> QED BY <1>1, <1>3 DEF u

LEMMA RollbackCall ==
  ASSUME TypeInv, CallInv, Rollback
  PROVE  /\ CallInv' /\ call.op = "acquire" /\ Work(Tail(call.todo)) = {}
         /\ call'.op = call.op /\ call'.plan = call.plan /\ call'.todo # << >>
         /\ KeyTask("dropSpills", None) \in Work(call'.todo)
         /\ \A w \in Work(call'.todo) : w.do \in {"unmapIfClean", "catch", "dropSpills"}
         /\ Head(call'.todo).do \notin HeadDo \union {"pin"}
<1>1. call \in CallRecord /\ Provisional \in SUBSET Key
  BY ProvisionalType DEF TypeInv, CallOK
<1>2. At("rollback")
  BY DEF Rollback
<1>3. call.todo # << >> /\ Head(call.todo).do = "rollback" /\ Tail(call.todo) = << >>
  BY <1>1, <1>2, LastTask DEF At, LastDo
<1>4. call.op = "acquire"
  <2>1. Permitted(call.op, Touched, KeyTask("rollback", None))
    BY <1>1, <1>2, AtTask DEF KeyDo, LoopDo
  <2> QED BY <2>1, WorkFields DEF Permitted, AcquireDo
<1> DEFINE steps == <<"unmapIfClean", "catch">>
           L == Provisional
           u == LoopThen(L, steps, "dropSpills")
<1>5. Goto(u \o Tail(call.todo))
  BY DEF Rollback, Push, LoopThen
<1>6. /\ steps \in LoopForms /\ DOMAIN steps = {1, 2}
      /\ steps[1] = "unmapIfClean" /\ steps[2] = "catch"
  BY DEF LoopForms
<1> HIDE DEF steps, L
<1>7. ASSUME NEW w \in LoopWork(L, steps)
      PROVE  /\ Permitted("acquire", Touched, w) /\ w.do \in {"unmapIfClean", "catch"}
             /\ InOrder("acquire", w, KeyTask("dropSpills", None))
  <2>1. w.do \in {"unmapIfClean", "catch"}
    BY <1>6, WorkFields DEF LoopWork
  <2> QED BY <2>1, WorkFields
       DEF Permitted, AcquireDo, LeaseDo, CloseDo, FetchDo, DiscardDo, OfPlan,
           InOrder, LastDo, HeadDo, Catch, CopyingDo, FirstDo, ShrinkEnd
<1>8. Permitted("acquire", Touched, KeyTask("dropSpills", None))
  BY WorkFields DEF Permitted, AcquireDo, LeaseDo, CloseDo, FetchDo, DiscardDo, OfPlan
<1>9. L \in SUBSET Key /\ "dropSpills" \in PlainDo
  BY <1>1 DEF L, PlainDo
<1>10. /\ ListOK("acquire", Touched, u)
       /\ \A w \in Work(u) : w \in LoopWork(L, steps) \/ w = KeyTask("dropSpills", None)
       /\ KeyTask("dropSpills", None) \in Work(u)
       /\ u # << >>
  <2>1. \A w \in LoopWork(L, steps) :
          Permitted("acquire", Touched, w) /\ InOrder("acquire", w, KeyTask("dropSpills", None))
    BY <1>7
  <2> QED BY <1>6, <1>8, <1>9, <2>1, LoopThenOK, SMTT(60)
<1>11. Head(u).do \in {"forEach", "dropSpills"}
  <2>1. \A w \in LoopWork(L, steps) :
          Permitted("acquire", Touched, w) /\ InOrder("acquire", w, KeyTask("dropSpills", None))
    BY <1>7
  <2>2. (L # {} => Head(u).do = "forEach") /\ (L = {} => Head(u) = Task("dropSpills"))
    BY <1>6, <1>8, <1>9, <2>1, LoopThenOK
  <2> QED BY <2>2 DEF Task
<1> HIDE DEF u
<1>12. Goto(u)
  <2>1. u \in Seq(Tasks)
    BY <1>10 DEF ListOK
  <2> QED BY <1>3, <1>5, <2>1, ConcatEmptySeq
<1>13. \A w \in Work(u) : w.do \in {"unmapIfClean", "catch", "dropSpills"}
  BY <1>7, <1>10, WorkFields
<1>14. Proper("acquire", Touched, u)
  <2>1. \A w \in Work(u) : w.do \notin {"prepare", "pin", "arm"}
    BY <1>13
  <2> QED BY <1>10, <2>1, WorkFields DEF Proper
<1>15. CallInv' /\ Leads(u)
  BY <1>1, <1>4, <1>12, <1>14, GotoOK
<1>16. Head(call'.todo).do \notin HeadDo \union {"pin"}
  <2>1. CASE Head(u).do = "forEach"
    BY <1>10, <1>15, <2>1 DEF Leads, LoopDo, HeadDo
  <2>2. CASE Head(u).do = "dropSpills"
    BY <1>10, <1>11, <1>15, <2>2 DEF Leads, HeadDo, Task, PlainDo
  <2> QED BY <1>11, <2>1, <2>2
<1> QED BY <1>3, <1>4, <1>10, <1>11, <1>13, <1>15, <1>16, WorkEmpty DEF Leads


LEMMA RetireCall ==
  ASSUME TypeInv, CallInv, Retire
  PROVE  /\ CallInv' /\ call.op \in {"poll", "wait", "drain", "close"}
         /\ \/ ~AllRetire /\ Fails
            \/ /\ AllRetire /\ call'.op = call.op /\ call'.plan = call.plan /\ call'.todo # << >>
               /\ KeyTask("finishLease", None) \in Work(call'.todo)
               /\ Work(Tail(call.todo)) \subseteq Work(call'.todo)
               /\ \A w \in Work(call'.todo) :
                    w \in Work(Tail(call.todo)) \/ w.do \in {"unmapIfClean", "finishLease"}
               /\ Head(call'.todo).do \notin HeadDo \union {"pin"}
               /\ lease.seal # "cancelled" => Head(call'.todo).do = "finishLease"
<1>1. call \in CallRecord /\ Provisional \in SUBSET Key
  BY ProvisionalType DEF TypeInv, CallOK
<1>2. PICK e \in {"poll", "wait"} : At(e)
  BY DEF Retire, AtRetire
<1>3. /\ call.todo # << >> /\ Head(call.todo).do = e
      /\ e \notin {"forEach", "fail", "ensure", "map", "h2d"} \union CleaningDo
  BY <1>2 DEF At, CleaningDo
<1>4. call.op \in {"poll", "wait", "drain", "close"}
  <2>1. Permitted(call.op, Touched, KeyTask(e, None))
    BY <1>1, <1>2, <1>3, AtTask DEF KeyDo, LoopDo
  <2> QED BY <2>1, WorkFields DEF Permitted, LeaseDo
<1> DEFINE steps == <<"unmapIfClean">>
           L == IF lease.seal = "cancelled" THEN Provisional ELSE {}
           u == LoopThen(L, steps, "finishLease")
<1>5. CASE ~AllRetire
  BY <1>1, <1>3, <1>4, <1>5, FailOK DEF Retire
<1>6. CASE AllRetire
  <2>1. Push(u)
    BY <1>6 DEF Retire, LoopThen, ForEach
  <2>2. steps \in LoopForms /\ DOMAIN steps = {1} /\ steps[1] = "unmapIfClean"
    BY DEF LoopForms
  <2>3. L \in SUBSET Key /\ "finishLease" \in PlainDo
    BY <1>1 DEF PlainDo
  <2>4. lease.seal # "cancelled" => L = {}
    OBVIOUS
  <2> HIDE DEF steps, L
  <2>5. \A w \in LoopWork(L, steps) : w.do = "unmapIfClean"
    BY <2>2, WorkFields DEF LoopWork
  <2>6. \A w \in LoopWork(L, steps) :
          Permitted(call.op, Touched, w) /\ InOrder(call.op, w, KeyTask("finishLease", None))
    BY <2>5, WorkFields
       DEF Permitted, AcquireDo, LeaseDo, CloseDo, FetchDo, DiscardDo, OfPlan,
           InOrder, LastDo, HeadDo, Catch, FirstDo, ShrinkEnd
  <2>7. Permitted(call.op, Touched, KeyTask("finishLease", None))
    BY <1>4, WorkFields DEF Permitted, AcquireDo, LeaseDo, CloseDo, FetchDo, DiscardDo, OfPlan
  <2>8. /\ ListOK(call.op, Touched, u)
        /\ \A w \in Work(u) : w \in LoopWork(L, steps) \/ w = KeyTask("finishLease", None)
        /\ KeyTask("finishLease", None) \in Work(u)
        /\ u # << >>
    <3> DEFINE op == call.op
               K == Touched
               do == "finishLease"
    <3>1. /\ \A w \in LoopWork(L, steps) : Permitted(op, K, w) /\ InOrder(op, w, KeyTask(do, None))
          /\ Permitted(op, K, KeyTask(do, None)) /\ do \in PlainDo
      BY <2>3, <2>6, <2>7
    <3> HIDE DEF op, K, do
    <3>2. /\ ListOK(op, K, LoopThen(L, steps, do))
          /\ \A w \in Work(LoopThen(L, steps, do)) : w \in LoopWork(L, steps) \/ w = KeyTask(do, None)
          /\ KeyTask(do, None) \in Work(LoopThen(L, steps, do))
          /\ LoopThen(L, steps, do) # << >>
      BY <2>2, <2>3, <3>1, LoopThenOK
    <3> QED BY <3>2 DEF op, K, do
  <2>9. Head(u).do \in {"forEach", "finishLease"} /\ (L = {} => Head(u).do = "finishLease")
    <3> DEFINE op == call.op
               K == Touched
               do == "finishLease"
    <3>1. /\ \A w \in LoopWork(L, steps) : Permitted(op, K, w) /\ InOrder(op, w, KeyTask(do, None))
          /\ Permitted(op, K, KeyTask(do, None)) /\ do \in PlainDo
      BY <2>3, <2>6, <2>7
    <3> HIDE DEF op, K, do
    <3>2. /\ Head(LoopThen(L, steps, do)).do \in {"forEach", do}
          /\ L = {} => Head(LoopThen(L, steps, do)).do = do
      BY <2>2, <2>3, <3>1, LoopThenHead
    <3> QED BY <3>2 DEF op, K, do
  <2> HIDE DEF u
  <2>10. \A w \in Work(u) : w.do \in {"unmapIfClean", "finishLease"}
    BY <2>5, <2>8, WorkFields
  <2>11. \A w \in Work(u) : \/ Neutral(call.op, w) /\ Heir(Head(call.todo), w)
                            \/ Finishes(w, Tail(call.todo))
    <3>1. ListOK(call.op, Touched, call.todo)
      BY DEF CallInv, Proper
    <3>2. \A v \in WorkOf(Head(call.todo)), w \in Work(Tail(call.todo)) : InOrder(call.op, v, w)
      BY <1>3, <3>1, TailOK
    <3>3. \E v \in WorkOf(Head(call.todo)) : v.do \in {"poll", "wait"}
      BY <1>3, <3>1, TailOK, HeadWork
    <3>4. \A w \in Work(Tail(call.todo)) : w.do \notin LeaseDo
      BY <3>2, <3>3 DEF InOrder, LeaseDo, FirstDo, ShrinkEnd
    <3>5. ASSUME NEW w \in Work(u), w.do = "unmapIfClean" PROVE Neutral(call.op, w) /\ Heir(Head(call.todo), w)
      <4>1. Neutral(call.op, w)
        BY <1>4, <3>5 DEF Neutral, LastDo, LeaseDo, DiscardDo, Catch
      <4>2. Heir(Head(call.todo), w)
        BY <1>3, <3>5 DEF Heir, ShrinkDo, Catch, FirstDo, ShrinkEnd
      <4> QED BY <4>1, <4>2
    <3>6. ASSUME NEW w \in Work(u), w.do = "finishLease" PROVE Finishes(w, Tail(call.todo))
      BY <3>4, <3>6 DEF Finishes
    <3> QED BY <2>10, <3>5, <3>6
  <2>12. Tail(call.todo) # << >> => Follows(u[Len(u)], Head(Tail(call.todo)))
    BY <1>3, FollowsOn
  <2>13. CallInv' /\ Prepends(u, Tail(call.todo))
    BY <1>1, <1>3, <2>1, <2>8, <2>11, <2>12, PushOK
  <2>14. /\ Head(call'.todo).do \notin HeadDo \union {"pin"}
         /\ lease.seal # "cancelled" => Head(call'.todo).do = "finishLease"
    <3>1. CASE Head(u).do = "forEach"
      BY <2>4, <2>9, <2>13, <3>1 DEF Prepends, LoopDo, HeadDo
    <3>2. CASE Head(u).do = "finishLease"
      BY <2>13, <3>2 DEF Prepends, HeadDo
    <3>3. L = {} => Head(call'.todo).do = "finishLease"
      BY <2>9, <2>13 DEF Prepends
    <3> QED BY <2>4, <2>9, <3>1, <3>2, <3>3
  <2> QED BY <1>4, <1>6, <2>8, <2>10, <2>13, <2>14 DEF Prepends
<1> QED BY <1>5, <1>6

LEMMA CloseTask ==
  ASSUME TypeInv, CallInv, NEW do \in CloseDo, At(do)
  PROVE  /\ call \in CallRecord /\ call.op = "close" /\ Awaits(do)
         /\ call.todo # << >> /\ Head(call.todo).do = do
<1>1. call \in CallRecord /\ do \notin KeyDo \union {"d2h", "map", "forEach"}
  BY DEF TypeInv, CallOK, CloseDo, KeyDo, LoopDo
<1>2. Permitted(call.op, Touched, KeyTask(do, None)) /\ Awaits(do)
  BY <1>1, AtTask
<1> QED BY <1>1, <1>2, WorkFields DEF Permitted, At

LEMMA TogetherAgain ==
  \A a, b, c : /\ << >> \o <<c>> = <<c>> /\ <<a>> \o <<b>> = <<a, b>>
              /\ << >> \o << >> = << >> /\ <<a>> \o << >> = <<a>> /\ <<a, b>> \o <<c>> = <<a, b, c>>
<1> TAKE a, b, c
<1>1. << >> \o <<c>> = <<c>> /\ << >> \o << >> = << >> /\ <<a>> \o << >> = <<a>>
  <2>1. << >> \in Seq({a, c}) /\ <<c>> \in Seq({a, c}) /\ <<a>> \in Seq({a, c})
    OBVIOUS
  <2> QED BY <2>1, ConcatEmptySeq
<1>2. <<a>> \o <<b>> = <<a, b>>
  <2> DEFINE s == <<a>>
             t == <<b>>
             u == <<a, b>>
  <2>1. /\ s \in Seq({a, b}) /\ Len(s) = 1 /\ s[1] = a
        /\ t \in Seq({a, b}) /\ Len(t) = 1 /\ t[1] = b
        /\ u \in Seq({a, b}) /\ Len(u) = 2 /\ u[1] = a /\ u[2] = b
    OBVIOUS
  <2> HIDE DEF s, t, u
  <2>2. /\ s \o t \in Seq({a, b}) /\ Len(s \o t) = 2
        /\ \A i \in 1..2 : (s \o t)[i] = IF i <= 1 THEN s[i] ELSE t[i - 1]
    <3>1. /\ s \o t \in Seq({a, b}) /\ Len(s \o t) = Len(s) + Len(t)
          /\ \A i \in 1..Len(s) + Len(t) : (s \o t)[i] = IF i <= Len(s) THEN s[i] ELSE t[i - Len(s)]
      BY <2>1, ConcatProperties
    <3> QED BY <2>1, <3>1
  <2>3. \A i \in 1..2 : (s \o t)[i] = u[i]
    BY <2>1, <2>2
  <2>4. s \o t = u
    BY <2>1, <2>2, <2>3, SeqEqual
  <2> QED BY <2>4 DEF s, t, u
<1>3. <<a, b>> \o <<c>> = <<a, b, c>>
  <2> DEFINE s == <<a, b>>
             t == <<c>>
             u == <<a, b, c>>
  <2>1. /\ s \in Seq({a, b, c}) /\ Len(s) = 2 /\ s[1] = a /\ s[2] = b
        /\ t \in Seq({a, b, c}) /\ Len(t) = 1 /\ t[1] = c
        /\ u \in Seq({a, b, c}) /\ Len(u) = 3 /\ u[1] = a /\ u[2] = b /\ u[3] = c
    OBVIOUS
  <2> HIDE DEF s, t, u
  <2>2. /\ s \o t \in Seq({a, b, c}) /\ Len(s \o t) = 3
        /\ \A i \in 1..3 : (s \o t)[i] = IF i <= 2 THEN s[i] ELSE t[i - 2]
    <3>1. /\ s \o t \in Seq({a, b, c}) /\ Len(s \o t) = Len(s) + Len(t)
          /\ \A i \in 1..Len(s) + Len(t) : (s \o t)[i] = IF i <= Len(s) THEN s[i] ELSE t[i - Len(s)]
      BY <2>1, ConcatProperties
    <3> QED BY <2>1, <3>1
  <2>3. \A i \in 1..3 : (s \o t)[i] = u[i]
    BY <2>1, <2>2
  <2>4. s \o t = u
    BY <2>1, <2>2, <2>3, SeqEqual
  <2> QED BY <2>4 DEF s, t, u
<1> QED BY <1>1, <1>2, <1>3

LEMMA CloseFrameCall ==
  ASSUME TypeInv, CallInv, NEW f \in Frame, CloseFrame(f)
  PROVE  CallInv' /\ call.op = "close" /\ (Leads(Tail(call.todo)) \/ Detour)
<1>1. At("closeFrame")
  BY DEF CloseFrame, AtFrame
<1>2. /\ call \in CallRecord /\ call.op = "close"
      /\ call.todo # << >> /\ Head(call.todo).do = "closeFrame"
  BY <1>1, CloseTask DEF CloseDo
<1>3. CASE Continue
  BY <1>2, <1>3, ContinueOK
<1>4. CASE ~Continue
  <2> DEFINE k == frame[f].key
             a == KeyTask("writeback", k)
             b == KeyTask("unmap", k)
             c == FrameTask("closeCheck", f)
  <2>1. /\ Mapped(f)
        /\ Push((IF chunk[k].state = "resident_dirty" THEN <<a>> ELSE << >>)
                  \o (IF IsResident(chunk[k]) THEN <<b>> ELSE << >>) \o <<c>>)
    BY <1>4 DEF CloseFrame
  <2>2. k \in Key /\ f \in Nat
    BY <2>1, FrameTypes DEF Mapped, TypeInv, DataInv, TypeOK
  <2>3. /\ Fine(call.op, Touched, a) /\ Fine(call.op, Touched, b) /\ Fine(call.op, Touched, c)
        /\ a.do = "writeback" /\ a.key = b.key /\ b.do = "unmap" /\ c.do = "closeCheck"
    <3>1. Fine(call.op, Touched, a) /\ Fine(call.op, Touched, b)
      BY <2>2, FineTasks
    <3>2. Fine(call.op, Touched, c)
      BY <1>2, <2>2, FineTasks
    <3>3. a.do = "writeback" /\ a.key = b.key /\ b.do = "unmap" /\ c.do = "closeCheck"
      BY DEF KeyTask, FrameTask
    <3> QED BY <3>1, <3>2, <3>3
  <2>4. /\ a.do \in DetourDo /\ b.do \in DetourDo /\ c.do \in DetourDo
        /\ \A w \in WorkOf(a) \union WorkOf(b) \union WorkOf(c) :
              w.do \in DetourDo /\ Heir(Head(call.todo), w)
    <3> DEFINE h == Head(call.todo)
    <3>1. h.do = "closeFrame" /\ h.do # "unmapIfClean" /\ h.do \notin ShrinkDo
      BY <1>2 DEF ShrinkDo
    <3> HIDE DEF h
    <3>2. \A w \in WorkOf(a) \union WorkOf(b) \union WorkOf(c) : Heir(h, w)
      BY <2>2, <3>1, HeirWork
    <3> QED BY <2>2, <3>2, DetourWork DEF h
  <2>5. PICK p \in {<<c>>, <<b, c>>, <<a, c>>, <<a, b, c>>} : Push(p)
    <3> HIDE DEF a, b, c
    <3>1. << >> \o << >> \o <<c>> = <<c>> /\ << >> \o <<b>> \o <<c>> = <<b, c>>
      <4>1. << >> \o << >> = << >> /\ << >> \o <<b>> = <<b>>
        BY TogetherAgain
      <4>2. << >> \o <<c>> = <<c>> /\ <<b>> \o <<c>> = <<b, c>>
        BY TogetherAgain
      <4> QED BY <4>1, <4>2
    <3>2. <<a>> \o << >> \o <<c>> = <<a, c>> /\ <<a>> \o <<b>> \o <<c>> = <<a, b, c>>
      <4>1. <<a>> \o << >> = <<a>> /\ <<a>> \o <<b>> = <<a, b>>
        BY TogetherAgain
      <4>2. <<a>> \o <<c>> = <<a, c>> /\ <<a, b>> \o <<c>> = <<a, b, c>>
        BY TogetherAgain
      <4> QED BY <4>1, <4>2
    <3> QED BY <2>1, <3>1, <3>2
  <2> HIDE DEF a, b, c
  <2>6. /\ b.do \notin HeadDo \union Catch \union ShrinkEnd
        /\ c.do \notin HeadDo \union ShrinkEnd \union {"unmap"}
        /\ a.do \notin Catch /\ a.do \in CleaningDo
    BY <2>3 DEF HeadDo, Catch, ShrinkEnd, CleaningDo
  <2>7. /\ ListOK(call.op, Touched, p) /\ \A w \in Work(p) : Neutral(call.op, w)
        /\ p # << >> /\ Head(p) \in {a, b, c} /\ p[Len(p)] = c
        /\ \A w \in Work(p) : w.do \in DetourDo /\ Heir(Head(call.todo), w)
    <3>1. CASE p = <<c>>
      <4>1. /\ ListOK(call.op, Touched, <<c>>) /\ \A w \in Work(<<c>>) : Neutral(call.op, w)
            /\ <<c>> # << >> /\ Head(<<c>>) = c /\ <<c>>[Len(<<c>>)] = c
        BY <2>3, OneTask
      <4>2. \A w \in Work(<<c>>) : w.do \in DetourDo /\ Heir(Head(call.todo), w)
        BY <2>4, WorkOfLists
      <4> QED BY <3>1, <4>1, <4>2
    <3>2. CASE p = <<b, c>>
      <4>1. /\ ListOK(call.op, Touched, <<b, c>>) /\ \A w \in Work(<<b, c>>) : Neutral(call.op, w)
            /\ <<b, c>> # << >> /\ Head(<<b, c>>) = b /\ <<b, c>>[Len(<<b, c>>)] = c
        BY <2>3, <2>6, TwoTasks
      <4>2. \A w \in Work(<<b, c>>) : w.do \in DetourDo /\ Heir(Head(call.todo), w)
        BY <2>4, WorkOfLists
      <4> QED BY <3>2, <4>1, <4>2
    <3>3. CASE p = <<a, c>>
      BY <2>3, <2>4, <2>6, <3>3, TwoTasks, WorkOfLists
    <3>4. CASE p = <<a, b, c>>
      BY <2>3, <2>4, <2>6, <3>4, ThreeTasks, WorkOfLists
    <3> QED BY <2>5, <3>1, <3>2, <3>3, <3>4
  <2>8. Tail(call.todo) # << >> => Follows(p[Len(p)], Head(Tail(call.todo)))
    <3>1. Head(call.todo).do \notin {"fail", "ensure", "map", "h2d"} \union CleaningDo
      BY <1>2 DEF CleaningDo
    <3> QED BY <1>2, <3>1, FollowsOn
  <2> QED BY <1>2, <2>4, <2>5, <2>7, <2>8, DetourOK
<1> QED BY <1>3, <1>4

LEMMA NothingLeft ==
  ASSUME call' = NoCall
  PROVE  CallInv' /\ Work(call'.todo) = {}
BY IdleProper DEF CallInv

LEMMA DropSpillsCall ==
  ASSUME TypeInv, CallInv, DropSpills
  PROVE  /\ CallInv' /\ call.op = "acquire" /\ Tail(call.todo) = << >> /\ call.todo # << >>
         /\ \/ call' = NoCall
            \/ /\ call'.op = call.op /\ call'.plan = call.plan /\ call'.todo # << >>
               /\ Work(call'.todo) = {KeyTask("forceRefresh", None)}
               /\ Head(call'.todo).do = "forceRefresh"
<1>1. call \in CallRecord /\ At("dropSpills")
  BY DEF TypeInv, CallOK, DropSpills
<1>2. call.todo # << >> /\ Head(call.todo).do = "dropSpills" /\ Tail(call.todo) = << >>
  BY <1>1, LastTask DEF At, LastDo
<1>3. call.op = "acquire"
  <2>1. Permitted(call.op, Touched, KeyTask("dropSpills", None))
    BY <1>1, AtTask DEF KeyDo, LoopDo
  <2> QED BY <2>1, WorkFields DEF Permitted, AcquireDo
<1> DEFINE u == <<Task("forceRefresh")>>
<1>4. Goto(u) \/ Goto(<< >>)
  BY DEF DropSpills
<1>5. CASE Goto(u)
  <2>1. "forceRefresh" \in PlainDo /\ Permitted("acquire", Touched, KeyTask("forceRefresh", None))
    BY WorkFields DEF PlainDo, Permitted, AcquireDo, LeaseDo, CloseDo, FetchDo, DiscardDo, OfPlan
  <2>2. ListOK("acquire", Touched, u) /\ Work(u) = {KeyTask("forceRefresh", None)}
    BY <2>1, PlainTask
  <2>3. u # << >> /\ Head(u).do = "forceRefresh"
    BY DEF Task
  <2> HIDE DEF u
  <2>4. Proper("acquire", Touched, u)
    BY <2>2, WorkFields DEF Proper
  <2>5. CallInv' /\ Leads(u)
    BY <1>1, <1>3, <1>5, <2>4, GotoOK
  <2> QED BY <1>2, <1>3, <2>2, <2>3, <2>5 DEF Leads
<1>6. CASE Goto(<< >>)
  BY <1>2, <1>3, <1>6, NothingLeft DEF Goto
<1> QED BY <1>4, <1>5, <1>6

-----------------------------------------------------------------------------
(* The calls of the clients. *)

(* No chunk is pinned or unmapped by a task of the list itself. *)
Calm(op, K, s) == ListOK(op, K, s) /\ \A i \in DOMAIN s : s[i].do \notin {"pin", "unmap"}

LEMMA CalmConcat ==
  ASSUME NEW op, NEW K, NEW p, NEW s, Calm(op, K, p), Calm(op, K, s),
         \A v \in Work(p), w \in Work(s) : InOrder(op, v, w)
  PROVE  /\ Calm(op, K, p \o s)
         /\ p # << >> \/ s # << >> => p \o s # << >>
<1>1. /\ p \in Seq(Tasks) /\ s \in Seq(Tasks)
      /\ Len(p) \in Nat /\ Len(s) \in Nat /\ DOMAIN p = 1..Len(p) /\ DOMAIN s = 1..Len(s)
  BY DEF Calm, ListOK
<1>2. s # << >> => Head(s).do \notin {"pin", "unmap"}
  <2> SUFFICES ASSUME s # << >> PROVE Head(s).do \notin {"pin", "unmap"}
    OBVIOUS
  <2>1. Len(s) # 0 /\ Head(s) = s[1]
    BY <1>1, EmptySeq, HeadTailProperties
  <2>2. 1 \in DOMAIN s
    BY <1>1, <2>1
  <2> QED BY <2>1, <2>2 DEF Calm
<1>3. Fits(op, p, s)
  BY <1>2 DEF Fits, Follows
<1>4. ListOK(op, K, p \o s)
  BY <1>3, ConcatOK DEF Calm
<1> DEFINE u == p \o s
<1>5. /\ u \in Seq(Tasks) /\ Len(u) = Len(p) + Len(s)
      /\ \A i \in 1..(Len(p) + Len(s)) :
           u[i] = IF i <= Len(p) THEN p[i] ELSE s[i - Len(p)]
  BY <1>1, ConcatProperties
<1> HIDE DEF u
<1>6. \A i \in DOMAIN u : u[i].do \notin {"pin", "unmap"}
  <2> TAKE i \in DOMAIN u
  <2>1. i \in 1..(Len(p) + Len(s))
    BY <1>5
  <2>2. CASE i <= Len(p)
    BY <1>1, <1>5, <2>1, <2>2 DEF Calm
  <2>3. CASE ~(i <= Len(p))
    <3>1. i - Len(p) \in DOMAIN s /\ u[i] = s[i - Len(p)]
      BY <1>1, <1>5, <2>1, <2>3
    <3> QED BY <3>1 DEF Calm
  <2> QED BY <2>2, <2>3
<1>7. p # << >> => Len(p) # 0
  BY <1>1, EmptySeq
<1>8. s # << >> => Len(s) # 0
  BY <1>1, EmptySeq
<1>9. Len(<< >>) = 0
  OBVIOUS
<1>10. p # << >> \/ s # << >> => u # << >>
  BY <1>1, <1>5, <1>7, <1>8, <1>9
<1> QED BY <1>4, <1>6, <1>10 DEF Calm, u

LEMMA CalmForEach ==
  ASSUME NEW op, NEW K, NEW L \in SUBSET Key, NEW steps \in LoopForms,
         \A w \in LoopWork(L, steps) : Permitted(op, K, w)
  PROVE  /\ Calm(op, K, ForEach(L, steps))
         /\ Work(ForEach(L, steps)) = LoopWork(L, steps)
         /\ L # {} => ForEach(L, steps) # << >>
<1>1. /\ ListOK(op, K, ForEach(L, steps))
      /\ Work(ForEach(L, steps)) = LoopWork(L, steps)
      /\ L # {} => ForEach(L, steps) # << >>
  BY ForEachOK
<1>2. \A i \in DOMAIN ForEach(L, steps) : ForEach(L, steps)[i].do \notin {"pin", "unmap"}
  BY DEF ForEach
<1> QED BY <1>1, <1>2 DEF Calm

LEMMA CalmTask ==
  ASSUME NEW op, NEW K, NEW do \in PlainDo, Permitted(op, K, KeyTask(do, None))
  PROVE  /\ Calm(op, K, <<Task(do)>>) /\ Work(<<Task(do)>>) = {KeyTask(do, None)}
         /\ <<Task(do)>> # << >>
<1>1. ListOK(op, K, <<Task(do)>>) /\ Work(<<Task(do)>>) = {KeyTask(do, None)}
  BY PlainTask
<1>2. \A i \in DOMAIN <<Task(do)>> : <<Task(do)>>[i].do \notin {"pin", "unmap"}
  BY DEF Task, PlainDo
<1> QED BY <1>1, <1>2 DEF Calm

LEMMA CalmEmpty ==
  ASSUME NEW op, NEW K
  PROVE  Calm(op, K, << >>) /\ Work(<< >>) = {}
BY EmptyOK DEF Calm

(* What no call begins with: it has neither a copy to complete nor a lease *)
(* to roll back or to finish.                                              *)
LateDo == {"prepare", "pin", "arm", "rollback", "dropSpills", "finishLease", "create"}
            \union HeadDo \union ShrinkEnd
Opens(op, plan) ==
  /\ call'.op = op /\ call'.plan = plan /\ call'.todo # << >>
  /\ \A w \in Work(call'.todo) : w.do \notin LateDo
  /\ Head(call'.todo).do \notin HeadDo \union {"pin"}

LEMMA BeginOK ==
  ASSUME NEW op, NEW plan, NEW val, NEW s, s # << >>, Calm(op, DOMAIN plan, s),
         \A w \in Work(s) : w.do \notin LateDo, Begin(op, plan, val, s)
  PROVE  CallInv' /\ Opens(op, plan) /\ Work(call'.todo) = Work(s)
<1>1. /\ ListOK(op, DOMAIN plan, Unrolled(s)) /\ Work(Unrolled(s)) = Work(s)
      /\ Unrolled(s) # << >>
      /\ Head(s).do # "forEach" => Unrolled(s) = s
      /\ Head(s).do = "forEach" => Head(Unrolled(s)).do \in LoopDo \ {"pin", "invalidate"}
  BY UnrolledOK DEF Calm
<1>2. call' = [op |-> op, todo |-> Unrolled(s), failure |-> "none", plan |-> plan, val |-> val]
  BY DEF Begin
<1>3. call'.op = op /\ call'.plan = plan /\ call'.todo = Unrolled(s)
  BY <1>2
<1>4. Touched' = DOMAIN plan
  BY <1>3 DEF Touched, Plan
<1>5. Head(s).do # "forEach" => Head(s).do \notin HeadDo \union {"pin"}
  <2> SUFFICES ASSUME Head(s).do # "forEach" PROVE Head(s).do \notin HeadDo \union {"pin"}
    OBVIOUS
  <2>1. s \in Seq(Tasks) /\ Head(s) \in Tasks /\ Head(s) = s[1] /\ 1 \in DOMAIN s
    <3>1. s \in Seq(Tasks)
      BY DEF Calm, ListOK
    <3>2. Len(s) \in Nat /\ Len(s) # 0 /\ DOMAIN s = 1..Len(s)
      BY <3>1, EmptySeq
    <3> QED BY <3>1, <3>2, HeadTailProperties
  <2>2. PICK v \in WorkOf(Head(s)) : v.do = Head(s).do
    BY <2>1, HeadWork
  <2>3. v \in Work(s)
    BY <2>1, InWork
  <2> QED BY <2>2, <2>3 DEF LateDo
<1>6. Head(Unrolled(s)).do \notin HeadDo \union {"pin"}
  BY <1>1, <1>5 DEF LoopDo, HeadDo
<1>7. \A do \in LateDo : \A k : KeyTask(do, k) \notin Work(s)
  BY WorkFields
<1>8. Proper(op, DOMAIN plan, Unrolled(s))
  BY <1>1, <1>7 DEF Proper, LateDo
<1> QED BY <1>1, <1>3, <1>4, <1>6, <1>8 DEF CallInv, Opens


LEMMA ReleaseCall ==
  ASSUME TypeInv, CallInv, NEW a \in Alloc, Release(a)
  PROVE  /\ CallInv' /\ Opens("release", [k \in KeysOf(a) |-> "full"])
         /\ \A k \in KeysOf(a) : /\ KeyTask("unmapIfClean", k) \in Work(call'.todo)
                                 /\ KeyTask("writebackIfDirty", k) \in Work(call'.todo)
<1> DEFINE K == KeysOf(a)
           plan == [k \in K |-> "full"]
           steps == <<"writebackIfDirty", "unmapIfClean">>
           p == ForEach(K, steps)
           q == <<Task("erase")>>
<1>1. Begin("release", plan, Zero, p \o q)
  BY DEF Release, FlushAndUnmap
<1>2. /\ K \in SUBSET Key /\ DOMAIN plan = K /\ steps \in LoopForms /\ DOMAIN steps = {1, 2}
      /\ steps[1] = "writebackIfDirty" /\ steps[2] = "unmapIfClean"
  BY PlanTypes DEF LoopForms
<1> HIDE DEF K, plan, steps
<1>3. \A w \in LoopWork(K, steps) : w.do \in {"writebackIfDirty", "unmapIfClean"}
  BY <1>2, WorkFields DEF LoopWork
<1>4. \A w \in LoopWork(K, steps) : Permitted("release", K, w)
  BY <1>3 DEF Permitted, AcquireDo, LeaseDo, CloseDo, FetchDo, DiscardDo, OfPlan
<1>5. Calm("release", K, p) /\ Work(p) = LoopWork(K, steps)
  BY <1>2, <1>4, CalmForEach
<1>6. Calm("release", K, q) /\ Work(q) = {KeyTask("erase", None)} /\ q # << >>
  <2> DEFINE do == "erase"
  <2>1. do \in PlainDo /\ Permitted("release", K, KeyTask(do, None))
    BY WorkFields DEF PlainDo, Permitted, AcquireDo, LeaseDo, CloseDo, FetchDo, DiscardDo, OfPlan
  <2> HIDE DEF do
  <2>2. Calm("release", K, <<Task(do)>>) /\ Work(<<Task(do)>>) = {KeyTask(do, None)} /\ <<Task(do)>> # << >>
    BY <2>1, CalmTask
  <2> QED BY <2>2 DEF do
<1> HIDE DEF p, q
<1>7. \A v \in Work(p), w \in Work(q) : InOrder("release", v, w)
  BY <1>3, <1>5, <1>6, WorkFields DEF InOrder, LastDo, HeadDo, Catch, CopyingDo, FirstDo, ShrinkEnd
<1>8. Calm("release", K, p \o q) /\ p \o q # << >>
  BY <1>5, <1>6, <1>7, CalmConcat
<1> DEFINE s == p \o q
<1>9. s # << >> /\ Calm("release", DOMAIN plan, s) /\ Begin("release", plan, Zero, s)
  BY <1>1, <1>2, <1>8
<1>10. Work(s) = LoopWork(K, steps) \union {KeyTask("erase", None)}
  <2>1. p \in Seq(Tasks) /\ q \in Seq(Tasks)
    BY <1>5, <1>6 DEF Calm, ListOK
  <2> QED BY <1>5, <1>6, <2>1, WorkConcat
<1> HIDE DEF s
<1>11. \A w \in Work(s) : w.do \notin LateDo
  BY <1>3, <1>10, WorkFields DEF LateDo, HeadDo, FirstDo, ShrinkEnd
<1>12. CallInv' /\ Opens("release", plan) /\ Work(call'.todo) = Work(s)
  BY <1>9, <1>11, BeginOK
<1>13. \A k \in K : /\ KeyTask("unmapIfClean", k) \in LoopWork(K, steps)
                    /\ KeyTask("writebackIfDirty", k) \in LoopWork(K, steps)
  BY <1>2 DEF LoopWork
<1> QED BY <1>10, <1>12, <1>13 DEF plan, K

LEMMA DiscardCall ==
  ASSUME TypeInv, CallInv, NEW a \in Alloc, NEW plan \in RangePlans(a, {"full"}), DiscardDead(a, plan)
  PROVE  CallInv' /\ Opens("discard", plan)
<1> DEFINE K == DOMAIN plan
           steps == <<"unmapIfClean", "dropDirty", "invalidate">>
           s == ForEach(K, steps)
<1>1. Begin("discard", plan, Zero, s)
  BY DEF DiscardDead
<1>2. K \in SUBSET Key /\ K # {}
  BY PlanTypes
<1>3. /\ steps \in LoopForms /\ DOMAIN steps = {1, 2, 3}
      /\ steps[1] = "unmapIfClean" /\ steps[2] = "dropDirty" /\ steps[3] = "invalidate"
  BY DEF LoopForms
<1> HIDE DEF K, steps
<1>4. \A w \in LoopWork(K, steps) : w.do \in {"unmapIfClean", "dropDirty", "invalidate"}
  BY <1>3, WorkFields DEF LoopWork
<1>5. \A w \in LoopWork(K, steps) : Permitted("discard", K, w)
  BY <1>4 DEF Permitted, AcquireDo, LeaseDo, CloseDo, FetchDo, DiscardDo, OfPlan
<1>6. Calm("discard", K, s) /\ Work(s) = LoopWork(K, steps) /\ s # << >>
  BY <1>2, <1>3, <1>5, CalmForEach
<1> HIDE DEF s
<1>7. \A w \in Work(s) : w.do \notin LateDo
  BY <1>4, <1>6 DEF LateDo, HeadDo, FirstDo, ShrinkEnd
<1>8. CallInv' /\ Opens("discard", plan) /\ Work(call'.todo) = Work(s)
  BY <1>1, <1>6, <1>7, BeginOK DEF K
<1> QED BY <1>8

LEMMA WriteCall ==
  ASSUME TypeInv, CallInv, NEW a \in Alloc, NEW plan \in RangePlans(a, {"full", "part"}),
         NEW v \in Val, Write(a, plan, v)
  PROVE  /\ CallInv' /\ Opens("write", plan)
         /\ \A k \in DOMAIN plan : /\ KeyTask("unmapIfClean", k) \in Work(call'.todo)
                                   /\ KeyTask("writebackIfDirty", k) \in Work(call'.todo)
<1> DEFINE K == DOMAIN plan
           steps == <<"writebackIfDirty", "unmapIfClean">>
           puts == <<"put">>
           p == ForEach(K, steps)
           q == <<Task("checkSources")>>
           r == ForEach(K, puts)
<1>1. Begin("write", plan, v, p \o q \o r)
  BY DEF Write, FlushAndUnmap
<1>2. /\ K \in SUBSET Key /\ steps \in LoopForms /\ DOMAIN steps = {1, 2}
      /\ steps[1] = "writebackIfDirty" /\ steps[2] = "unmapIfClean"
      /\ puts \in LoopForms /\ DOMAIN puts = {1} /\ puts[1] = "put"
  BY PlanTypes DEF LoopForms
<1> HIDE DEF K, steps, puts
<1>3. \A w \in LoopWork(K, steps) : w.do \in {"writebackIfDirty", "unmapIfClean"}
  BY <1>2, WorkFields DEF LoopWork
<1>4. \A w \in LoopWork(K, puts) : w.do = "put" /\ w.key \in K
  BY <1>2, WorkFields DEF LoopWork
<1>5. Calm("write", K, p) /\ Work(p) = LoopWork(K, steps)
  <2>1. \A w \in LoopWork(K, steps) : Permitted("write", K, w)
    BY <1>3 DEF Permitted, AcquireDo, LeaseDo, CloseDo, FetchDo, DiscardDo, OfPlan
  <2> QED BY <2>1, <1>2, CalmForEach
<1>6. Calm("write", K, r) /\ Work(r) = LoopWork(K, puts)
  <2>1. \A w \in LoopWork(K, puts) : Permitted("write", K, w)
    BY <1>4 DEF Permitted, AcquireDo, LeaseDo, CloseDo, FetchDo, DiscardDo, OfPlan
  <2> QED BY <2>1, <1>2, CalmForEach
<1>7. Calm("write", K, q) /\ Work(q) = {KeyTask("checkSources", None)} /\ q # << >>
  <2> DEFINE do == "checkSources"
  <2>1. do \in PlainDo /\ Permitted("write", K, KeyTask(do, None))
    BY WorkFields DEF PlainDo, Permitted, AcquireDo, LeaseDo, CloseDo, FetchDo, DiscardDo, OfPlan
  <2> HIDE DEF do
  <2>2. Calm("write", K, <<Task(do)>>) /\ Work(<<Task(do)>>) = {KeyTask(do, None)} /\ <<Task(do)>> # << >>
    BY <2>1, CalmTask
  <2> QED BY <2>2 DEF do
<1> HIDE DEF p, q, r
<1>8. \A x \in Work(p), w \in Work(q) : InOrder("write", x, w)
  BY <1>3, <1>5, <1>7, WorkFields DEF InOrder, LastDo, HeadDo, Catch, CopyingDo, FirstDo, ShrinkEnd
<1>9. Calm("write", K, p \o q) /\ p \o q # << >>
  BY <1>5, <1>7, <1>8, CalmConcat
<1> DEFINE pq == p \o q
<1>10. Calm("write", K, pq) /\ Work(pq) = Work(p) \union Work(q) /\ pq # << >>
  <2>1. p \in Seq(Tasks) /\ q \in Seq(Tasks)
    BY <1>5, <1>7 DEF Calm, ListOK
  <2>2. Work(pq) = Work(p) \union Work(q)
    BY <2>1, WorkConcat
  <2> QED BY <1>9, <2>2
<1> HIDE DEF pq
<1>11. \A x \in Work(pq), w \in Work(r) : InOrder("write", x, w)
  <2>1. \A x \in Work(pq) : x.do \in {"writebackIfDirty", "unmapIfClean", "checkSources"}
    BY <1>3, <1>5, <1>7, <1>10, WorkFields
  <2>2. \A w \in Work(r) : w.do = "put"
    BY <1>4, <1>6
  <2>3. \A k : KeyTask("writebackIfDirty", k).do = "writebackIfDirty"
    BY WorkFields
  <2> QED BY <2>1, <2>2, <2>3 DEF InOrder, LastDo, HeadDo, Catch, CopyingDo, FirstDo, ShrinkEnd
<1>12. Calm("write", K, pq \o r) /\ pq \o r # << >>
  BY <1>6, <1>10, <1>11, CalmConcat
<1> DEFINE s == pq \o r
<1>13. s # << >> /\ Calm("write", DOMAIN plan, s) /\ Begin("write", plan, v, s)
  BY <1>1, <1>12 DEF pq, K
<1>14. Work(s) = LoopWork(K, steps) \union {KeyTask("checkSources", None)} \union LoopWork(K, puts)
  <2>1. pq \in Seq(Tasks) /\ r \in Seq(Tasks)
    BY <1>6, <1>10 DEF Calm, ListOK
  <2>2. Work(s) = Work(pq) \union Work(r)
    BY <2>1, WorkConcat
  <2> QED BY <1>5, <1>6, <1>7, <1>10, <2>2
<1> HIDE DEF s
<1>15. \A w \in Work(s) : w.do \notin LateDo
  BY <1>3, <1>4, <1>14, WorkFields DEF LateDo, HeadDo, FirstDo, ShrinkEnd
<1>16. CallInv' /\ Opens("write", plan) /\ Work(call'.todo) = Work(s)
  BY <1>13, <1>15, BeginOK
<1>17. \A k \in K : /\ KeyTask("unmapIfClean", k) \in LoopWork(K, steps)
                    /\ KeyTask("writebackIfDirty", k) \in LoopWork(K, steps)
  BY <1>2 DEF LoopWork
<1> QED BY <1>14, <1>16, <1>17 DEF K


(* A call whose tasks come in three parts. *)
LEMMA BeginParts ==
  ASSUME NEW op, NEW plan, NEW val, NEW p, NEW q, NEW r,
         Calm(op, DOMAIN plan, p), Calm(op, DOMAIN plan, q), Calm(op, DOMAIN plan, r),
         \A v \in Work(p), w \in Work(q) : InOrder(op, v, w),
         \A v \in Work(p), w \in Work(r) : InOrder(op, v, w),
         \A v \in Work(q), w \in Work(r) : InOrder(op, v, w),
         \A w \in Work(p) : w.do \notin LateDo, \A w \in Work(q) : w.do \notin LateDo,
         \A w \in Work(r) : w.do \notin LateDo,
         p # << >> \/ q # << >> \/ r # << >>,
         Begin(op, plan, val, p \o q \o r)
  PROVE  /\ CallInv' /\ Opens(op, plan)
         /\ Work(call'.todo) = Work(p) \union Work(q) \union Work(r)
<1>1. p \in Seq(Tasks) /\ q \in Seq(Tasks) /\ r \in Seq(Tasks)
  BY DEF Calm, ListOK
<1> DEFINE pq == p \o q
<1>2. pq \in Seq(Tasks)
  BY <1>1, ConcatProperties
<1>3. Calm(op, DOMAIN plan, pq) /\ (p # << >> \/ q # << >> => pq # << >>)
  BY CalmConcat
<1>4. Work(pq) = Work(p) \union Work(q)
  BY <1>1, WorkConcat
<1> DEFINE s == pq \o r
<1>5. Begin(op, plan, val, s)
  OBVIOUS
<1> HIDE DEF pq
<1>6. \A v \in Work(pq), w \in Work(r) : InOrder(op, v, w)
  BY <1>4
<1>7. Calm(op, DOMAIN plan, s) /\ (pq # << >> \/ r # << >> => s # << >>)
  BY <1>3, <1>6, CalmConcat
<1>8. Work(s) = Work(pq) \union Work(r)
  BY <1>1, <1>2, WorkConcat
<1> HIDE DEF s
<1>9. s # << >>
  BY <1>3, <1>7
<1>10. \A w \in Work(s) : w.do \notin LateDo
  BY <1>4, <1>8
<1>11. CallInv' /\ Opens(op, plan) /\ Work(call'.todo) = Work(s)
  BY <1>5, <1>7, <1>9, <1>10, BeginOK
<1> QED BY <1>4, <1>8, <1>11

LEMMA ReadCall ==
  ASSUME TypeInv, CallInv, NEW a \in Alloc, NEW plan \in RangePlans(a, {"part"}), Read(a, plan)
  PROVE  CallInv' /\ Opens("read", plan)
<1> DEFINE K == DOMAIN plan
           flush == <<"writebackIfDirty">>
           gets == <<"get">>
           p == ForEach(K, flush)
           q == <<Task("checkSources")>>
           r == ForEach(K, gets)
<1>1. Begin("read", plan, Zero, p \o q \o r)
  BY DEF Read, Flush
<1>2. /\ K \in SUBSET Key /\ flush \in LoopForms /\ DOMAIN flush = {1} /\ flush[1] = "writebackIfDirty"
      /\ gets \in LoopForms /\ DOMAIN gets = {1} /\ gets[1] = "get"
  BY PlanTypes DEF LoopForms
<1> HIDE DEF K, flush, gets
<1>3. \A w \in LoopWork(K, flush) : w.do = "writebackIfDirty"
  BY <1>2, WorkFields DEF LoopWork
<1>4. \A w \in LoopWork(K, gets) : w.do = "get"
  BY <1>2, WorkFields DEF LoopWork
<1>5. Calm("read", K, p) /\ Work(p) = LoopWork(K, flush)
  <2>1. \A w \in LoopWork(K, flush) : Permitted("read", K, w)
    BY <1>3 DEF Permitted, AcquireDo, LeaseDo, CloseDo, FetchDo, DiscardDo, OfPlan
  <2> QED BY <2>1, <1>2, CalmForEach
<1>6. Calm("read", K, r) /\ Work(r) = LoopWork(K, gets)
  <2>1. \A w \in LoopWork(K, gets) : Permitted("read", K, w)
    BY <1>4 DEF Permitted, AcquireDo, LeaseDo, CloseDo, FetchDo, DiscardDo, OfPlan
  <2> QED BY <2>1, <1>2, CalmForEach
<1>7. Calm("read", K, q) /\ Work(q) = {KeyTask("checkSources", None)} /\ q # << >>
  <2> DEFINE do == "checkSources"
  <2>1. do \in PlainDo /\ Permitted("read", K, KeyTask(do, None))
    BY WorkFields DEF PlainDo, Permitted, AcquireDo, LeaseDo, CloseDo, FetchDo, DiscardDo, OfPlan
  <2> HIDE DEF do
  <2>2. Calm("read", K, <<Task(do)>>) /\ Work(<<Task(do)>>) = {KeyTask(do, None)} /\ <<Task(do)>> # << >>
    BY <2>1, CalmTask
  <2> QED BY <2>2 DEF do
<1> HIDE DEF p, q, r
<1>8. /\ \A w \in Work(p) : w.do = "writebackIfDirty"
      /\ \A w \in Work(q) : w.do = "checkSources"
      /\ \A w \in Work(r) : w.do = "get"
  BY <1>3, <1>4, <1>5, <1>6, <1>7, WorkFields
<1>9. /\ \A v \in Work(p), w \in Work(q) : InOrder("read", v, w)
      /\ \A v \in Work(p), w \in Work(r) : InOrder("read", v, w)
      /\ \A v \in Work(q), w \in Work(r) : InOrder("read", v, w)
  BY <1>8 DEF InOrder, LastDo, HeadDo, Catch, CopyingDo, FirstDo, ShrinkEnd
<1>10. /\ \A w \in Work(p) : w.do \notin LateDo
       /\ \A w \in Work(q) : w.do \notin LateDo
       /\ \A w \in Work(r) : w.do \notin LateDo
  BY <1>8 DEF LateDo, HeadDo, FirstDo, ShrinkEnd
<1> QED BY <1>1, <1>5, <1>6, <1>7, <1>9, <1>10, BeginParts DEF K

(* The first tasks of a call that brings chunks to the device. *)
LEMMA FetchParts ==
  ASSUME NEW op \in {"prefetch", "acquire"}, NEW K
  PROVE  /\ Calm(op, K, <<Task("refresh")>>) /\ Calm(op, K, <<Task("checkCapacity")>>)
         /\ Work(<<Task("refresh")>>) = {KeyTask("refresh", None)}
         /\ Work(<<Task("checkCapacity")>>) = {KeyTask("checkCapacity", None)}
<1>1. ASSUME NEW do \in {"refresh", "checkCapacity"}
      PROVE  Calm(op, K, <<Task(do)>>) /\ Work(<<Task(do)>>) = {KeyTask(do, None)}
  <2>1. do \in PlainDo /\ Permitted(op, K, KeyTask(do, None))
    BY WorkFields DEF PlainDo, Permitted, AcquireDo, LeaseDo, CloseDo, FetchDo, DiscardDo, OfPlan
  <2> QED BY <2>1, CalmTask
<1> QED BY <1>1

LEMMA PrefetchCall ==
  ASSUME TypeInv, CallInv, NEW plan \in Plans(LiveKeys, PrefetchModes), Prefetch(plan)
  PROVE  CallInv' /\ Opens("prefetch", plan)
<1> DEFINE K == DOMAIN plan
           steps == <<"ensure">>
           p == <<Task("refresh")>>
           q == <<Task("checkCapacity")>>
           r == ForEach(K, steps)
<1>1. Begin("prefetch", plan, Zero, <<Task("refresh"), Task("checkCapacity")>> \o r)
  BY DEF Prefetch
<1>2. p \o q = <<Task("refresh"), Task("checkCapacity")>>
  BY TogetherAgain
<1>3. /\ K \in SUBSET Key /\ K # {} /\ steps \in LoopForms /\ DOMAIN steps = {1} /\ steps[1] = "ensure"
  <2>1. PrefetchModes \in SUBSET (Mode \union {"full", "part"}) /\ LiveKeys \in SUBSET Key
    BY RuntimeAssumption, PlanTypes
  <2> QED BY <2>1, PlanTypes DEF LoopForms
<1>4. /\ Calm("prefetch", K, p) /\ Calm("prefetch", K, q)
      /\ Work(p) = {KeyTask("refresh", None)} /\ Work(q) = {KeyTask("checkCapacity", None)}
  <2> DEFINE op == "prefetch"
  <2>1. op \in {"prefetch", "acquire"}
    OBVIOUS
  <2> HIDE DEF op
  <2>2. /\ Calm(op, K, <<Task("refresh")>>) /\ Calm(op, K, <<Task("checkCapacity")>>)
        /\ Work(<<Task("refresh")>>) = {KeyTask("refresh", None)}
        /\ Work(<<Task("checkCapacity")>>) = {KeyTask("checkCapacity", None)}
    BY <2>1, FetchParts
  <2> QED BY <2>2 DEF op
<1> HIDE DEF K, steps
<1>5. \A w \in LoopWork(K, steps) : w.do = "ensure" /\ w.key \in K
  BY <1>3, WorkFields DEF LoopWork
<1>6. Calm("prefetch", K, r) /\ Work(r) = LoopWork(K, steps) /\ r # << >>
  <2>1. \A w \in LoopWork(K, steps) : Permitted("prefetch", K, w)
    BY <1>5 DEF Permitted, AcquireDo, LeaseDo, CloseDo, FetchDo, DiscardDo, OfPlan
  <2> QED BY <2>1, <1>3, CalmForEach
<1> HIDE DEF p, q, r
<1>7. /\ \A w \in Work(p) : w.do = "refresh"
      /\ \A w \in Work(q) : w.do = "checkCapacity"
      /\ \A w \in Work(r) : w.do = "ensure"
  BY <1>4, <1>5, <1>6, WorkFields
<1>8. /\ \A v \in Work(p), w \in Work(q) : InOrder("prefetch", v, w)
      /\ \A v \in Work(p), w \in Work(r) : InOrder("prefetch", v, w)
      /\ \A v \in Work(q), w \in Work(r) : InOrder("prefetch", v, w)
  BY <1>7 DEF InOrder, LastDo, HeadDo, Catch, CopyingDo, FirstDo, ShrinkEnd
<1>9. /\ \A w \in Work(p) : w.do \notin LateDo
      /\ \A w \in Work(q) : w.do \notin LateDo
      /\ \A w \in Work(r) : w.do \notin LateDo
  BY <1>7 DEF LateDo, HeadDo, FirstDo, ShrinkEnd
<1>10. Begin("prefetch", plan, Zero, p \o q \o r)
  BY <1>1, <1>2
<1> QED BY <1>4, <1>6, <1>8, <1>9, <1>10, BeginParts DEF K

LEMMA AcquireCall ==
  ASSUME TypeInv, CallInv, NEW plan \in Plans(LiveKeys, Mode), AcquireExternal(plan)
  PROVE  CallInv' /\ Opens("acquire", plan)
<1> DEFINE K == DOMAIN plan
           p == <<Task("refresh")>>
           q == <<Task("checkCapacity")>>
           r == <<Task("workspace")>>
<1>1. Begin("acquire", plan, Zero, <<Task("refresh"), Task("checkCapacity"), Task("workspace")>>)
  BY DEF AcquireExternal
<1>2. p \o q = <<Task("refresh"), Task("checkCapacity")>>
  BY TogetherAgain
<1>3. p \o q \o r = <<Task("refresh"), Task("checkCapacity"), Task("workspace")>>
  BY <1>2, TogetherAgain, ZenonT(40)
<1>4. /\ Calm("acquire", K, p) /\ Calm("acquire", K, q)
      /\ Work(p) = {KeyTask("refresh", None)} /\ Work(q) = {KeyTask("checkCapacity", None)}
  <2> DEFINE op == "acquire"
  <2>1. op \in {"prefetch", "acquire"}
    OBVIOUS
  <2> HIDE DEF op
  <2>2. /\ Calm(op, K, <<Task("refresh")>>) /\ Calm(op, K, <<Task("checkCapacity")>>)
        /\ Work(<<Task("refresh")>>) = {KeyTask("refresh", None)}
        /\ Work(<<Task("checkCapacity")>>) = {KeyTask("checkCapacity", None)}
    BY <2>1, FetchParts
  <2> QED BY <2>2 DEF op
<1>5. Calm("acquire", K, r) /\ Work(r) = {KeyTask("workspace", None)} /\ r # << >>
  <2> DEFINE do == "workspace"
  <2>1. do \in PlainDo /\ Permitted("acquire", K, KeyTask(do, None))
    BY WorkFields DEF PlainDo, Permitted, AcquireDo, LeaseDo, CloseDo, FetchDo, DiscardDo, OfPlan
  <2> HIDE DEF do
  <2>2. Calm("acquire", K, <<Task(do)>>) /\ Work(<<Task(do)>>) = {KeyTask(do, None)} /\ <<Task(do)>> # << >>
    BY <2>1, CalmTask
  <2> QED BY <2>2 DEF do
<1> HIDE DEF p, q, r
<1>6. /\ \A w \in Work(p) : w.do = "refresh"
      /\ \A w \in Work(q) : w.do = "checkCapacity"
      /\ \A w \in Work(r) : w.do = "workspace"
  BY <1>4, <1>5, WorkFields
<1>7. /\ \A v \in Work(p), w \in Work(q) : InOrder("acquire", v, w)
      /\ \A v \in Work(p), w \in Work(r) : InOrder("acquire", v, w)
      /\ \A v \in Work(q), w \in Work(r) : InOrder("acquire", v, w)
  BY <1>6 DEF InOrder, LastDo, HeadDo, Catch, CopyingDo, FirstDo, ShrinkEnd
<1>8. /\ \A w \in Work(p) : w.do \notin LateDo
      /\ \A w \in Work(q) : w.do \notin LateDo
      /\ \A w \in Work(r) : w.do \notin LateDo
  BY <1>6 DEF LateDo, HeadDo, FirstDo, ShrinkEnd
<1>9. Begin("acquire", plan, Zero, p \o q \o r)
  BY <1>1, <1>3
<1> QED BY <1>4, <1>5, <1>7, <1>8, <1>9, BeginParts


LEMMA PollWaitCall ==
  ASSUME TypeInv, CallInv, Poll \/ Wait
  PROVE  /\ CallInv' /\ (Opens("poll", << >>) \/ Opens("wait", << >>))
         /\ \A w \in Work(call'.todo) : w.do \in {"poll", "wait"}
<1>1. PICK do \in {"poll", "wait"} : Begin(do, << >>, Zero, <<Task(do)>>)
  BY DEF Poll, Wait
<1> DEFINE plan == << >>
           K == DOMAIN plan
           s == <<Task(do)>>
<1>2. do \in PlainDo /\ Permitted(do, K, KeyTask(do, None))
  BY WorkFields DEF PlainDo, Permitted, AcquireDo, LeaseDo, CloseDo, FetchDo, DiscardDo, OfPlan
<1>3. Begin(do, plan, Zero, s)
  BY <1>1
<1> HIDE DEF plan
<1>4. Calm(do, K, s) /\ Work(s) = {KeyTask(do, None)} /\ s # << >>
  BY <1>2, CalmTask
<1> HIDE DEF s
<1>5. \A w \in Work(s) : w.do \notin LateDo
  BY <1>4, WorkFields DEF LateDo, HeadDo, FirstDo, ShrinkEnd
<1>6. CallInv' /\ Opens(do, plan) /\ Work(call'.todo) = Work(s)
  BY <1>3, <1>4, <1>5, BeginOK
<1>7. do = "poll" \/ do = "wait"
  OBVIOUS
<1> QED BY <1>4, <1>6, <1>7, WorkFields DEF plan

LEMMA WaitFirstOK ==
  ASSUME NEW op \in {"drain", "close"}, NEW K
  PROVE  Calm(op, K, WaitFirst) /\ \A w \in Work(WaitFirst) : w.do = "wait"
<1>1. CASE lease.state = "submitted"
  <2> DEFINE do == "wait"
  <2>1. do \in PlainDo /\ Permitted(op, K, KeyTask(do, None))
    BY WorkFields DEF PlainDo, Permitted, AcquireDo, LeaseDo, CloseDo, FetchDo, DiscardDo, OfPlan
  <2>2. WaitFirst = <<Task(do)>>
    BY <1>1 DEF WaitFirst
  <2> HIDE DEF do
  <2>3. Calm(op, K, <<Task(do)>>) /\ Work(<<Task(do)>>) = {KeyTask(do, None)}
    BY <2>1, CalmTask
  <2>4. \A w \in Work(<<Task(do)>>) : w.do = do
    BY <2>3, WorkFields
  <2> QED BY <2>2, <2>3, <2>4 DEF do
<1>2. CASE lease.state # "submitted"
  <2>1. WaitFirst = << >>
    BY <1>2 DEF WaitFirst
  <2>2. Calm(op, K, << >>) /\ Work(<< >>) = {}
    BY CalmEmpty
  <2> QED BY <2>1, <2>2
<1> QED BY <1>1, <1>2

LEMMA DrainCall ==
  ASSUME TypeInv, CallInv, NEW releaseMappings \in BOOLEAN, Drain(releaseMappings)
  PROVE  CallInv' /\ Opens("drain", << >>)
<1> DEFINE K == LiveKeys
           flush == <<"writebackIfDirty">>
           unmap == <<"unmapIfClean">>
           plan == << >>
           p == WaitFirst
           q == ForEach(K, flush)
           r == IF releaseMappings THEN ForEach(K, unmap) ELSE << >>
<1>1. Begin("drain", plan, Zero, p \o q \o r) /\ p \o q \o r # << >>
  BY DEF Drain, Flush
<1>2. /\ K \in SUBSET Key /\ flush \in LoopForms /\ DOMAIN flush = {1} /\ flush[1] = "writebackIfDirty"
      /\ unmap \in LoopForms /\ DOMAIN unmap = {1} /\ unmap[1] = "unmapIfClean"
  BY PlanTypes DEF LoopForms
<1> DEFINE T == DOMAIN plan
<1> HIDE DEF K, flush, unmap, plan, T
<1>3. Calm("drain", T, q) /\ \A w \in Work(q) : w.do = "writebackIfDirty"
  <2>1. \A w \in LoopWork(K, flush) : w.do = "writebackIfDirty"
    BY <1>2, WorkFields DEF LoopWork
  <2>2. \A w \in LoopWork(K, flush) : Permitted("drain", T, w)
    BY <2>1 DEF Permitted, AcquireDo, LeaseDo, CloseDo, FetchDo, DiscardDo, OfPlan
  <2>3. Calm("drain", T, q) /\ Work(q) = LoopWork(K, flush)
    BY <2>2, <1>2, CalmForEach
  <2> HIDE DEF q
  <2> QED BY <2>1, <2>3
<1>4. Calm("drain", T, r) /\ \A w \in Work(r) : w.do = "unmapIfClean"
  <2>1. CASE releaseMappings
    <3>1. \A w \in LoopWork(K, unmap) : w.do = "unmapIfClean"
      BY <1>2, WorkFields DEF LoopWork
    <3>2. \A w \in LoopWork(K, unmap) : Permitted("drain", T, w)
      BY <3>1 DEF Permitted, AcquireDo, LeaseDo, CloseDo, FetchDo, DiscardDo, OfPlan
    <3> DEFINE l == ForEach(K, unmap)
    <3>3. Calm("drain", T, l) /\ Work(l) = LoopWork(K, unmap)
      BY <3>2, <1>2, CalmForEach
    <3>4. r = l
      BY <2>1
    <3> HIDE DEF r, l
    <3> QED BY <3>1, <3>3, <3>4
  <2>2. CASE ~releaseMappings
    <3>1. r = << >>
      BY <2>2
    <3>2. Calm("drain", T, << >>) /\ Work(<< >>) = {}
      BY CalmEmpty
    <3> HIDE DEF r
    <3> QED BY <3>1, <3>2
  <2> QED BY <2>1, <2>2
<1>5. Calm("drain", T, p) /\ \A w \in Work(p) : w.do = "wait"
  BY WaitFirstOK
<1>6. p # << >> \/ q # << >> \/ r # << >>
  <2> SUFFICES ASSUME p = << >>, q = << >>, r = << >> PROVE FALSE
    OBVIOUS
  <2> HIDE DEF p, q, r
  <2> QED BY <1>1, TogetherAgain
<1> HIDE DEF p, q, r
<1>7. /\ \A v \in Work(p), w \in Work(q) : InOrder("drain", v, w)
      /\ \A v \in Work(p), w \in Work(r) : InOrder("drain", v, w)
      /\ \A v \in Work(q), w \in Work(r) : InOrder("drain", v, w)
  BY <1>3, <1>4, <1>5 DEF InOrder, LastDo, HeadDo, Catch, CopyingDo, FirstDo, ShrinkEnd
<1>8. /\ \A w \in Work(p) : w.do \notin LateDo
      /\ \A w \in Work(q) : w.do \notin LateDo
      /\ \A w \in Work(r) : w.do \notin LateDo
  BY <1>3, <1>4, <1>5 DEF LateDo, HeadDo, FirstDo, ShrinkEnd
<1>9. CallInv' /\ Opens("drain", plan)
  BY <1>1, <1>3, <1>4, <1>5, <1>6, <1>7, <1>8, BeginParts DEF T
<1> QED BY <1>9 DEF plan

LEMMA CloseCall ==
  ASSUME TypeInv, CallInv, Close
  PROVE  /\ CallInv' /\ Opens("close", << >>) /\ KeyTask("abandon", None) \in Work(call'.todo)
         /\ \A w \in Work(call'.todo) : w.do \in {"wait"} \union CloseDo
<1> DEFINE plan == << >>
           T == DOMAIN plan
           first == WaitFirst
           second == <<Task("abandon")>>
           p == first \o second
           q == [i \in 1..MaxFrames |-> FrameTask("closeFrame", i - 1)]
           r == <<Task("closeEnd")>>
<1>1. Begin("close", plan, Zero, p \o q \o r)
  BY DEF Close
<1> HIDE DEF plan, T
<1>2. /\ Calm("close", T, second) /\ Work(second) = {KeyTask("abandon", None)} /\ second # << >>
      /\ Calm("close", T, r) /\ Work(r) = {KeyTask("closeEnd", None)}
  <2> DEFINE Is(do) == Calm("close", T, <<Task(do)>>) /\ Work(<<Task(do)>>) = {KeyTask(do, None)}
                         /\ <<Task(do)>> # << >>
  <2>1. ASSUME NEW do \in {"abandon", "closeEnd"} PROVE Is(do)
    <3>1. do \in PlainDo /\ Permitted("close", T, KeyTask(do, None))
      BY WorkFields DEF PlainDo, Permitted, AcquireDo, LeaseDo, CloseDo, FetchDo, DiscardDo, OfPlan
    <3> QED BY <3>1, CalmTask
  <2> HIDE DEF Is
  <2>2. Is("abandon") /\ Is("closeEnd")
    BY <2>1
  <2> QED BY <2>2 DEF Is
<1>3. Calm("close", T, first) /\ \A w \in Work(first) : w.do = "wait"
  BY WaitFirstOK
<1> HIDE DEF first, second, r
<1>4. \A v \in Work(first), w \in Work(second) : InOrder("close", v, w)
  BY <1>2, <1>3, WorkFields DEF InOrder, LastDo, HeadDo, Catch, CopyingDo, FirstDo, ShrinkEnd
<1>5. Calm("close", T, p) /\ p # << >>
  BY <1>2, <1>3, <1>4, CalmConcat
<1>6. Work(p) = Work(first) \union {KeyTask("abandon", None)}
  <2>1. first \in Seq(Tasks) /\ second \in Seq(Tasks)
    BY <1>2, <1>3 DEF Calm, ListOK
  <2> QED BY <1>2, <2>1, WorkConcat
<1> HIDE DEF p
<1>7. /\ q \in Seq(Tasks) /\ DOMAIN q = 1..MaxFrames
      /\ \A i \in DOMAIN q : q[i].do = "closeFrame" /\ WorkOf(q[i]) = {KeyTask("closeFrame", None)}
  <2>1. MaxFrames \in Nat /\ \A i \in 1..MaxFrames : i - 1 \in Nat
    BY RuntimeAssumption
  <2>2. \A i \in 1..MaxFrames : FrameTask("closeFrame", i - 1) \in Tasks
    BY <2>1, TaskTypes DEF FrameDo, Tasks
  <2>3. q \in [1..MaxFrames -> Tasks]
    BY <2>2
  <2>4. q \in Seq(Tasks)
    BY <2>1, <2>3, SeqDef
  <2>5. \A i \in 1..MaxFrames : WorkOf(FrameTask("closeFrame", i - 1)) = {KeyTask("closeFrame", None)}
    BY WorkFields DEF FrameDo
  <2> QED BY <2>4, <2>5 DEF FrameTask
<1> HIDE DEF q
<1>8. \A w \in Work(q) : w = KeyTask("closeFrame", None)
  BY <1>7 DEF Work
<1>9. Calm("close", T, q)
  <2>1. KnownLoops(q) /\ Linked(q) /\ \A i \in DOMAIN q : q[i].do \notin {"pin", "unmap"}
    BY <1>7 DEF KnownLoops, Linked, Follows
  <2>2. \A w \in Work(q) : Permitted("close", T, w)
    BY <1>8, WorkFields DEF Permitted, AcquireDo, LeaseDo, CloseDo, FetchDo, DiscardDo, OfPlan
  <2>3. InOrder("close", KeyTask("closeFrame", None), KeyTask("closeFrame", None))
    BY WorkFields DEF InOrder, LastDo, HeadDo, Catch, CopyingDo, FirstDo, ShrinkEnd
  <2>4. Sorted("close", q)
    BY <1>7, <2>3 DEF Sorted
  <2> QED BY <1>7, <2>1, <2>2, <2>4 DEF Calm, ListOK
<1>10. /\ \A w \in Work(p) : w.do \in {"wait", "abandon"}
       /\ \A w \in Work(q) : w.do = "closeFrame"
       /\ \A w \in Work(r) : w.do = "closeEnd"
  BY <1>2, <1>3, <1>6, <1>8, WorkFields
<1>11. /\ \A v \in Work(p), w \in Work(q) : InOrder("close", v, w)
       /\ \A v \in Work(p), w \in Work(r) : InOrder("close", v, w)
       /\ \A v \in Work(q), w \in Work(r) : InOrder("close", v, w)
  BY <1>10 DEF InOrder, LastDo, HeadDo, Catch, CopyingDo, FirstDo, ShrinkEnd
<1>12. /\ \A w \in Work(p) : w.do \notin LateDo
       /\ \A w \in Work(q) : w.do \notin LateDo
       /\ \A w \in Work(r) : w.do \notin LateDo
  BY <1>10 DEF LateDo, HeadDo, FirstDo, ShrinkEnd
<1>13. /\ CallInv' /\ Opens("close", plan)
       /\ Work(call'.todo) = Work(p) \union Work(q) \union Work(r)
  BY <1>1, <1>2, <1>5, <1>9, <1>11, <1>12, BeginParts DEF T
<1> QED BY <1>6, <1>10, <1>13 DEF plan, CloseDo

-----------------------------------------------------------------------------
(* What a step may do to the work of a call, as far as the state of the    *)
(* cache depends on it.                                                    *)

Keeps ==
  /\ call'.todo # << >> => call'.op = call.op /\ call'.plan = call.plan
  /\ \A k \in Key : /\ Pending("prepare", k)' => Pending("prepare", k)
                    /\ Pending("pin", k)' => Pending("pin", k)
  /\ Awaits("arm")' =>
       /\ Awaits("arm")
       /\ \A k \in Key : Pending("pin", k) /\ ~AtKey("pin", k) => Pending("pin", k)'
  /\ \A do \in {"rollback", "dropSpills", "finishLease", "abandon"} :
       Awaits(do) /\ ~At(do) => Awaits(do)'
  /\ Awaits("rollback")' => Awaits("rollback")
  /\ Awaits("finishLease")' => Awaits("finishLease")
  /\ call'.op \in {"release", "write"} =>
       \A k \in Key, do \in {"unmapIfClean", "writebackIfDirty"} :
         Pending(do, k) /\ ~AtKey(do, k) => Pending(do, k)'
Steers == Keeps /\ (call'.todo # << >> => Head(call'.todo).do \notin HeadDo)

PinsNothing == call'.todo # << >> => Head(call'.todo).do # "pin"

(* The work of a call that is in its first task is in that task or behind it. *)
LEMMA AtOrBehind ==
  ASSUME call \in CallRecord, CallInv, call.todo # << >>, Head(call.todo).do # "forEach"
  PROVE  /\ \A do, k : Pending(do, k) => At(do) \/ KeyTask(do, k) \in Work(Tail(call.todo))
         /\ \A do : Awaits(do) => At(do) \/ KeyTask(do, None) \in Work(Tail(call.todo))
         /\ \A do \in KeyDo : \A k : Pending(do, k) =>
              AtKey(do, k) \/ KeyTask(do, k) \in Work(Tail(call.todo))
         /\ Work(Tail(call.todo)) \subseteq Work(call.todo)
<1>1. /\ Head(call.todo) \in Tasks
      /\ Work(call.todo) = WorkOf(Head(call.todo)) \union Work(Tail(call.todo))
  BY TailOK DEF CallInv, Proper
<1>2. \A v \in WorkOf(Head(call.todo)) : v.do = Head(call.todo).do
  BY <1>1, WorkOfTask
<1>3. Head(call.todo).do \in KeyDo =>
        WorkOf(Head(call.todo)) = {KeyTask(Head(call.todo).do, Head(call.todo).key)}
  BY <1>1, WorkOfTask
<1>4. \A do, k : KeyTask(do, k) \in Work(call.todo) =>
        At(do) \/ KeyTask(do, k) \in Work(Tail(call.todo))
  BY <1>1, <1>2, WorkFields DEF At
<1>5. \A do \in KeyDo : \A k : KeyTask(do, k) \in Work(call.todo) =>
        AtKey(do, k) \/ KeyTask(do, k) \in Work(Tail(call.todo))
  <2> TAKE do \in KeyDo
  <2> TAKE k
  <2> HAVE KeyTask(do, k) \in Work(call.todo)
  <2>1. CASE KeyTask(do, k) \in WorkOf(Head(call.todo))
    <3>1. Head(call.todo).do = do
      BY <1>2, <2>1, WorkFields
    <3>2. KeyTask(do, k) = KeyTask(Head(call.todo).do, Head(call.todo).key)
      BY <1>3, <2>1, <3>1
    <3>3. Head(call.todo).key = k
      BY <3>2, WorkFields
    <3> QED BY <3>1, <3>3 DEF AtKey, At
  <2> QED BY <1>1, <2>1
<1> QED BY <1>1, <1>4, <1>5 DEF Pending, Awaits

LEMMA GoesOn ==
  ASSUME TypeInv, CallInv, call.todo # << >>, Head(call.todo).do # "forEach",
         Leads(Tail(call.todo))
  PROVE  /\ Steers
         /\ \A k \in Key : AtKey("pin", k)' => MakesResident(Head(call.todo), k)
<1> DEFINE rest == Tail(call.todo)
<1>1. call \in CallRecord
  BY DEF TypeInv, CallOK
<1>2. /\ \A do, k : Pending(do, k) => At(do) \/ KeyTask(do, k) \in Work(rest)
      /\ \A do : Awaits(do) => At(do) \/ KeyTask(do, None) \in Work(rest)
      /\ \A do \in KeyDo : \A k : Pending(do, k) => AtKey(do, k) \/ KeyTask(do, k) \in Work(rest)
      /\ Work(rest) \subseteq Work(call.todo)
  BY <1>1, AtOrBehind
<1>3. /\ rest # << >> => Head(rest).do \notin HeadDo
      /\ rest # << >> => Follows(Head(call.todo), Head(rest))
  BY TailProper, TailOK DEF CallInv, Proper
<1>4. Work(call'.todo) = Work(rest)
  <2>1. CASE rest = << >>
    BY <2>1, IdleProper, WorkEmpty DEF Leads
  <2>2. CASE rest # << >>
    BY <2>2 DEF Leads
  <2> QED BY <2>1, <2>2
<1>5. call'.todo # << >> =>
        /\ call'.op = call.op /\ call'.plan = call.plan /\ rest # << >>
        /\ Head(rest).do # "forEach" => Head(call'.todo) = Head(rest)
        /\ Head(rest).do = "forEach" => Head(call'.todo).do \in LoopDo \ {"pin", "invalidate"}
  BY IdleProper DEF Leads
<1> HIDE DEF rest
<1>6. call'.todo # << >> => Head(call'.todo).do \notin HeadDo
  BY <1>3, <1>5 DEF HeadDo, LoopDo
<1>7. ASSUME NEW k \in Key, AtKey("pin", k)' PROVE MakesResident(Head(call.todo), k)
  <2>1. call'.todo # << >> /\ Head(call'.todo).do = "pin" /\ Head(call'.todo).key = k
    BY <1>7 DEF AtKey, At
  <2>2. Head(rest).do = "pin" /\ Head(rest).key = k /\ rest # << >>
    BY <1>5, <2>1
  <2> QED BY <1>3, <2>2 DEF Follows
<1>8. \A do, k : Pending(do, k)' => Pending(do, k)
  BY <1>2, <1>4 DEF Pending
<1>9. \A do : Awaits(do)' => Awaits(do)
  BY <1>2, <1>4 DEF Awaits
<1>10. \A do \in KeyDo : \A k : Pending(do, k) /\ ~AtKey(do, k) => Pending(do, k)'
  BY <1>2, <1>4 DEF Pending
<1>11. \A do : Awaits(do) /\ ~At(do) => Awaits(do)'
  BY <1>2, <1>4 DEF Awaits
<1>12. {"pin", "unmapIfClean", "writebackIfDirty"} \subseteq KeyDo
  BY DEF KeyDo, LoopDo
<1> QED BY <1>5, <1>6, <1>7, <1>8, <1>9, <1>10, <1>11, <1>12 DEF Steers, Keeps

LEMMA GivesUp ==
  ASSUME TypeInv, CallInv, CallInv', call.todo # << >>, Head(call.todo).do # "forEach", Fails
  PROVE  /\ Steers /\ PinsNothing
         /\ call.op \in {"release", "write"} => call' = NoCall
<1> DEFINE rest == Tail(call.todo)
<1>1. call \in CallRecord
  BY DEF TypeInv, CallOK
<1>2. /\ \A do : Awaits(do) => At(do) \/ KeyTask(do, None) \in Work(rest)
      /\ Work(rest) \subseteq Work(call.todo)
  BY <1>1, AtOrBehind
<1>3. call' = NoCall => call'.todo = << >> /\ Work(call'.todo) = {} /\ call'.op = "none"
  BY IdleProper
<1>4. Work(call'.todo) \subseteq Work(rest)
  BY <1>3 DEF Fails
<1>5. \A w \in Work(call'.todo) : w.do \notin {"prepare", "pin", "arm"}
  BY <1>3 DEF Fails
<1>6. \A do \in Catch \ {"catch"} : KeyTask(do, None) \in Work(rest) => KeyTask(do, None) \in Work(call'.todo)
  BY DEF Fails
<1>7. call'.todo # << >> => /\ call'.op = call.op /\ call'.plan = call.plan
                            /\ Head(call'.todo).do \in Catch
  BY <1>3 DEF Fails
<1>8. call.op \in {"release", "write"} => call' = NoCall
  <2> SUFFICES ASSUME call.op \in {"release", "write"}, call' # NoCall PROVE FALSE
    OBVIOUS
  <2>1. call'.op = call.op /\ call'.plan = call.plan /\ call'.todo # << >> /\ Head(call'.todo).do \in Catch
    BY DEF Fails
  <2>2. PICK w \in Work(rest) : w.do \in Catch
    <3>1. /\ Head(call'.todo) \in Tasks
          /\ WorkOf(Head(call'.todo)) \subseteq Work(call'.todo)
      BY <2>1, TailOK DEF CallInv, Proper
    <3>2. PICK v \in WorkOf(Head(call'.todo)) : v.do = Head(call'.todo).do
      BY <2>1, <3>1, HeadWork DEF Catch
    <3> QED BY <2>1, <3>1, <3>2 DEF Fails
  <2>3. Permitted(call.op, Touched, w)
    BY <1>2, <2>2 DEF CallInv, Proper, ListOK
  <2> QED BY <2>2, <2>3 DEF Permitted, Catch, AcquireDo, LeaseDo, CloseDo
<1> HIDE DEF rest
<1>9. \A do \in {"prepare", "pin"} : \A k : ~Pending(do, k)'
  BY <1>5, WorkFields DEF Pending
<1>10. ~Awaits("arm")'
  BY <1>5, WorkFields DEF Awaits
<1>11. \A do \in {"rollback", "dropSpills", "finishLease", "abandon"} : Awaits(do) /\ ~At(do) => Awaits(do)'
  BY <1>2, <1>6 DEF Awaits, Catch
<1>12. \A do : Awaits(do)' => Awaits(do)
  BY <1>2, <1>4 DEF Awaits
<1>13. call'.op \notin {"release", "write"}
  BY <1>3, <1>7, <1>8 DEF Fails
<1>14. call'.todo # << >> => Head(call'.todo).do \notin HeadDo \union {"pin"}
  BY <1>7 DEF Catch, HeadDo
<1> QED BY <1>7, <1>8, <1>9, <1>10, <1>11, <1>12, <1>13, <1>14 DEF Steers, Keeps, PinsNothing

LEMMA TurnsAside ==
  ASSUME TypeInv, CallInv, call.todo # << >>, Head(call.todo).do # "forEach", Detour
  PROVE  Steers /\ PinsNothing
<1>1. call \in CallRecord
  BY DEF TypeInv, CallOK
<1>2. /\ \A do : Awaits(do) => At(do) \/ KeyTask(do, None) \in Work(Tail(call.todo))
      /\ \A do \in KeyDo : \A k : Pending(do, k) => AtKey(do, k) \/ KeyTask(do, k) \in Work(Tail(call.todo))
  BY <1>1, AtOrBehind
<1>3. \A do, k : do \notin DetourDo /\ KeyTask(do, k) \in Work(call'.todo) => KeyTask(do, k) \in Work(call.todo)
  BY WorkFields DEF Detour
<1>4. \A do, k : do \notin DetourDo /\ Pending(do, k)' => Pending(do, k)
  BY <1>3 DEF Pending
<1>5. \A do : do \notin DetourDo /\ Awaits(do)' => Awaits(do)
  BY <1>3 DEF Awaits
<1>6. \A do \in KeyDo : \A k : Pending(do, k) /\ ~AtKey(do, k) => Pending(do, k)'
  BY <1>2 DEF Pending, Detour
<1>7. \A do : Awaits(do) /\ ~At(do) => Awaits(do)'
  BY <1>2 DEF Awaits, Detour
<1>8. /\ {"pin", "unmapIfClean", "writebackIfDirty"} \subseteq KeyDo
      /\ {"prepare", "pin", "arm", "rollback", "finishLease"} \intersect DetourDo = {}
  BY DEF KeyDo, LoopDo, DetourDo
<1> QED BY <1>4, <1>5, <1>6, <1>7, <1>8 DEF Steers, Keeps, PinsNothing, Detour

LEMMA AwaitingKeeps ==
  ASSUME TypeInv, CallInv, call.todo # << >>, Head(call.todo).do # "forEach", NEW t, Awaiting(t)
  PROVE  Keeps
<1>1. call \in CallRecord
  BY DEF TypeInv, CallOK
<1>2. /\ \A do : Awaits(do) => At(do) \/ KeyTask(do, None) \in Work(Tail(call.todo))
      /\ \A do \in KeyDo : \A k : Pending(do, k) => AtKey(do, k) \/ KeyTask(do, k) \in Work(Tail(call.todo))
      /\ Work(Tail(call.todo)) \subseteq Work(call.todo)
  BY <1>1, AtOrBehind
<1>3. \A do, k : do \notin CopyDo /\ KeyTask(do, k) \in Work(call'.todo) => KeyTask(do, k) \in Work(call.todo)
  BY <1>2, WorkFields DEF Awaiting
<1>4. \A do, k : do \notin CopyDo /\ Pending(do, k)' => Pending(do, k)
  BY <1>3 DEF Pending
<1>5. \A do : do \notin CopyDo /\ Awaits(do)' => Awaits(do)
  BY <1>3 DEF Awaits
<1>6. \A do \in KeyDo : \A k : Pending(do, k) /\ ~AtKey(do, k) => Pending(do, k)'
  BY <1>2 DEF Pending, Awaiting
<1>7. \A do : Awaits(do) /\ ~At(do) => Awaits(do)'
  BY <1>2 DEF Awaits, Awaiting
<1>8. /\ {"pin", "unmapIfClean", "writebackIfDirty"} \subseteq KeyDo
      /\ {"prepare", "pin", "arm", "rollback", "finishLease"} \intersect CopyDo = {}
  BY DEF KeyDo, LoopDo, CopyDo
<1> QED BY <1>4, <1>5, <1>6, <1>7, <1>8 DEF Keeps, Awaiting

LEMMA Continues ==
  ASSUME TypeInv, CallInv, call.todo # << >>, Head(call.todo).do # "forEach", Continue
  PROVE  /\ CallInv' /\ Steers /\ Leads(Tail(call.todo))
         /\ \A k \in Key : AtKey("pin", k)' => MakesResident(Head(call.todo), k)
<1>1. call \in CallRecord
  BY DEF TypeInv, CallOK
<1> QED BY <1>1, ContinueOK, GoesOn

LEMMA Stops ==
  ASSUME TypeInv, CallInv, call.todo # << >>, Head(call.todo).do # "forEach",
         NEW status, Fail(status)
  PROVE  /\ CallInv' /\ Steers /\ PinsNothing
         /\ call.op \in {"release", "write"} => call' = NoCall
<1>1. call \in CallRecord
  BY DEF TypeInv, CallOK
<1>2. CallInv' /\ Fails
  BY <1>1, FailOK
<1> QED BY <1>2, GivesUp

(* The next task, or the handler of a failure. *)
Steps == Continue \/ \E status : Fail(status)

LEMMA StepsCall ==
  ASSUME TypeInv, CallInv, call.todo # << >>, Head(call.todo).do # "forEach", Steps
  PROVE  CallInv'
BY Continues, Stops DEF Steps

LEMMA PlainStepsCall ==
  ASSUME TypeInv, CallInv
  PROVE  /\ \A k \in Key, f \in Frame :
              MapRefused(k, f) \/ MapFails(k, f) \/ MapRollbackFails(k, f)
                \/ MapAndSubmitFails(k, f) => CallInv'
         /\ \A k \in Key :
              \/ H2dDone(k) \/ TransferStuck(k) \/ RetireFailedH2d(k) \/ EnsureHit(k)
              \/ WritebackSkipped(k) \/ D2hDone(k) \/ UnmapSkipped(k) \/ Unmap(k)
              \/ DropDirty(k) \/ Pin(k) \/ PutHost(k) \/ GetHost(k) \/ Invalidate(k)
              => CallInv'
         /\ \A f \in Frame : CreateHandle(f) \/ ReleaseTailHandle(f) \/ CloseCheck(f) => CallInv'
         /\ \A observed \in Nat : RefreshKeeps(observed) \/ SetCapacity(observed) => CallInv'
         /\ \/ RefreshSkipped \/ RefreshFails \/ CheckCapacity \/ FailTask \/ Catching
            \/ PollNotReady \/ RetireUnknown \/ FinishLease \/ CheckSources \/ Abandon
            => CallInv'
         /\ \A a \in Alloc : EraseAllocation(a) => CallInv'
<1> DEFINE Ready1 == call.todo # << >> /\ Head(call.todo).do # "forEach" /\ Steps
<1>1. Ready1 => CallInv'
  BY StepsCall
<1>2. ASSUME NEW k \in Key, NEW f \in Frame,
             MapRefused(k, f) \/ MapFails(k, f) \/ MapRollbackFails(k, f) \/ MapAndSubmitFails(k, f)
      PROVE  Ready1
  BY <1>2 DEF MapRefused, MapFails, MapRollbackFails, MapAndSubmitFails, AtKey, At, Steps
<1>3. ASSUME NEW k \in Key,
             \/ H2dDone(k) \/ TransferStuck(k) \/ RetireFailedH2d(k) \/ EnsureHit(k)
             \/ WritebackSkipped(k) \/ D2hDone(k) \/ UnmapSkipped(k) \/ Unmap(k)
             \/ DropDirty(k) \/ Pin(k) \/ PutHost(k) \/ GetHost(k) \/ Invalidate(k)
      PROVE  Ready1
  <2>1. CASE H2dDone(k) \/ TransferStuck(k) \/ RetireFailedH2d(k) \/ EnsureHit(k) \/ WritebackSkipped(k)
    BY <2>1 DEF H2dDone, TransferStuck, RetireFailedH2d, EnsureHit, WritebackSkipped, AtKey, At, Steps
  <2>2. CASE D2hDone(k) \/ UnmapSkipped(k) \/ Pin(k) \/ PutHost(k) \/ GetHost(k) \/ Invalidate(k)
    BY <2>2 DEF D2hDone, UnmapSkipped, Pin, PutHost, GetHost, Invalidate, AtKey, At, Steps
  <2>3. CASE Unmap(k) \/ DropDirty(k)
    BY <2>3 DEF Unmap, DropDirty, TakeDownFails, AtUnmap, AtKey, At, Steps
  <2> QED BY <1>3, <2>1, <2>2, <2>3
<1>4. ASSUME NEW f \in Frame, CreateHandle(f) \/ ReleaseTailHandle(f) \/ CloseCheck(f)
      PROVE  Ready1
  BY <1>4 DEF CreateHandle, ReleaseTailHandle, CloseCheck, AtFrame, At, Steps
<1>5. ASSUME NEW observed \in Nat, RefreshKeeps(observed) \/ SetCapacity(observed)
      PROVE  Ready1
  BY <1>5 DEF RefreshKeeps, SetCapacity, AtRefresh, AtFrame, At, Steps
<1>6. ASSUME \/ RefreshSkipped \/ RefreshFails \/ CheckCapacity \/ FailTask \/ Catching
             \/ PollNotReady \/ RetireUnknown \/ FinishLease \/ CheckSources \/ Abandon
      PROVE  Ready1
  BY <1>6 DEF RefreshSkipped, RefreshFails, CheckCapacity, FailTask, Catching, PollNotReady,
     RetireUnknown, FinishLease, CheckSources, Abandon, AtRefresh, AtRetire, At, Steps
<1>7. ASSUME NEW a \in Alloc, EraseAllocation(a) PROVE Ready1
  BY <1>7 DEF EraseAllocation, At, Steps
<1> QED BY <1>1, <1>2, <1>3, <1>4, <1>5, <1>6, <1>7

LEMMA WorkerCall ==
  ASSUME TypeInv, CallInv, Worker
  PROVE  CallInv'
<1>1. ASSUME NEW k \in Key, NEW f \in Frame,
             \/ MapRefused(k, f) \/ MapFails(k, f) \/ MapRollbackFails(k, f)
             \/ MapAndSubmit(k, f) \/ MapAndSubmitFails(k, f) \/ MapWithoutSource(k, f)
      PROVE  CallInv'
  <2>1. CASE MapAndSubmit(k, f) \/ MapWithoutSource(k, f)
    BY <2>1, MapCalls DEF MapAndSubmit, MapWithoutSource
  <2> QED BY <1>1, <2>1, PlainStepsCall
<1>2. ASSUME NEW k \in Key,
             H2dDone(k) \/ TransferStuck(k) \/ RetireFailedH2d(k)
      PROVE  CallInv'
  BY <1>2, PlainStepsCall
<1>3. ASSUME NEW k \in Key,
             \/ EnsureHit(k) \/ EnsureMiss(k) \/ WritebackSkipped(k) \/ UnmapSkipped(k)
             \/ GetHost(k)
      PROVE  CallInv'
  BY <1>3, EnsureMissCall, PlainStepsCall
<1>4. ASSUME NEW k \in Key, StartD2h(k) PROVE CallInv'
  <2>1. CASE Push(<<KeyTask("d2h", k)>>)
    BY <1>4, <2>1, StartD2hCall DEF StartD2h
  <2>2. CASE Fail("other")
    <3>1. call.todo # << >> /\ Head(call.todo).do # "forEach" /\ Steps
      BY <1>4, <2>2 DEF StartD2h, AtWriteback, AtKey, At, Steps
    <3> QED BY <3>1, StepsCall
  <2> QED BY <1>4, <2>1, <2>2 DEF StartD2h
<1>5. ASSUME NEW k \in Key, PrepareUse(k) PROVE CallInv'
  <2>1. At("prepare") /\ call.todo # << >> /\ Head(call.todo).do # "forEach"
    BY <1>5 DEF PrepareUse, AtKey, At
  <2>2. CASE Steps
    BY <2>1, <2>2, StepsCall
  <2>3. CASE SpillVictims # {} /\ Goto(<<KeyTask("writeback", Least(SpillVictims))>> \o call.todo)
    <3>1. SpillVictims \subseteq Key
      BY DEF SpillVictims, SpillHolders
    <3> DEFINE v == Least(SpillVictims)
    <3>2. v \in Key
      <4>1. SpillVictims \in SUBSET Nat
        BY <3>1, FrameTypes DEF Key
      <4> QED BY <2>3, <3>1, <4>1, LeastElement
    <3>3. Goto(<<KeyTask("writeback", v)>> \o call.todo)
      BY <2>3
    <3> HIDE DEF v
    <3> QED BY <2>1, <3>2, <3>3, SpillWritebackCall
  <2> QED BY <1>5, <2>2, <2>3 DEF PrepareUse, Steps
<1>6. ASSUME NEW k \in Key,
             D2hDone(k) \/ Unmap(k) \/ DropDirty(k) \/ Pin(k) \/ PutHost(k) \/ Invalidate(k)
      PROVE  CallInv'
  BY <1>6, PlainStepsCall
<1>7. ASSUME NEW f \in Frame,
             \/ CreateHandle(f) \/ CreateHandleFails(f) \/ DropMapping(f)
             \/ ReleaseTailHandle(f) \/ CloseFrame(f) \/ CloseCheck(f)
      PROVE  CallInv'
  BY <1>7, PlainStepsCall, CreateFailsCall, DropMappingCall, CloseFrameCall
<1>8. ASSUME NEW observed \in 0..MaxFrames,
             RefreshShrinks(observed) \/ RefreshKeeps(observed) \/ SetCapacity(observed)
      PROVE  CallInv'
  BY <1>8, PlainStepsCall, RefreshShrinksCall
<1>9. ASSUME Arm PROVE CallInv'
  <2>1. call.todo # << >> /\ Head(call.todo).do # "forEach" /\ (Goto(<< >>) \/ Steps)
    BY <1>9 DEF Arm, At, Steps
  <2>2. Goto(<< >>) => call' = NoCall
    BY DEF Goto
  <2> QED BY <2>1, <2>2, NothingLeft, StepsCall
<1>10. ASSUME \/ RefreshSkipped \/ RefreshFails \/ CheckCapacity \/ EnsureWorkspace
              \/ FailTask \/ Catching \/ Rollback \/ DropSpills
       PROVE  CallInv'
  BY <1>10, PlainStepsCall, EnsureWorkspaceCall, RollbackCall, DropSpillsCall
<1>11. ASSUME PollNotReady \/ RetireUnknown \/ Retire \/ FinishLease \/ CheckSources \/ Abandon
       PROVE  CallInv'
  BY <1>11, PlainStepsCall, RetireCall
<1>12. ASSUME NEW a \in Alloc, EraseAllocation(a) PROVE CallInv'
  BY <1>12, PlainStepsCall
<1>13. ASSUME NEW FA, NEW FF, CloseEnd(FA, FF) PROVE CallInv'
  <2>1. call' = NoCall
    BY <1>13 DEF CloseEnd, Goto
  <2> QED BY <2>1, NothingLeft
<1> QED
  BY <1>1, <1>2, <1>3, <1>4, <1>5, <1>6, <1>7, <1>8, <1>9, <1>10, <1>11, <1>12, <1>13 DEF Worker

LEMMA ClientCall ==
  ASSUME TypeInv, CallInv, Client
  PROVE  CallInv'
<1>1. call' = call => CallInv'
  BY DEF CallInv, Touched, Plan
<1>2. ASSUME NEW a \in Alloc,
             \/ Allocate(a) \/ Release(a)
             \/ \E plan \in RangePlans(a, {"full"}) : DiscardDead(a, plan)
             \/ \E plan \in RangePlans(a, {"full", "part"}), v \in Val : Write(a, plan, v)
             \/ \E plan \in RangePlans(a, {"part"}) : Read(a, plan)
      PROVE  CallInv'
  <2>1. CASE Allocate(a)
    BY <1>1, <2>1 DEF Allocate
  <2> QED BY <1>2, <2>1, ReleaseCall, DiscardCall, WriteCall, ReadCall
<1>3. ASSUME NEW plan \in Plans(LiveKeys, PrefetchModes), Prefetch(plan) PROVE CallInv'
  BY <1>3, PrefetchCall
<1>4. ASSUME NEW plan \in Plans(LiveKeys, Mode), AcquireExternal(plan) PROVE CallInv'
  BY <1>4, AcquireCall
<1>5. ASSUME NEW mode \in {"success", "cancelled", "failed"}, Seal(mode) PROVE CallInv'
  BY <1>1, <1>5 DEF Seal
<1>6. ASSUME Poll \/ Wait \/ (\E r \in BOOLEAN : Drain(r)) \/ Close PROVE CallInv'
  BY <1>6, PollWaitCall, DrainCall, CloseCall
<1>7. ASSUME Launch PROVE CallInv'
  BY <1>1, <1>7 DEF Launch
<1> QED BY <1>2, <1>3, <1>4, <1>5, <1>6, <1>7 DEF Client

LEMMA InitCall == Init => CallInv
<1> SUFFICES ASSUME Init PROVE CallInv
  OBVIOUS
<1>1. call = NoCall
  BY DEF Init
<1>2. Proper(call.op, Touched, call.todo)
  BY <1>1, IdleProper
<1> QED BY <1>1, <1>2, IdleProper DEF CallInv

LEMMA StepCall == TypeInv /\ CallInv /\ [Next]_vars => CallInv'
<1> SUFFICES ASSUME TypeInv, CallInv, [Next]_vars PROVE CallInv'
  OBVIOUS
<1>1. call' = call => CallInv'
  BY DEF CallInv, Touched, Plan
<1>2. CASE Worker
  BY <1>2, WorkerCall
<1>3. CASE Client
  BY <1>3, ClientCall
<1>4. CASE Kernel
  BY <1>1, <1>4 DEF Kernel, KernelWrites, KernelFinishes
<1>5. CASE UNCHANGED vars
  BY <1>1, <1>5 DEF vars
<1> QED BY <1>2, <1>3, <1>4, <1>5 DEF Next

(* At any moment of any call, whatever failed before, the tasks that are   *)
(* still to be executed are such that what was pinned is rolled back, the  *)
(* handlers come last, a chunk is written back before it is unmapped for   *)
(* good, and no chunk is pinned that the task before did not bring in      *)
(* (runtime.cpp, acquire_external, flush_overlapping, release).            *)
THEOREM CallsWellFormed == Spec => []CallInv
BY InitType, StepType, InitCall, StepCall, PTL DEF Spec

=============================================================================
