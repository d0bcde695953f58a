---------------------------- MODULE MappingProofs ----------------------------
(***************************************************************************)
(* The mappings of the residency runtime: what the GPU can reach is what   *)
(* the runtime says it can, and a close that answers success leaves        *)
(* nothing behind.                                                         *)
(*                                                                         *)
(* CacheInv says how chunks, frames, copies, spill reservations and        *)
(* allocations agree, UseInv how the lease and the kernel keep what they   *)
(* use.  Both read the task list only through the work it has left         *)
(* (CallProofs).                                                           *)
(***************************************************************************)
EXTENDS CallProofs

-----------------------------------------------------------------------------
(* The state of the cache. *)

InFlight == {"h2d_in_flight", "d2h_in_flight"}
AtRest == {"host_clean", "resident_clean", "resident_dirty"}
OnDevice(k) == \E f \in Frame : frame[f].key = k

(* A chunk and its frame name each other, and only resident chunks are pinned. *)
Links == \A k \in Key, f \in Frame : chunk[k].frame = f <=> frame[f].key = k
RecordOK(r) ==
  /\ ValidRecord(r)
  /\ r.state \in AtRest \union InFlight \union {"mapping", "evicting"}
  /\ r.pin > 0 => IsResident(r)
Mappings == ~rt.closed => Links /\ \A k \in Key : RecordOK(chunk[k])

(* A copy that is waited for is in flight, and what is pinned is resident. *)
HeadsReady == \A k \in Key :
  /\ AtKey("h2d", k) => chunk[k].state = "h2d_in_flight"
  /\ AtKey("d2h", k) => chunk[k].state = "d2h_in_flight"
  /\ AtKey("retireH2d", k) => chunk[k].state = "h2d_in_flight" /\ \A d \in dma : d.key # k
  /\ AtKey("pin", k) => IsResident(chunk[k])

(* An unfinished copy belongs to a chunk in flight; nobody waits for it    *)
(* only when it is known that it may never finish.                         *)
Copies == \A d \in dma :
  /\ ~rt.closed => chunk[d.key].state \in InFlight
  /\ rt.closed => OnDevice(d.key)
  /\ rt.asyncQ \/ AtKey("h2d", d.key) \/ AtKey("d2h", d.key)

(* Unless the runtime is poisoned, only the chunk of the copy in progress  *)
(* is between two states.                                                  *)
Moving(k) == AtKey("h2d", k) \/ AtKey("d2h", k) \/ AtKey("retireH2d", k)
NoneStuck == ~rt.poisoned => ~rt.asyncQ /\ \A k \in Key : chunk[k].state \in AtRest \/ Moving(k)

(* Room in the host budget is held for a dirty chunk, or for one that the  *)
(* lease will dirty, and then always for its present content.              *)
Dirty(k) == chunk[k].state \in {"resident_dirty", "d2h_in_flight"}
SpillsUsed == ~rt.poisoned =>
  \A k \in Key : /\ spill[k] # "stale"
                 /\ spill[k] # "none" => Dirty(k) \/ lease.use[k].spillHere \/ AtKey("invalidate", k)

(* A call that replaces or drops content writes back and unmaps it first.  *)
FlushPending ==
  /\ call.op = "release" => ~rt.poisoned
  /\ ~rt.poisoned /\ call.op \in {"release", "write"} =>
       \A k \in Touched :
         /\ chunk[k].state # "host_clean" => Pending("unmapIfClean", k)
         /\ chunk[k].state = "resident_dirty" => Pending("writebackIfDirty", k)

(* A mapped chunk belongs to a live allocation, and so does one to be mapped. *)
Owned ==
  /\ ~rt.closed => \A a \in Alloc : owner[a].live => owner[a].va \in {"held", "quarantined"}
  /\ \A f \in Frame : Mapped(f) =>
       /\ ~rt.closed => owner[AllocOf[frame[f].key]].live
       /\ owner[AllocOf[frame[f].key]].va \in {"held", "quarantined"}
  /\ call.op \in {"prefetch", "acquire"} => Touched \subseteq LiveKeys
  /\ call.op = "release" => Touched = KeysOf(AllocOf[Least(Touched)])

-----------------------------------------------------------------------------
(* The lease and the kernel. *)

(* The chunks of a running kernel are pinned and mapped. *)
KernelHolds == gpu.phase = "running" =>
  /\ lease.state # "none"
  /\ \A k \in gpu.keys : (~rt.closed => chunk[k].pin > 0) /\ OnDevice(k)

(* The chunks of a lease that is being made, held or used are pinned. *)
Holding ==
  \/ lease.state = "armed"
  \/ lease.state = "submitted" /\ ~Awaits("finishLease")
  \/ lease.state = "none" /\ Awaits("rollback")
LeasePins == Holding /\ ~rt.closed => \A k \in Members : chunk[k].pin > 0

NoUses == \A k \in Key : lease.use[k].gen = 0 /\ ~lease.use[k].spillHere
LeaseCalls ==
  /\ call.op = "acquire" => lease.state = "none"
  /\ call.op = "write" => lease.state = "none" \/ \A k \in Touched : lease.use[k].gen = 0
  /\ lease.state = "none" => NoUses \/ Awaits("rollback") \/ Awaits("dropSpills")
  /\ Awaits("finishLease") => lease.state = "submitted"

(* Room was reserved only for a chunk that the lease may dirty and pinned, *)
(* or is still going to pin.                                               *)
LeaseSpills == \A k \in Key : lease.use[k].spillHere =>
  /\ lease.use[k].dirty
  /\ lease.state # "none" => lease.use[k].gen # 0
  /\ Awaits("arm") => lease.use[k].gen # 0 \/ Pending("pin", k)
  /\ ~Pending("prepare", k)

(* A kernel that may have run dirtied every chunk that room was made for. *)
LeaseDirties ==
  ~rt.poisoned /\ ~rt.closed /\ lease.state = "submitted" /\ lease.seal # "cancelled" =>
    /\ Awaits("finishLease") => At("finishLease")
    /\ \A k \in Key : lease.use[k].spillHere => chunk[k].state = "resident_dirty"

(* close gives a lease up before it takes anything down, and what is still *)
(* in use keeps its memory.                                                *)
Closing ==
  /\ call.op = "close" => Awaits("abandon") \/ (gpu.phase = "running" => rt.asyncQ)
  /\ ~rt.closed => rt.pools
  /\ rt.closed => call.todo = << >> /\ (gpu.phase = "running" \/ dma # {} => rt.pools)

CacheInv ==
  /\ Mappings /\ HeadsReady /\ Copies /\ NoneStuck /\ SpillsUsed /\ FlushPending /\ Owned
UseInv ==
  /\ KernelHolds /\ LeasePins /\ LeaseCalls /\ LeaseSpills /\ LeaseDirties /\ Closing

-----------------------------------------------------------------------------
(* A step beside the lease. *)

LEMMA InCall ==
  ASSUME UseInv, call.todo # << >>
  PROVE  ~rt.closed /\ rt.pools
BY DEF UseInv, Closing

LeaseDo2 == {"finishLease", "abandon", "rollback", "dropSpills", "pin"}

(* The lease, the kernel and every pinned chunk stay as they are. *)
Beside ==
  /\ lease' = lease /\ gpu' = gpu
  /\ rt'.closed = rt.closed /\ rt'.pools = rt.pools
  /\ rt.poisoned => rt'.poisoned
  /\ rt.asyncQ => rt'.asyncQ
  /\ \A k \in Key : chunk[k].pin > 0 =>
       chunk'[k].pin > 0 /\ chunk'[k].state = chunk[k].state /\ (OnDevice(k) => OnDevice(k)')

LEMMA BesideOK ==
  ASSUME TypeInv, CallInv', UseInv, call.todo # << >>, Keeps, Beside,
         Head(call.todo).do \notin LeaseDo2
  PROVE  UseInv'
<1>1. ~rt.closed /\ rt.pools /\ ~rt'.closed /\ rt'.pools
  BY InCall DEF Beside
<1>2. /\ call'.todo # << >> => call'.op = call.op /\ call'.plan = call.plan /\ Touched' = Touched
      /\ call'.todo = << >> => call'.op = "none"
  BY DEF Keeps, CallInv, Touched, Plan
<1>3. \A do \in LeaseDo2 : \A k : ~At(do) /\ ~AtKey(do, k)
  BY DEF At, AtKey
<1>4. KernelHolds'
  <2>1. ASSUME gpu.phase = "running", NEW k \in gpu.keys
        PROVE  chunk'[k].pin > 0 /\ OnDevice(k)'
    <3>1. k \in Key /\ chunk[k].pin > 0 /\ OnDevice(k)
      BY <1>1, <2>1 DEF UseInv, KernelHolds, TypeInv, DataInv, TypeOK
    <3> QED BY <3>1 DEF Beside
  <2> QED BY <2>1 DEF KernelHolds, UseInv, Beside
<1>5. Holding' => Holding
  BY <1>3 DEF Holding, Keeps, Beside, LeaseDo2
<1>6. Members' = Members /\ Members \subseteq Key
  BY DEF Members, Beside
<1>7. LeasePins'
  BY <1>1, <1>5, <1>6 DEF LeasePins, UseInv, Beside
<1>8. LeaseCalls'
  <2>1. call'.op = "acquire" => lease'.state = "none"
    BY <1>2 DEF UseInv, LeaseCalls, Beside
  <2>2. call'.op = "write" => lease'.state = "none" \/ \A k \in Touched' : lease'.use[k].gen = 0
    BY <1>2 DEF UseInv, LeaseCalls, Beside
  <2>3. lease'.state = "none" => NoUses' \/ Awaits("rollback")' \/ Awaits("dropSpills")'
    BY <1>3 DEF UseInv, LeaseCalls, Beside, Keeps, NoUses, LeaseDo2
  <2>4. Awaits("finishLease")' => lease'.state = "submitted"
    BY DEF UseInv, LeaseCalls, Beside, Keeps
  <2> QED BY <2>1, <2>2, <2>3, <2>4 DEF LeaseCalls
<1>9. LeaseSpills'
  <2> SUFFICES ASSUME NEW k \in Key, lease'.use[k].spillHere
               PROVE  /\ lease'.use[k].dirty
                      /\ lease'.state # "none" => lease'.use[k].gen # 0
                      /\ Awaits("arm")' => lease'.use[k].gen # 0 \/ Pending("pin", k)'
                      /\ ~Pending("prepare", k)'
    BY DEF LeaseSpills
  <2>1. /\ lease.use[k].dirty
        /\ lease.state # "none" => lease.use[k].gen # 0
        /\ Awaits("arm") => lease.use[k].gen # 0 \/ Pending("pin", k)
        /\ ~Pending("prepare", k)
    BY DEF UseInv, LeaseSpills, Beside
  <2>2. /\ Pending("prepare", k)' => Pending("prepare", k)
        /\ Awaits("arm")' => Awaits("arm") /\ (Pending("pin", k) => Pending("pin", k)')
    BY <1>3 DEF Keeps, LeaseDo2
  <2> QED BY <2>1, <2>2 DEF Beside
<1>10. LeaseDirties'
  <2> SUFFICES ASSUME ~rt'.poisoned, lease'.state = "submitted", lease'.seal # "cancelled"
               PROVE  /\ Awaits("finishLease")' => At("finishLease")'
                      /\ \A k \in Key : lease'.use[k].spillHere => chunk'[k].state = "resident_dirty"
    BY DEF LeaseDirties
  <2>1. /\ ~rt.poisoned /\ lease.state = "submitted" /\ lease.seal # "cancelled"
    BY DEF Beside
  <2>2. ~Awaits("finishLease")
    BY <1>1, <1>3, <2>1 DEF UseInv, LeaseDirties, LeaseDo2
  <2>3. ASSUME NEW k \in Key, lease'.use[k].spillHere PROVE chunk'[k].state = "resident_dirty"
    <3>1. lease.use[k].spillHere /\ chunk[k].state = "resident_dirty"
      BY <1>1, <2>1, <2>3 DEF UseInv, LeaseDirties, Beside
    <3>2. k \in Members
      BY <2>1, <3>1 DEF UseInv, LeaseSpills, Members
    <3>3. chunk[k].pin > 0
      BY <1>1, <2>1, <2>2, <3>2 DEF UseInv, LeasePins, Holding
    <3> QED BY <3>1, <3>3 DEF Beside
  <2> QED BY <2>2, <2>3 DEF Keeps
<1>11. Closing'
  <2>1. call'.op = "close" => Awaits("abandon")' \/ (gpu'.phase = "running" => rt'.asyncQ)
    BY <1>2, <1>3 DEF UseInv, Closing, Beside, Keeps, LeaseDo2
  <2> QED BY <1>1, <2>1 DEF Closing
<1> QED BY <1>4, <1>7, <1>8, <1>9, <1>10, <1>11 DEF UseInv

-----------------------------------------------------------------------------
(* What keeps the parts of CacheInv. *)

(* The same chunks are mapped on the same frames. *)
SameKeys == \A f \in Frame : frame'[f].key = frame[f].key

(* The runtime may be poisoned now, but not closed. *)
MayPoison ==
  /\ rt'.closed = rt.closed /\ rt'.pools = rt.pools
  /\ rt.poisoned => rt'.poisoned
  /\ rt.asyncQ => rt'.asyncQ
  /\ rt'.asyncQ => rt.asyncQ \/ rt'.poisoned

(* Some virtual ranges may be quarantined. *)
MayQuarantine ==
  \A a \in Alloc : owner'[a].live = owner[a].live /\ owner'[a].va \in {owner[a].va, "quarantined"}

PinsResident == \A k \in Key : AtKey("pin", k)' => IsResident(chunk'[k])

LEMMA MappingsKept ==
  ASSUME Mappings, SameKeys, rt'.closed = rt.closed,
         \A k \in Key : chunk'[k].frame = chunk[k].frame /\ (RecordOK(chunk[k]) => RecordOK(chunk'[k]))
  PROVE  Mappings'
BY DEF Mappings, Links, SameKeys

LEMMA HeadsKept ==
  ASSUME Steers, PinsResident
  PROVE  HeadsReady'
<1> SUFFICES ASSUME NEW k \in Key
             PROVE  ~AtKey("h2d", k)' /\ ~AtKey("d2h", k)' /\ ~AtKey("retireH2d", k)'
  BY DEF HeadsReady, PinsResident
<1> QED BY DEF Steers, HeadDo, AtKey, At

LEMMA CopiesKept ==
  ASSUME Copies, MayPoison, ~rt.closed,
         \A d \in dma' : d \in dma /\ chunk'[d.key].state \in InFlight,
         \A d \in dma' : rt'.asyncQ \/ (~AtKey("h2d", d.key) /\ ~AtKey("d2h", d.key))
  PROVE  Copies'
<1> SUFFICES ASSUME NEW d \in dma' PROVE chunk'[d.key].state \in InFlight /\ rt'.asyncQ
  BY DEF Copies, MayPoison
<1> QED BY DEF Copies, MayPoison

LEMMA StuckKept ==
  ASSUME NoneStuck, MayPoison,
         ~rt'.poisoned => \A k \in Key : \/ chunk'[k].state \in AtRest
                                         \/ chunk'[k].state = chunk[k].state /\ ~Moving(k)
  PROVE  NoneStuck'
BY DEF NoneStuck, MayPoison

LEMMA SpillsKept ==
  ASSUME SpillsUsed, MayPoison, lease' = lease, \A k \in Key : ~AtKey("invalidate", k),
         ~rt'.poisoned => \A k \in Key : \/ spill'[k] = "none"
                                         \/ spill'[k] = spill[k] /\ (Dirty(k) => Dirty(k)')
  PROVE  SpillsUsed'
BY DEF SpillsUsed, MayPoison

LEMMA FlushKept ==
  ASSUME FlushPending, CallInv', Keeps, MayPoison,
         call'.op = "release" => rt'.poisoned = rt.poisoned,
         ~rt'.poisoned /\ call.op \in {"release", "write"} => \A k \in Touched \intersect Key :
           /\ chunk'[k].state # "host_clean" =>
                chunk[k].state # "host_clean" /\ ~AtKey("unmapIfClean", k)
           /\ chunk'[k].state = "resident_dirty" =>
                chunk[k].state = "resident_dirty" /\ ~AtKey("writebackIfDirty", k),
         Touched \subseteq Key
  PROVE  FlushPending'
<1>1. call'.op \in {"release", "write"} =>
        call'.op = call.op /\ call'.plan = call.plan /\ Touched' = Touched
  BY DEF Keeps, CallInv, Touched, Plan
<1>2. call'.op = "release" => ~rt'.poisoned
  BY <1>1 DEF FlushPending
<1>3. ASSUME ~rt'.poisoned, call'.op \in {"release", "write"}, NEW k \in Touched'
      PROVE  /\ chunk'[k].state # "host_clean" => Pending("unmapIfClean", k)'
             /\ chunk'[k].state = "resident_dirty" => Pending("writebackIfDirty", k)'
  <2>1. k \in Touched \intersect Key /\ ~rt.poisoned /\ call.op \in {"release", "write"}
    BY <1>1, <1>3 DEF MayPoison
  <2>2. /\ chunk[k].state # "host_clean" => Pending("unmapIfClean", k)
        /\ chunk[k].state = "resident_dirty" => Pending("writebackIfDirty", k)
    BY <2>1 DEF FlushPending
  <2> QED BY <1>3, <2>1, <2>2 DEF Keeps
<1> QED BY <1>2, <1>3 DEF FlushPending

LEMMA OwnedKept ==
  ASSUME TypeInv, CallInv', Owned, Keeps, MayPoison, MayQuarantine,
         \A f \in Frame : frame'[f].key \in {None, frame[f].key}
  PROVE  Owned'
<1>1. call'.op \in {"prefetch", "acquire", "release"} =>
        call'.op = call.op /\ call'.plan = call.plan /\ Touched' = Touched
  BY DEF Keeps, CallInv, Touched, Plan
<1>2. \A f \in Frame : Mapped(f)' => Mapped(f) /\ frame'[f].key = frame[f].key
  BY DEF Mapped
<1>3. \A f \in Frame : Mapped(f) => AllocOf[frame[f].key] \in Alloc
  BY RuntimeAssumption DEF Mapped, TypeInv, DataInv, TypeOK
<1>4. LiveKeys' = LiveKeys
  BY RuntimeAssumption DEF LiveKeys, MayQuarantine
<1>5. ~rt'.closed => \A a \in Alloc : owner'[a].live => owner'[a].va \in {"held", "quarantined"}
  BY DEF Owned, MayPoison, MayQuarantine
<1>6. \A f \in Frame : Mapped(f)' =>
        /\ ~rt'.closed => owner'[AllocOf[frame'[f].key]].live
        /\ owner'[AllocOf[frame'[f].key]].va \in {"held", "quarantined"}
  BY <1>2, <1>3 DEF Owned, MayPoison, MayQuarantine
<1>7. call'.op = "release" => Touched' = KeysOf(AllocOf[Least(Touched')])
  BY <1>1 DEF Owned
<1>8. call'.op \in {"prefetch", "acquire"} => Touched' \subseteq LiveKeys'
  BY <1>1, <1>4 DEF Owned
<1> QED BY <1>5, <1>6, <1>7, <1>8 DEF Owned

(* A step that leaves chunks, copies and the lease alone. *)
Aside ==
  /\ chunk' = chunk /\ SameKeys /\ lease' = lease /\ gpu' = gpu /\ dma' = dma
  /\ MayPoison /\ MayQuarantine

LEMMA AsideOK ==
  ASSUME TypeInv, CallInv, CallInv', CacheInv, UseInv, call.todo # << >>, Steers, Aside,
         PinsResident, SpillsUsed',
         Head(call.todo).do \notin LeaseDo2,
         Head(call.todo).do \in HeadDo => rt'.asyncQ /\ rt'.poisoned,
         call'.op = "release" => rt'.poisoned = rt.poisoned,
         ~rt'.poisoned /\ call.op \in {"release", "write"} => \A k \in Touched \intersect Key :
           /\ AtKey("unmapIfClean", k) => chunk[k].state = "host_clean"
           /\ AtKey("writebackIfDirty", k) => chunk[k].state # "resident_dirty"
  PROVE  CacheInv' /\ UseInv'
<1>1. ~rt.closed
  BY InCall
<1>2. \A do, k : AtKey(do, k) => Head(call.todo).do = do
  BY DEF AtKey, At
<1>3. Touched \subseteq Key
  BY DEF TypeInv, CallOK, CallRecord, PlanSet, Touched, Plan
<1>4. UseInv'
  <2>1. \A k \in Key : OnDevice(k) => OnDevice(k)'
    BY DEF OnDevice, Aside, SameKeys
  <2>2. Beside
    BY <2>1 DEF Beside, Aside, MayPoison
  <2> QED BY <2>2, BesideOK DEF Steers
<1>5. Mappings'
  BY MappingsKept DEF CacheInv, Aside, MayPoison
<1>6. HeadsReady'
  BY HeadsKept
<1>7. Copies'
  <2>1. \A d \in dma' : d \in dma /\ chunk'[d.key].state \in InFlight
    BY <1>1 DEF Aside, CacheInv, Copies
  <2>2. \A d \in dma' : rt'.asyncQ \/ (~AtKey("h2d", d.key) /\ ~AtKey("d2h", d.key))
    BY <1>2 DEF HeadDo
  <2> QED BY <1>1, <2>1, <2>2, CopiesKept DEF Aside, CacheInv
<1>8. NoneStuck'
  <2>1. ~rt'.poisoned => \A k \in Key : chunk'[k].state = chunk[k].state /\ ~Moving(k)
    BY <1>2 DEF Aside, Moving, HeadDo
  <2> QED BY <2>1, StuckKept DEF Aside, CacheInv
<1>9. FlushPending'
  <2>1. ~rt'.poisoned /\ call.op \in {"release", "write"} => \A k \in Touched \intersect Key :
           /\ chunk'[k].state # "host_clean" =>
                chunk[k].state # "host_clean" /\ ~AtKey("unmapIfClean", k)
           /\ chunk'[k].state = "resident_dirty" =>
                chunk[k].state = "resident_dirty" /\ ~AtKey("writebackIfDirty", k)
    BY DEF Aside
  <2> QED BY <1>3, <2>1, FlushKept DEF Aside, CacheInv, Steers
<1>10. Owned'
  <2>1. \A f \in Frame : frame'[f].key \in {None, frame[f].key}
    BY DEF Aside, SameKeys
  <2> QED BY <2>1, OwnedKept DEF Aside, CacheInv, Steers
<1> QED BY <1>4, <1>5, <1>6, <1>7, <1>8, <1>9, <1>10 DEF CacheInv

(* A step that leaves credits alone, too. *)
Quiet == Aside /\ spill' = spill

LEMMA QuietOK ==
  ASSUME TypeInv, CallInv, CallInv', CacheInv, UseInv, call.todo # << >>, Steers, Quiet,
         PinsResident,
         Head(call.todo).do \notin LeaseDo2 \union {"invalidate"},
         Head(call.todo).do \in HeadDo => rt'.asyncQ /\ rt'.poisoned,
         call'.op = "release" => rt'.poisoned = rt.poisoned,
         ~rt'.poisoned /\ call.op \in {"release", "write"} => \A k \in Touched \intersect Key :
           /\ AtKey("unmapIfClean", k) => chunk[k].state = "host_clean"
           /\ AtKey("writebackIfDirty", k) => chunk[k].state # "resident_dirty"
  PROVE  CacheInv' /\ UseInv'
<1>1. \A k \in Key : spill'[k] = spill[k] /\ (Dirty(k) => Dirty(k)') /\ ~AtKey("invalidate", k)
  BY DEF Quiet, Aside, Dirty, AtKey, At
<1>2. SpillsUsed'
  BY <1>1, SpillsKept DEF Quiet, Aside, CacheInv
<1> QED BY <1>2, AsideOK DEF Quiet

-----------------------------------------------------------------------------
(* Every quiet step. *)

(* What may become of the call after its first task. *)
Proceeds ==
  \/ \E status : Fail(status)
  \/ Fails
  \/ Detour
  \/ /\ Continue \/ Leads(Tail(call.todo))
     /\ \A k \in Key : MakesResident(Head(call.todo), k) => IsResident(chunk'[k])

LEMMA Progress ==
  ASSUME TypeInv, CallInv, CallInv', call.todo # << >>, Head(call.todo).do # "forEach", Proceeds
  PROVE  /\ Steers /\ PinsResident
         /\ (\E status : Fail(status)) /\ call.op \in {"release", "write"} => call'.op = "none"
<1>1. PinsNothing => PinsResident
  BY DEF PinsNothing, PinsResident, AtKey, At
<1>2. ASSUME NEW status, Fail(status) PROVE Steers /\ PinsNothing
                                          /\ (call.op \in {"release", "write"} => call' = NoCall)
  BY <1>2, Stops
<1>3. CASE Fails
  BY <1>1, <1>3, GivesUp, IdleProper, <1>2
<1>4. CASE Detour
  BY <1>1, <1>4, TurnsAside, IdleProper, <1>2
<1>5. CASE /\ Continue \/ Leads(Tail(call.todo))
           /\ \A k \in Key : MakesResident(Head(call.todo), k) => IsResident(chunk'[k])
  <2>1. Leads(Tail(call.todo))
    BY <1>5, Continues
  <2>2. Steers /\ \A k \in Key : AtKey("pin", k)' => MakesResident(Head(call.todo), k)
    BY <2>1, GoesOn
  <2> QED BY <1>2, <1>5, <2>2, IdleProper DEF PinsResident
<1>6. CASE \E status : Fail(status)
  BY <1>1, <1>2, <1>6, IdleProper
<1> QED BY <1>3, <1>4, <1>5, <1>6 DEF Proceeds

LEMMA QuietTask ==
  ASSUME TypeInv, CallInv, CallInv', CacheInv, UseInv, call.todo # << >>, Proceeds, Quiet,
         Head(call.todo).do \notin LeaseDo2 \union
           {"forEach", "invalidate", "unmapIfClean", "writebackIfDirty"},
         Head(call.todo).do \in HeadDo => rt'.asyncQ /\ rt'.poisoned,
         call.op = "release" => rt'.poisoned = rt.poisoned \/ \E status : Fail(status)
  PROVE  CacheInv' /\ UseInv'
<1>1. /\ Steers /\ PinsResident
      /\ (\E status : Fail(status)) /\ call.op \in {"release", "write"} => call'.op = "none"
  BY Progress
<1>2. call'.op = "release" => rt'.poisoned = rt.poisoned
  <2>1. call'.op = "release" => call.op = "release"
    BY <1>1 DEF Steers, Keeps, CallInv
  <2> QED BY <1>1, <2>1
<1>3. \A k : ~AtKey("unmapIfClean", k) /\ ~AtKey("writebackIfDirty", k)
  BY DEF AtKey, At
<1>4. Head(call.todo).do \notin LeaseDo2 \union {"invalidate"}
  OBVIOUS
<1> QED BY <1>1, <1>2, <1>3, <1>4, QuietOK

(* A step that changes no variable that CacheInv and UseInv depend on, but *)
(* for the task list.                                                      *)
Untouched == UNCHANGED <<chunk, spill, owner, lease, gpu, dma, rt>> /\ SameKeys

LEMMA UntouchedOK ==
  ASSUME Untouched
  PROVE  Quiet /\ rt' = rt
BY DEF Untouched, Quiet, Aside, MayPoison, MayQuarantine

LEMMA UntouchedTask ==
  ASSUME TypeInv, CallInv, CallInv', CacheInv, UseInv, call.todo # << >>, Proceeds, Untouched,
         Head(call.todo).do \notin LeaseDo2 \union HeadDo \union
           {"forEach", "invalidate", "unmapIfClean", "writebackIfDirty"}
  PROVE  CacheInv' /\ UseInv'
<1>1. Quiet /\ rt' = rt
  BY UntouchedOK
<1>2. Head(call.todo).do \in HeadDo => rt'.asyncQ /\ rt'.poisoned
  OBVIOUS
<1>3. Head(call.todo).do \notin LeaseDo2 \union
           {"forEach", "invalidate", "unmapIfClean", "writebackIfDirty"}
  OBVIOUS
<1> QED BY <1>1, <1>2, <1>3, QuietTask

(* Tasks that only move the call on. *)
OnlyMoves ==
  \/ \E k \in Key : EnsureHit(k) \/ EnsureMiss(k) \/ GetHost(k) \/ \E f \in Frame : MapFails(k, f)
  \/ \E f \in Frame : CreateHandle(f) \/ CreateHandleFails(f) \/ DropMapping(f) \/ ReleaseTailHandle(f)
  \/ \E observed \in 0..MaxFrames :
       RefreshShrinks(observed) \/ RefreshKeeps(observed) \/ SetCapacity(observed)
  \/ RefreshSkipped \/ RefreshFails \/ CheckCapacity \/ FailTask \/ Catching
  \/ PollNotReady \/ CheckSources

LEMMA OnlyMovesOK ==
  ASSUME TypeInv, CallInv, CallInv', CacheInv, UseInv, OnlyMoves
  PROVE  CacheInv' /\ UseInv'
<1> DEFINE Plainly == /\ call.todo # << >> /\ Proceeds /\ Untouched
                      /\ Head(call.todo).do \notin LeaseDo2 \union HeadDo \union
                           {"forEach", "invalidate", "unmapIfClean", "writebackIfDirty"}
<1>1. Plainly => CacheInv' /\ UseInv'
  BY UntouchedTask
<1>2. ASSUME NEW f \in Frame, NEW b \in BOOLEAN, frame' = [frame EXCEPT ![f].handle = b]
      PROVE  SameKeys
  BY <1>2, FrameTypes DEF SameKeys
<1>3. \A t, k : t.do \notin {"fail", "ensure", "map", "h2d"} => ~MakesResident(t, k)
  BY DEF MakesResident
<1>4. ASSUME NEW k \in Key, EnsureHit(k) PROVE Plainly
  <2>1. \A j \in Key : MakesResident(Head(call.todo), j) => IsResident(chunk'[j])
    BY <1>4 DEF EnsureHit, AtKey, At, MakesResident
  <2> QED BY <1>4, <2>1 DEF EnsureHit, AtKey, At, Proceeds, Untouched, SameKeys, LeaseDo2, HeadDo
<1>5. ASSUME NEW k \in Key, EnsureMiss(k) PROVE Plainly
  BY <1>5, EnsureMissCall DEF EnsureMiss, AtKey, At, Proceeds, Untouched, SameKeys, LeaseDo2, HeadDo
<1>6. ASSUME NEW k \in Key, GetHost(k) PROVE Plainly
  BY <1>3, <1>6 DEF GetHost, AtKey, At, Proceeds, Untouched, SameKeys, LeaseDo2, HeadDo
<1>7. ASSUME NEW k \in Key, NEW f \in Frame, MapFails(k, f) PROVE Plainly
  BY <1>7 DEF MapFails, AtKey, At, Proceeds, Untouched, SameKeys, LeaseDo2, HeadDo
<1>8. ASSUME NEW f \in Frame, CreateHandle(f) PROVE Plainly
  BY <1>2, <1>3, <1>8 DEF CreateHandle, AtFrame, At, Proceeds, Untouched, LeaseDo2, HeadDo
<1>9. ASSUME NEW f \in Frame, CreateHandleFails(f) PROVE Plainly
  BY <1>9, CreateFailsCall
     DEF CreateHandleFails, AtFrame, At, Proceeds, Untouched, SameKeys, LeaseDo2, HeadDo
<1>10. ASSUME NEW f \in Frame, DropMapping(f) PROVE Plainly
  BY <1>10, DropMappingCall
     DEF DropMapping, AtFrame, At, Proceeds, Untouched, SameKeys, LeaseDo2, HeadDo
<1>11. ASSUME NEW f \in Frame, ReleaseTailHandle(f) PROVE Plainly
  <2>1. SameKeys
    BY <1>2, <1>11 DEF ReleaseTailHandle, SameKeys
  <2> QED BY <1>3, <1>11, <2>1 DEF ReleaseTailHandle, AtFrame, At, Proceeds, Untouched, LeaseDo2, HeadDo
<1>12. ASSUME NEW observed \in 0..MaxFrames, RefreshShrinks(observed) PROVE Plainly
  BY <1>12, RefreshShrinksCall
     DEF RefreshShrinks, AtRefresh, At, Proceeds, Untouched, SameKeys, LeaseDo2, HeadDo
<1>13. ASSUME NEW observed \in 0..MaxFrames, RefreshKeeps(observed) PROVE Plainly
  BY <1>3, <1>13 DEF RefreshKeeps, AtRefresh, At, Proceeds, Untouched, SameKeys, LeaseDo2, HeadDo
<1>14. ASSUME NEW observed \in 0..MaxFrames, SetCapacity(observed) PROVE Plainly
  BY <1>3, <1>14 DEF SetCapacity, AtFrame, At, Proceeds, Untouched, SameKeys, LeaseDo2, HeadDo
<1>15. ASSUME RefreshSkipped \/ RefreshFails \/ CheckCapacity PROVE Plainly
  BY <1>3, <1>15 DEF RefreshSkipped, RefreshFails, CheckCapacity, AtRefresh, At, Proceeds, Untouched,
     SameKeys, LeaseDo2, HeadDo
<1>16. ASSUME FailTask \/ Catching \/ PollNotReady \/ CheckSources PROVE Plainly
  BY <1>3, <1>16 DEF FailTask, Catching, PollNotReady, CheckSources, At, Proceeds, Untouched,
     SameKeys, LeaseDo2, HeadDo
<1> HIDE DEF Plainly
<1> QED
  BY <1>1, <1>4, <1>5, <1>6, <1>7, <1>8, <1>9, <1>10, <1>11, <1>12, <1>13, <1>14, <1>15, <1>16
  DEF OnlyMoves

LEMMA QuarantineKeeps ==
  ASSUME TypeInv, NEW k \in Key, owner' = QuarantineVa(k)
  PROVE  MayQuarantine
<1>1. \A a \in Alloc : owner[a] \in [live: BOOLEAN, va: {"none", "held", "quarantined", "retired", "freed"}]
  BY DEF TypeInv, DataInv, TypeOK
<1> QED BY <1>1 DEF QuarantineVa, MayQuarantine, TypeInv, DataInv, TypeOK

LEMMA QuarantinedKeys ==
  ASSUME NEW f, frame' = [frame EXCEPT ![f].quarantined = TRUE]
  PROVE  SameKeys
BY DEF SameKeys

LEMMA FrameKeys ==
  ASSUME TypeInv
  PROVE  /\ \A f \in Frame : /\ frame[f].key \in Key \union {None} /\ (Mapped(f) => frame[f].key \in Key)
                             /\ frame[f] \in [handle: BOOLEAN, key: Key \union {None}, quarantined: BOOLEAN]
         /\ None \notin Key /\ None \notin Frame
BY FrameTypes, NoneAssumption DEF TypeInv, DataInv, TypeOK, Mapped

LEMMA PoisonKeeps ==
  ASSUME TypeInv, UseInv, call.todo # << >>
  PROVE  /\ rt' = rt \/ rt' = Poisoned \/ rt' = AsyncUnknown => MayPoison
         /\ rt' = [Poisoned EXCEPT !.closeOk = FALSE] => MayPoison
         /\ rt' = [rt EXCEPT !.closeOk = FALSE] => MayPoison /\ rt'.poisoned = rt.poisoned
         /\ rt' = AsyncUnknown => rt'.asyncQ /\ rt'.poisoned
<1>1. rt \in RtType
  BY RtTypes DEF TypeInv
<1>2. rt' = Poisoned => MayPoison
  BY <1>1 DEF MayPoison, Poisoned, RtType
<1>3. rt' = AsyncUnknown => MayPoison /\ rt'.asyncQ /\ rt'.poisoned
  BY <1>1 DEF MayPoison, AsyncUnknown, RtType
<1>4. rt' = [Poisoned EXCEPT !.closeOk = FALSE] => MayPoison
  BY <1>1 DEF MayPoison, Poisoned, RtType
<1>5. rt' = [rt EXCEPT !.closeOk = FALSE] => MayPoison /\ rt'.poisoned = rt.poisoned
  BY <1>1 DEF MayPoison, RtType
<1>6. rt' = rt => MayPoison
  BY DEF MayPoison
<1> QED BY <1>2, <1>3, <1>4, <1>5, <1>6

LEMMA MapRefusedOK ==
  ASSUME TypeInv, CallInv, CallInv', CacheInv, UseInv, NEW k \in Key, NEW f \in Frame,
         MapRefused(k, f)
  PROVE  CacheInv' /\ UseInv'
<1>1. /\ call.todo # << >> /\ Head(call.todo).do = "map" /\ Proceeds
      /\ \E status : Fail(status)
  BY DEF MapRefused, AtKey, At, Proceeds
<1>2. Quiet
  BY <1>1, PoisonKeeps DEF MapRefused, Quiet, Aside, SameKeys, MayQuarantine
<1> QED BY <1>1, <1>2, QuietTask DEF LeaseDo2, HeadDo

LEMMA TransferStuckOK ==
  ASSUME TypeInv, CallInv, CallInv', CacheInv, UseInv, NEW k \in Key, TransferStuck(k)
  PROVE  CacheInv' /\ UseInv'
<1>1. /\ call.todo # << >> /\ Head(call.todo).do \in {"h2d", "d2h"} /\ Proceeds
      /\ \E status : Fail(status)
  BY DEF TransferStuck, AtKey, At, Proceeds
<1>2. Quiet /\ rt'.asyncQ /\ rt'.poisoned
  BY <1>1, PoisonKeeps DEF TransferStuck, Quiet, Aside, SameKeys, MayQuarantine
<1> QED BY <1>1, <1>2, QuietTask DEF LeaseDo2, HeadDo

LEMMA RetireFailedStuckOK ==
  ASSUME TypeInv, CallInv, CallInv', CacheInv, UseInv, NEW k \in Key, RetireFailedH2d(k),
         UNCHANGED chunk, \E status : Fail(status), rt' = AsyncUnknown, owner' = QuarantineVa(k),
         SameKeys
  PROVE  CacheInv' /\ UseInv'
<1>1. /\ call.todo # << >> /\ Head(call.todo).do = "retireH2d" /\ Proceeds
  BY DEF RetireFailedH2d, AtKey, At, Proceeds
<1>2. Quiet /\ rt'.asyncQ /\ rt'.poisoned
  <2>1. UNCHANGED <<spill, lease, gpu, dma>>
    BY DEF RetireFailedH2d
  <2>2. MayQuarantine
    BY QuarantineKeeps
  <2>3. MayPoison /\ rt'.asyncQ /\ rt'.poisoned
    BY <1>1, PoisonKeeps
  <2> QED BY <2>1, <2>2, <2>3 DEF Quiet, Aside
<1> QED BY <1>1, <1>2, QuietTask DEF LeaseDo2, HeadDo

LEMMA CloseFrameOK ==
  ASSUME TypeInv, CallInv, CallInv', CacheInv, UseInv, NEW f \in Frame, CloseFrame(f)
  PROVE  CacheInv' /\ UseInv'
<1>1. call.todo # << >> /\ Head(call.todo).do = "closeFrame"
  BY DEF CloseFrame, AtFrame, At
<1>2. call.op = "close" /\ Proceeds
  BY <1>1, CloseFrameCall DEF Proceeds, MakesResident
<1>3. SameKeys
  <2>1. frame' = frame \/ frame' = [frame EXCEPT ![f].quarantined = TRUE]
    BY DEF CloseFrame
  <2> QED BY <2>1, QuarantinedKeys DEF SameKeys
<1>4. MayPoison
  BY <1>1, PoisonKeeps DEF CloseFrame
<1>5. MayQuarantine
  <2>1. Mapped(f) => frame[f].key \in Key
    BY FrameKeys
  <2>2. owner' = owner \/ (Mapped(f) /\ owner' = QuarantineVa(frame[f].key))
    BY DEF CloseFrame
  <2>3. owner' = owner => MayQuarantine
    BY DEF MayQuarantine
  <2> QED BY <2>1, <2>2, <2>3, QuarantineKeeps
<1>6. Quiet
  BY <1>3, <1>4, <1>5 DEF CloseFrame, Quiet, Aside
<1> QED BY <1>1, <1>2, <1>6, QuietTask DEF LeaseDo2, HeadDo

LEMMA CloseCheckOK ==
  ASSUME TypeInv, CallInv, CallInv', CacheInv, UseInv, NEW f \in Frame, CloseCheck(f)
  PROVE  CacheInv' /\ UseInv'
<1>1. call.todo # << >> /\ Head(call.todo).do = "closeCheck"
  BY DEF CloseCheck, AtFrame, At
<1>2. call.op = "close" /\ Proceeds
  BY <1>1, CloseTask DEF CloseCheck, Proceeds, MakesResident, AtFrame, CloseDo
<1>3. SameKeys
  BY DEF CloseCheck, SameKeys
<1>4. MayPoison
  BY <1>1, PoisonKeeps DEF CloseCheck
<1>5. MayQuarantine
  <2>1. Mapped(f) => frame[f].key \in Key
    BY FrameKeys
  <2>2. owner' = owner \/ (Mapped(f) /\ owner' = QuarantineVa(frame[f].key))
    BY DEF CloseCheck
  <2>3. owner' = owner => MayQuarantine
    BY DEF MayQuarantine
  <2> QED BY <2>1, <2>2, <2>3, QuarantineKeeps
<1>6. Quiet
  BY <1>3, <1>4, <1>5 DEF CloseCheck, Quiet, Aside
<1> QED BY <1>1, <1>2, <1>6, QuietTask DEF LeaseDo2, HeadDo

LEMMA WritebackSkippedOK ==
  ASSUME TypeInv, CallInv, CallInv', CacheInv, UseInv, NEW k \in Key, WritebackSkipped(k)
  PROVE  CacheInv' /\ UseInv'
<1>1. /\ call.todo # << >> /\ Head(call.todo).do = "writebackIfDirty" /\ Head(call.todo).key = k
      /\ Continue /\ chunk[k].state # "resident_dirty" /\ Untouched
  BY DEF WritebackSkipped, AtKey, At, Untouched, SameKeys
<1>2. Proceeds
  BY <1>1 DEF Proceeds, MakesResident
<1>3. Steers /\ PinsResident
  BY <1>1, <1>2, Progress
<1>4. Quiet /\ rt' = rt
  BY <1>1, UntouchedOK
<1>5. \A j \in Key : /\ AtKey("unmapIfClean", j) => chunk[j].state = "host_clean"
                     /\ AtKey("writebackIfDirty", j) => chunk[j].state # "resident_dirty"
  BY <1>1 DEF AtKey, At
<1>6. Head(call.todo).do \notin LeaseDo2 \union {"invalidate"} /\ Head(call.todo).do \notin HeadDo
  BY <1>1 DEF LeaseDo2, HeadDo
<1> QED BY <1>1, <1>3, <1>4, <1>5, <1>6, QuietOK

(* unmapIfClean comes after the writeback of its chunk. *)
LEMMA UnmapSkippedOK ==
  ASSUME TypeInv, CallInv, CallInv', CacheInv, UseInv, NEW k \in Key, UnmapSkipped(k)
  PROVE  CacheInv' /\ UseInv'
<1>1. /\ call.todo # << >> /\ Head(call.todo).do = "unmapIfClean" /\ Head(call.todo).key = k
      /\ Continue /\ chunk[k].state # "resident_clean" /\ Untouched
  BY DEF UnmapSkipped, AtKey, At, Untouched, SameKeys
<1>2. Proceeds
  BY <1>1 DEF Proceeds, MakesResident
<1>3. Steers /\ PinsResident
  BY <1>1, <1>2, Progress
<1>4. Quiet /\ rt' = rt
  BY <1>1, UntouchedOK
<1>5. ASSUME ~rt.poisoned, call.op \in {"release", "write"}, k \in Touched
      PROVE  chunk[k].state = "host_clean"
  <2>1. ~Pending("writebackIfDirty", k)
    <3>1. call \in CallRecord /\ ListOK(call.op, Touched, call.todo)
      BY DEF TypeInv, CallOK, CallInv, Proper
    <3>2. /\ Work(call.todo) = WorkOf(Head(call.todo)) \union Work(Tail(call.todo))
          /\ \A v \in WorkOf(Head(call.todo)), w \in Work(Tail(call.todo)) : InOrder(call.op, v, w)
          /\ Head(call.todo) \in Tasks
      BY <1>1, <3>1, TailOK
    <3>3. WorkOf(Head(call.todo)) = {KeyTask("unmapIfClean", k)}
      <4>1. "unmapIfClean" \in KeyDo \union {"d2h", "map"}
        BY DEF KeyDo, LoopDo
      <4> QED BY <1>1, <3>2, <4>1, WorkOfTask
    <3>4. KeyTask("writebackIfDirty", k) \notin Work(Tail(call.todo))
      <4> SUFFICES ASSUME KeyTask("writebackIfDirty", k) \in Work(Tail(call.todo)) PROVE FALSE
        OBVIOUS
      <4>1. InOrder(call.op, KeyTask("unmapIfClean", k), KeyTask("writebackIfDirty", k))
        BY <3>2, <3>3
      <4> QED BY <1>5, <4>1 DEF InOrder, KeyTask
    <3>5. KeyTask("writebackIfDirty", k) # KeyTask("unmapIfClean", k)
      BY DEF KeyTask
    <3> QED BY <3>2, <3>3, <3>4, <3>5 DEF Pending
  <2>2. chunk[k].state # "resident_dirty"
    BY <1>5, <2>1 DEF CacheInv, FlushPending
  <2>3. chunk[k].state \in AtRest
    BY <1>1, <1>5 DEF CacheInv, NoneStuck, Moving, AtKey, At
  <2> QED BY <1>1, <2>2, <2>3 DEF AtRest
<1>6. ~rt'.poisoned /\ call.op \in {"release", "write"} => \A j \in Touched \intersect Key :
        /\ AtKey("unmapIfClean", j) => chunk[j].state = "host_clean"
        /\ AtKey("writebackIfDirty", j) => chunk[j].state # "resident_dirty"
  BY <1>1, <1>4, <1>5 DEF AtKey, At
<1>7. Head(call.todo).do \notin LeaseDo2 \union {"invalidate"} /\ Head(call.todo).do \notin HeadDo
  BY <1>1 DEF LeaseDo2, HeadDo
<1> QED BY <1>1, <1>3, <1>4, <1>6, <1>7, QuietOK

-----------------------------------------------------------------------------
(* Steps that move one chunk which is not pinned. *)

OneChunk(k) ==
  /\ \A j \in Key \ {k} : /\ chunk'[j] = chunk[j]
                          /\ \A f \in Frame : frame'[f].key = j <=> frame[f].key = j
  /\ lease' = lease /\ gpu' = gpu
  /\ MayPoison /\ MayQuarantine

LEMMA OneChunkUse ==
  ASSUME TypeInv, CallInv', UseInv, call.todo # << >>, Keeps, NEW k \in Key, OneChunk(k),
         chunk[k].pin = 0, Head(call.todo).do \notin LeaseDo2
  PROVE  UseInv'
<1>1. \A j \in Key \ {k} : OnDevice(j) => OnDevice(j)'
  BY DEF OneChunk, OnDevice
<1>2. \A j \in Key : chunk[j].pin > 0 => j # k
  OBVIOUS
<1>3. Beside
  BY <1>1, <1>2 DEF Beside, OneChunk, MayPoison
<1> QED BY <1>3, BesideOK

LEMMA OneChunkMappings ==
  ASSUME Mappings, NEW k \in Key, OneChunk(k), ~rt.closed, RecordOK(chunk'[k]),
         \A f \in Frame : chunk'[k].frame = f <=> frame'[f].key = k
  PROVE  Mappings'
BY DEF Mappings, Links, OneChunk, MayPoison

LEMMA OneChunkStuck ==
  ASSUME NoneStuck, NEW k \in Key, OneChunk(k), \A j \in Key \ {k} : ~Moving(j),
         ~rt'.poisoned => chunk'[k].state \in AtRest \/ Moving(k)'
  PROVE  NoneStuck'
BY DEF NoneStuck, OneChunk, MayPoison

LEMMA OneChunkSpills ==
  ASSUME SpillsUsed, NEW k \in Key, OneChunk(k), \A j \in Key : ~AtKey("invalidate", j),
         \A j \in Key \ {k} : spill'[j] = spill[j],
         ~rt'.poisoned => spill'[k] = "none" \/ (spill'[k] = spill[k] /\ (Dirty(k) => Dirty(k)'))
  PROVE  SpillsUsed'
BY DEF SpillsUsed, OneChunk, MayPoison, Dirty

LEMMA OneChunkFlush ==
  ASSUME TypeInv, FlushPending, CallInv', Keeps, NEW k \in Key, OneChunk(k),
         call'.op = "release" => rt'.poisoned = rt.poisoned,
         ~rt'.poisoned /\ call.op \in {"release", "write"} =>
           /\ chunk'[k].state # "host_clean" => chunk[k].state # "host_clean"
           /\ chunk'[k].state = "resident_dirty" => chunk[k].state = "resident_dirty",
         ~rt'.poisoned /\ call.op \in {"release", "write"} => \A j \in Key :
           /\ AtKey("unmapIfClean", j) => chunk'[j].state = "host_clean"
           /\ AtKey("writebackIfDirty", j) => chunk'[j].state # "resident_dirty"
  PROVE  FlushPending'
<1>1. Touched \subseteq Key
  BY DEF TypeInv, CallOK, CallRecord, PlanSet, Touched, Plan
<1>2. ~rt'.poisoned /\ call.op \in {"release", "write"} => \A j \in Touched \intersect Key :
        /\ chunk'[j].state # "host_clean" => chunk[j].state # "host_clean" /\ ~AtKey("unmapIfClean", j)
        /\ chunk'[j].state = "resident_dirty" =>
             chunk[j].state = "resident_dirty" /\ ~AtKey("writebackIfDirty", j)
  BY DEF OneChunk
<1> QED BY <1>1, <1>2, FlushKept DEF OneChunk

(* A chunk of the plan is mapped. *)
LEMMA OwnedMore ==
  ASSUME TypeInv, CallInv', Owned, Keeps, MayPoison, MayQuarantine, ~rt.closed,
         NEW k \in Touched, call.op \in {"prefetch", "acquire"},
         \A f \in Frame : frame'[f].key \in {None, frame[f].key, k}
  PROVE  Owned'
<1>1. call'.op \in {"prefetch", "acquire", "release"} =>
        call'.op = call.op /\ call'.plan = call.plan /\ Touched' = Touched
  BY DEF Keeps, CallInv, Touched, Plan
<1>2. k \in Key /\ AllocOf[k] \in Alloc /\ owner[AllocOf[k]].live
  BY RuntimeAssumption DEF Owned, LiveKeys
<1>3. \A f \in Frame : Mapped(f)' => \/ Mapped(f) /\ frame'[f].key = frame[f].key
                                     \/ frame'[f].key = k
  BY DEF Mapped
<1>4. \A f \in Frame : Mapped(f) => AllocOf[frame[f].key] \in Alloc
  BY RuntimeAssumption DEF Mapped, TypeInv, DataInv, TypeOK
<1>5. LiveKeys' = LiveKeys
  BY RuntimeAssumption DEF LiveKeys, MayQuarantine
<1>6. ~rt'.closed => \A a \in Alloc : owner'[a].live => owner'[a].va \in {"held", "quarantined"}
  BY DEF Owned, MayPoison, MayQuarantine
<1>7. ASSUME NEW f \in Frame, Mapped(f)'
      PROVE  /\ ~rt'.closed => owner'[AllocOf[frame'[f].key]].live
             /\ owner'[AllocOf[frame'[f].key]].va \in {"held", "quarantined"}
  <2>1. CASE Mapped(f) /\ frame'[f].key = frame[f].key
    BY <1>4, <2>1 DEF Owned, MayPoison, MayQuarantine
  <2>2. CASE frame'[f].key = k
    BY <1>2, <2>2 DEF Owned, MayPoison, MayQuarantine
  <2> QED BY <1>3, <1>7, <2>1, <2>2
<1>8. call'.op = "release" => Touched' = KeysOf(AllocOf[Least(Touched')])
  BY <1>1
<1>9. call'.op \in {"prefetch", "acquire"} => Touched' \subseteq LiveKeys'
  BY <1>1, <1>5 DEF Owned
<1> QED BY <1>6, <1>7, <1>8, <1>9 DEF Owned

LEMMA Records ==
  ASSUME TypeInv
  PROVE  /\ chunk \in [Key -> ChunkRecord]
         /\ \A k \in Key : chunk[k] \in ChunkRecord /\ chunk[k].pin \in Nat
                           /\ chunk[k].frame \in Frame \union {None}
BY DEF TypeInv, DataInv, TypeOK, FramesOK, ChunkRecord

LEMMA Completed ==
  ASSUME NEW r \in ChunkRecord, r.completed <= r.event, NEW gen
  PROVE  LET c == CompleteGeneration(r, gen)
         IN  /\ c \in ChunkRecord /\ c.completed <= c.event
             /\ c.state = r.state /\ c.pin = r.pin /\ c.ws = r.ws
             /\ c.frame = r.frame /\ c.staging = r.staging
<1> DEFINE done == [r EXCEPT !.event = 1, !.completed = 1]
<1>1. /\ done \in ChunkRecord /\ done.completed = 1 /\ done.event = 1
      /\ done.state = r.state /\ done.pin = r.pin /\ done.ws = r.ws
      /\ done.frame = r.frame /\ done.staging = r.staging
  BY DEF ChunkRecord
<1>2. CompleteGeneration(r, gen) \in {r, done}
  BY DEF CompleteGeneration
<1> HIDE DEF done
<1>3. done.completed <= done.event
  BY <1>1
<1> QED BY <1>1, <1>2, <1>3

LEMMA RetiredRecord ==
  ASSUME TypeInv, NEW k \in Key, RecordOK(chunk[k]), chunk[k].state \in InFlight
  PROVE  /\ chunk[k].pin = 0 /\ chunk[k].frame # None
         /\ RecordOK(Retired(k)[k])
         /\ Retired(k)[k].state = "resident_clean" /\ Retired(k)[k].frame = chunk[k].frame
         /\ \A j \in Key \ {k} : Retired(k)[j] = chunk[j]
<1>1. chunk \in [Key -> ChunkRecord] /\ chunk[k] \in ChunkRecord
  BY Records
<1>2. chunk[k].pin = 0 /\ chunk[k].frame # None /\ chunk[k].completed <= chunk[k].event
  BY <1>1 DEF RecordOK, InFlight, IsResident, ChunkRecord, ValidRecord, HasFrame
<1> DEFINE c == CompleteGeneration(chunk[k], chunk[k].event)
<1>3. /\ c \in ChunkRecord /\ c.frame = chunk[k].frame /\ c.pin = 0 /\ c.completed <= c.event
  BY <1>1, <1>2, Completed
<1> HIDE DEF c
<1> DEFINE r == [c EXCEPT !.state = "resident_clean", !.staging = None]
<1>4. r.frame = chunk[k].frame /\ r.pin = 0 /\ r.completed <= r.event /\ r.state = "resident_clean"
      /\ r.staging = None
  BY <1>3 DEF ChunkRecord
<1>5. Retired(k) = [chunk EXCEPT ![k] = r]
  BY DEF Retired, c
<1> HIDE DEF r
<1>6. RecordOK(r)
  BY <1>2, <1>4 DEF RecordOK, ValidRecord, IsResident, AtRest, HasFrame, RequiresStaging, ForbidsStaging
<1> QED BY <1>1, <1>2, <1>4, <1>5, <1>6

(* What is left to show of such a step. *)
LEMMA OneChunkOK ==
  ASSUME TypeInv, CallInv', CacheInv, UseInv, call.todo # << >>, Keeps,
         NEW k \in Key, OneChunk(k), chunk[k].pin = 0,
         Head(call.todo).do \notin LeaseDo2,
         RecordOK(chunk'[k]), \A f \in Frame : chunk'[k].frame = f <=> frame'[f].key = k,
         \A j \in Key \ {k} : ~Moving(j),
         ~rt'.poisoned => chunk'[k].state \in AtRest \/ Moving(k)',
         call'.op = "release" => rt'.poisoned = rt.poisoned,
         ~rt'.poisoned /\ call.op \in {"release", "write"} =>
           /\ chunk'[k].state # "host_clean" => chunk[k].state # "host_clean"
           /\ chunk'[k].state = "resident_dirty" => chunk[k].state = "resident_dirty"
           /\ \A j \in Key : /\ AtKey("unmapIfClean", j) => chunk'[j].state = "host_clean"
                             /\ AtKey("writebackIfDirty", j) => chunk'[j].state # "resident_dirty",
         HeadsReady', Copies', SpillsUsed', Owned'
  PROVE  CacheInv' /\ UseInv'
<1>1. UseInv'
  BY OneChunkUse
<1>2. Mappings'
  BY InCall, OneChunkMappings DEF CacheInv
<1>3. NoneStuck'
  BY OneChunkStuck DEF CacheInv
<1>4. FlushPending'
  BY OneChunkFlush DEF CacheInv
<1> QED BY <1>1, <1>2, <1>3, <1>4 DEF CacheInv

LEMMA H2dDoneOK ==
  ASSUME TypeInv, CallInv, CallInv', CacheInv, UseInv, NEW k \in Key, H2dDone(k)
  PROVE  CacheInv' /\ UseInv'
<1>1. /\ call.todo # << >> /\ Head(call.todo).do = "h2d" /\ Head(call.todo).key = k
      /\ Continue /\ chunk' = Retired(k) /\ dma' = {d \in dma : d.key # k}
      /\ UNCHANGED <<frame, owner, rt, spill, lease, gpu>>
  BY DEF H2dDone, AtKey, At
<1>2. ~rt.closed
  BY <1>1, InCall
<1>3. chunk[k].state = "h2d_in_flight" /\ RecordOK(chunk[k])
  BY <1>1, <1>2 DEF CacheInv, HeadsReady, Mappings, AtKey, At
<1>4. /\ chunk[k].pin = 0 /\ RecordOK(chunk'[k])
      /\ chunk'[k].state = "resident_clean" /\ chunk'[k].frame = chunk[k].frame
      /\ \A j \in Key \ {k} : chunk'[j] = chunk[j]
  BY <1>1, <1>3, RetiredRecord DEF InFlight
<1>5. OneChunk(k) /\ \A f \in Frame : chunk'[k].frame = f <=> frame'[f].key = k
  BY <1>1, <1>2, <1>4 DEF OneChunk, MayPoison, MayQuarantine, CacheInv, Mappings, Links
<1>6. Steers /\ PinsResident
  <2>1. \A j \in Key : MakesResident(Head(call.todo), j) => IsResident(chunk'[j])
    BY <1>1, <1>4 DEF MakesResident, IsResident
  <2> QED BY <1>1, <2>1, Progress DEF Proceeds
<1>7. call.op \in {"prefetch", "acquire"}
  BY AtTask, <1>1 DEF H2dDone, AtKey, TypeInv, CallOK, Permitted, FetchDo, KeyTask, KeyDo
<1>8. HeadsReady'
  BY <1>6, HeadsKept
<1>9. Copies'
  <2>1. \A d \in dma' : d \in dma /\ chunk'[d.key].state \in InFlight
    BY <1>1, <1>2, <1>4 DEF CacheInv, Copies, TypeInv, DataInv, TypeOK
  <2>2. \A d \in dma' : rt'.asyncQ \/ (~AtKey("h2d", d.key) /\ ~AtKey("d2h", d.key))
    BY <1>1 DEF AtKey, At
  <2> QED BY <1>2, <1>5, <2>1, <2>2, CopiesKept DEF CacheInv, OneChunk
<1>10. SpillsUsed'
  <2>1. \A j \in Key : ~AtKey("invalidate", j)
    BY <1>1 DEF AtKey, At
  <2>2. ~Dirty(k)
    BY <1>3 DEF Dirty
  <2> QED BY <1>1, <1>5, <2>1, <2>2, OneChunkSpills DEF CacheInv
<1>11. Owned'
  BY <1>1, <1>5, <1>6, OwnedKept DEF CacheInv, OneChunk, Steers
<1>12. \A j \in Key \ {k} : ~Moving(j)
  BY <1>1 DEF Moving, AtKey, At
<1> QED
  BY <1>1, <1>4, <1>5, <1>6, <1>7, <1>8, <1>9, <1>10, <1>11, <1>12, OneChunkOK
  DEF LeaseDo2, Steers, AtRest

LEMMA RetireFailedH2dOK ==
  ASSUME TypeInv, CallInv, CallInv', CacheInv, UseInv, NEW k \in Key, RetireFailedH2d(k)
  PROVE  CacheInv' /\ UseInv'
<1>1. /\ call.todo # << >> /\ Head(call.todo).do = "retireH2d" /\ Head(call.todo).key = k
      /\ UNCHANGED <<spill, lease, gpu, dma>>
  BY DEF RetireFailedH2d, AtKey, At
<1>2. CASE chunk' = Retired(k) /\ Continue /\ UNCHANGED <<frame, owner, rt>>
  <2>1. ~rt.closed
    BY <1>1, InCall
  <2>2. /\ chunk[k].state = "h2d_in_flight" /\ RecordOK(chunk[k])
        /\ \A d \in dma : d.key # k
    BY <1>1, <2>1 DEF CacheInv, HeadsReady, Mappings, AtKey, At
  <2>3. /\ chunk[k].pin = 0 /\ RecordOK(chunk'[k])
        /\ chunk'[k].state = "resident_clean" /\ chunk'[k].frame = chunk[k].frame
        /\ \A j \in Key \ {k} : chunk'[j] = chunk[j]
    BY <1>2, <2>2, RetiredRecord DEF InFlight
  <2>4. OneChunk(k) /\ \A f \in Frame : chunk'[k].frame = f <=> frame'[f].key = k
    BY <1>1, <1>2, <2>1, <2>3 DEF OneChunk, MayPoison, MayQuarantine, CacheInv, Mappings, Links
  <2>5. Steers /\ PinsResident
    <3>1. \A j \in Key : ~MakesResident(Head(call.todo), j)
      BY <1>1 DEF MakesResident
    <3> QED BY <1>1, <1>2, <3>1, Progress DEF Proceeds
  <2>6. call.op \in {"prefetch", "acquire"}
    BY AtTask, <1>1 DEF RetireFailedH2d, AtKey, TypeInv, CallOK, Permitted, FetchDo, KeyTask, KeyDo
  <2>7. HeadsReady'
    BY <2>5, HeadsKept
  <2>8. Copies'
    <3>1. \A d \in dma' : d \in dma /\ chunk'[d.key].state \in InFlight
      BY <1>1, <2>1, <2>2, <2>3 DEF CacheInv, Copies, TypeInv, DataInv, TypeOK
    <3>2. \A d \in dma' : rt'.asyncQ \/ (~AtKey("h2d", d.key) /\ ~AtKey("d2h", d.key))
      BY <1>1 DEF AtKey, At
    <3> QED BY <2>1, <2>4, <3>1, <3>2, CopiesKept DEF CacheInv, OneChunk
  <2>9. SpillsUsed'
    <3>1. \A j \in Key : ~AtKey("invalidate", j)
      BY <1>1 DEF AtKey, At
    <3>2. ~Dirty(k)
      BY <2>2 DEF Dirty
    <3> QED BY <1>1, <2>4, <3>1, <3>2, OneChunkSpills DEF CacheInv
  <2>10. Owned'
    BY <1>2, <2>4, <2>5, OwnedKept DEF CacheInv, OneChunk, Steers
  <2>11. \A j \in Key \ {k} : ~Moving(j)
    BY <1>1 DEF Moving, AtKey, At
  <2> QED
    BY <1>1, <1>2, <2>3, <2>4, <2>5, <2>6, <2>7, <2>8, <2>9, <2>10, <2>11, OneChunkOK
    DEF LeaseDo2, Steers, AtRest
<1>3. CASE UNCHANGED chunk /\ (\E status : Fail(status)) /\ rt' = AsyncUnknown
             /\ owner' = QuarantineVa(k) /\ frame' = [frame EXCEPT ![chunk[k].frame].quarantined = TRUE]
  BY <1>3, QuarantinedKeys, RetireFailedStuckOK
<1> QED BY <1>2, <1>3 DEF RetireFailedH2d

LEMMA D2hDoneOK ==
  ASSUME TypeInv, CallInv, CallInv', CacheInv, UseInv, NEW k \in Key, D2hDone(k)
  PROVE  CacheInv' /\ UseInv'
<1>1. /\ call.todo # << >> /\ Head(call.todo).do = "d2h" /\ Head(call.todo).key = k
      /\ dma' = {d \in dma : d.key # k}
      /\ UNCHANGED <<frame, owner, lease, gpu>>
  BY DEF D2hDone, AtKey, At
<1>2. ~rt.closed
  BY <1>1, InCall
<1>3. chunk[k].state = "d2h_in_flight" /\ RecordOK(chunk[k])
  BY <1>1, <1>2 DEF CacheInv, HeadsReady, Mappings, AtKey, At
<1>4. chunk[k].pin = 0 /\ \A f \in Frame : chunk[k].frame = f <=> frame[f].key = k
  BY <1>2, <1>3, RetiredRecord DEF InFlight, CacheInv, Mappings, Links
<1>5. Proceeds
  <2>1. \A j \in Key : ~MakesResident(Head(call.todo), j)
    BY <1>1 DEF MakesResident
  <2> QED BY <2>1 DEF D2hDone, Proceeds
<1>6. Steers /\ PinsResident /\ HeadsReady'
  BY <1>1, <1>5, Progress, HeadsKept
<1>7. rt' = rt \/ rt' = [rt EXCEPT !.blocked = TRUE]
  BY DEF D2hDone
<1>8. MayPoison /\ rt'.poisoned = rt.poisoned
  BY <1>7, RtTypes DEF MayPoison, TypeInv, RtType
<1>9. \A j \in Key : ~AtKey("invalidate", j) /\ ~AtKey("unmapIfClean", j) /\ ~AtKey("writebackIfDirty", j)
  BY <1>1 DEF AtKey, At
<1>10. \A j \in Key \ {k} : ~Moving(j)
  BY <1>1 DEF Moving, AtKey, At
<1>11. ASSUME \A j \in Key \ {k} : chunk'[j] = chunk[j] PROVE Copies'
  <2>1. \A d \in dma' : d \in dma /\ chunk'[d.key].state \in InFlight
    BY <1>1, <1>2, <1>11 DEF CacheInv, Copies, TypeInv, DataInv, TypeOK
  <2>2. \A d \in dma' : rt'.asyncQ \/ (~AtKey("h2d", d.key) /\ ~AtKey("d2h", d.key))
    BY <1>1 DEF AtKey, At
  <2> QED BY <1>2, <1>8, <2>1, <2>2, CopiesKept DEF CacheInv
<1>12. Owned'
  BY <1>1, <1>6, <1>8, OwnedKept DEF CacheInv, Steers, MayQuarantine
<1>13. Head(call.todo).do \notin LeaseDo2
  BY <1>1 DEF LeaseDo2
<1>14. CASE spill[k] = "stale" /\ UNCHANGED <<chunk, spill, rt>>
  <2>1. rt.poisoned
    BY <1>14 DEF CacheInv, SpillsUsed
  <2>2. OneChunk(k) /\ RecordOK(chunk'[k]) /\ \A f \in Frame : chunk'[k].frame = f <=> frame'[f].key = k
    BY <1>1, <1>3, <1>4, <1>8, <1>14 DEF OneChunk, MayQuarantine
  <2>3. Copies'
    BY <1>11, <1>14
  <2>4. SpillsUsed'
    BY <1>8, <2>1 DEF SpillsUsed
  <2> QED BY <1>1, <1>4, <1>6, <1>8, <1>10, <1>12, <1>13, <1>14, <2>1, <2>2, <2>3, <2>4, OneChunkOK DEF Steers
<1>15. CASE chunk' = Retired(k) /\ spill' = [spill EXCEPT ![k] = "none"]
  <2>1. /\ RecordOK(chunk'[k])
        /\ chunk'[k].state = "resident_clean" /\ chunk'[k].frame = chunk[k].frame
        /\ \A j \in Key \ {k} : chunk'[j] = chunk[j]
    BY <1>3, <1>15, RetiredRecord DEF InFlight
  <2>2. OneChunk(k) /\ \A f \in Frame : chunk'[k].frame = f <=> frame'[f].key = k
    BY <1>1, <1>4, <1>8, <2>1 DEF OneChunk, MayQuarantine
  <2>3. Copies'
    BY <1>11, <2>1
  <2>4. SpillsUsed'
    <3>1. spill'[k] = "none" /\ \A j \in Key \ {k} : spill'[j] = spill[j]
      BY <1>15 DEF TypeInv, DataInv, TypeOK
    <3>2. \A j \in Key : ~AtKey("invalidate", j)
      BY <1>9
    <3>3. ~rt'.poisoned => spill'[k] = "none" \/ (spill'[k] = spill[k] /\ (Dirty(k) => Dirty(k)'))
      BY <3>1
    <3>4. OneChunk(k) /\ SpillsUsed /\ \A j \in Key \ {k} : spill'[j] = spill[j]
      BY <2>2, <3>1 DEF CacheInv
    <3> HIDE <1>15
    <3> QED BY <3>2, <3>3, <3>4, OneChunkSpills
  <2>5. chunk'[k].state \in AtRest /\ chunk'[k].state # "resident_dirty" /\ chunk[k].state # "host_clean"
    BY <1>3, <2>1 DEF AtRest
  <2> QED
    BY <1>1, <1>4, <1>6, <1>8, <1>9, <1>10, <1>12, <1>13, <2>1, <2>2, <2>3, <2>4, <2>5, OneChunkOK
    DEF Steers
<1> QED BY <1>14, <1>15 DEF D2hDone

(* A copy to the host begins. *)
LEMMA StartD2hOK ==
  ASSUME TypeInv, CallInv, CallInv', CacheInv, UseInv, NEW k \in Key, StartD2h(k)
  PROVE  CacheInv' /\ UseInv'
<1> DEFINE r == [BeginGeneration(chunk[k]) EXCEPT !.state = "d2h_in_flight", !.staging = Slots + next.d2h]
           copy == [key |-> k, dir |-> "d2h", slot |-> next.d2h]
<1>1. /\ call.todo # << >> /\ Head(call.todo).do \in {"writeback", "writebackIfDirty"}
      /\ Head(call.todo).key = k
      /\ chunk[k].state = "resident_dirty" /\ IsVictimEligible(chunk[k])
      /\ chunk' = [chunk EXCEPT ![k] = r] /\ dma' = dma \union {copy}
      /\ UNCHANGED <<spill, lease, gpu>>
  BY DEF StartD2h, AtWriteback, CanWriteBack, AtKey, At
<1>2. ~rt.closed
  BY <1>1, InCall
<1>3. /\ chunk[k].pin = 0 /\ ~chunk[k].ws /\ chunk[k].frame # None
      /\ chunk[k].completed <= chunk[k].event
      /\ \A f \in Frame : chunk[k].frame = f <=> frame[f].key = k
  BY <1>1, <1>2 DEF IsVictimEligible, Unused, ValidRecord, HasFrame, CacheInv, Mappings, Links
<1>4. Slots + next.d2h \in Nat /\ Slots + next.d2h # None
  BY FrameTypes, NoneAssumption DEF TypeInv, DataInv, TypeOK
<1>5. /\ r.state = "d2h_in_flight" /\ r.frame = chunk[k].frame /\ r.staging # None /\ r.pin = 0
      /\ r.completed <= r.event
  <2>1. chunk[k] \in ChunkRecord
    BY Records
  <2>2. /\ BeginGeneration(chunk[k]) \in ChunkRecord
        /\ BeginGeneration(chunk[k]).completed <= BeginGeneration(chunk[k]).event
        /\ BeginGeneration(chunk[k]).pin = 0 /\ BeginGeneration(chunk[k]).frame = chunk[k].frame
    BY <1>3, <2>1 DEF BeginGeneration, ChunkRecord
  <2> QED BY <1>4, <2>2 DEF ChunkRecord
<1>6. RecordOK(r)
  <2> HIDE DEF r
  <2> QED BY <1>3, <1>5 DEF RecordOK, ValidRecord, IsResident, InFlight, HasFrame, RequiresStaging, ForbidsStaging
<1>7. chunk'[k] = r /\ \A j \in Key \ {k} : chunk'[j] = chunk[j]
  BY <1>1, Records
<1> HIDE DEF r
<1>8. copy.key = k
  OBVIOUS
<1> HIDE DEF copy
<1>9. \A j \in Key : ~Moving(j) /\ ~AtKey("h2d", j) /\ ~AtKey("d2h", j) /\ ~AtKey("invalidate", j)
  BY <1>1 DEF Moving, AtKey, At
<1>10. \A d \in dma : rt.asyncQ /\ d.key # k /\ chunk'[d.key].state \in InFlight
  BY <1>1, <1>2, <1>7, <1>9 DEF CacheInv, Copies, InFlight, TypeInv, DataInv, TypeOK
<1>11. Head(call.todo).do \notin LeaseDo2
  BY <1>1 DEF LeaseDo2
<1>12. ASSUME SameKeys, MayPoison, MayQuarantine, Keeps
       PROVE  /\ OneChunk(k) /\ SpillsUsed' /\ Owned'
              /\ \A f \in Frame : chunk'[k].frame = f <=> frame'[f].key = k
  <2>1. OneChunk(k)
    BY <1>1, <1>7, <1>12 DEF OneChunk, SameKeys
  <2>2. SpillsUsed'
    <3>1. Dirty(k)'
      BY <1>5, <1>7 DEF Dirty
    <3> QED BY <1>1, <1>9, <2>1, <3>1, OneChunkSpills DEF CacheInv
  <2>3. Owned'
    BY <1>12, OwnedKept DEF CacheInv, SameKeys
  <2>4. \A f \in Frame : chunk'[k].frame = f <=> frame'[f].key = k
    BY <1>3, <1>5, <1>7, <1>12 DEF SameKeys
  <2> QED BY <2>1, <2>2, <2>3, <2>4
<1>13. /\ chunk'[k].state # "host_clean" => chunk[k].state # "host_clean"
       /\ chunk'[k].state = "resident_dirty" => chunk[k].state = "resident_dirty"
       /\ \A j \in Key : AtKey("unmapIfClean", j) => chunk'[j].state = "host_clean"
       /\ \A j \in Key : AtKey("writebackIfDirty", j) => chunk'[j].state # "resident_dirty"
  BY <1>1, <1>5, <1>7 DEF AtKey, At
<1>14. CASE Push(<<KeyTask("d2h", k)>>) /\ UNCHANGED <<frame, owner, rt>>
  <2>1. Awaiting(KeyTask("d2h", k))
    BY <1>14, StartD2hCall DEF StartD2h
  <2>2. Keeps
    <3>1. Head(call.todo).do # "forEach"
      BY <1>1
    <3> QED BY <1>1, <2>1, <3>1, AwaitingKeeps
  <2>3. \A j \in Key : AtKey("d2h", j)' <=> j = k
    BY <2>1 DEF Awaiting, AtKey, At, KeyTask
  <2>4. \A j \in Key : ~AtKey("h2d", j)' /\ ~AtKey("retireH2d", j)' /\ ~AtKey("pin", j)'
    BY <2>1 DEF Awaiting, AtKey, At, KeyTask
  <2>5. HeadsReady'
    BY <1>5, <1>7, <2>3, <2>4 DEF HeadsReady
  <2>6. SameKeys /\ MayPoison /\ MayQuarantine
    BY <1>14 DEF SameKeys, MayPoison, MayQuarantine
  <2>7. Moving(k)'
    BY <2>3 DEF Moving
  <2>8. Copies'
    <3> SUFFICES ASSUME NEW d \in dma'
                 PROVE  chunk'[d.key].state \in InFlight /\ (rt'.asyncQ \/ AtKey("d2h", d.key)')
      BY <1>2, <1>14 DEF Copies
    <3>1. CASE d \in dma
      BY <1>10, <1>14, <3>1
    <3>2. CASE d = copy
      BY <1>5, <1>7, <1>8, <2>3, <3>2 DEF InFlight
    <3> QED BY <1>1, <3>1, <3>2
  <2> HIDE <1>14
  <2>9. rt'.poisoned = rt.poisoned
    BY <1>14
  <2>10. /\ OneChunk(k) /\ SpillsUsed' /\ Owned'
         /\ \A f \in Frame : chunk'[k].frame = f <=> frame'[f].key = k
    BY <1>12, <2>2, <2>6
  <2>11. /\ call.todo # << >> /\ Head(call.todo).do \notin LeaseDo2 /\ chunk[k].pin = 0
         /\ RecordOK(chunk'[k]) /\ \A j \in Key \ {k} : ~Moving(j)
    BY <1>1, <1>3, <1>6, <1>7, <1>9, <1>11
  <2> QED BY <1>13, <2>2, <2>5, <2>7, <2>8, <2>9, <2>10, <2>11, OneChunkOK
<1>15. CASE (\E status : Fail(status)) /\ rt' = AsyncUnknown /\ owner' = QuarantineVa(k)
              /\ frame' = [frame EXCEPT ![chunk[k].frame].quarantined = TRUE]
  <2>1. Head(call.todo).do # "forEach" /\ Proceeds /\ call.todo # << >>
    BY <1>1, <1>15 DEF Proceeds
  <2>2. /\ Steers /\ PinsResident
        /\ call.op \in {"release", "write"} => call'.op = "none"
    BY <1>15, <2>1, Progress
  <2>3. HeadsReady'
    BY <2>2, HeadsKept
  <2>4. SameKeys /\ MayPoison /\ MayQuarantine /\ rt'.asyncQ /\ rt'.poisoned
    BY <1>1, <1>15, QuarantinedKeys, QuarantineKeeps, PoisonKeeps
  <2>5. Copies'
    <3> SUFFICES ASSUME NEW d \in dma' PROVE chunk'[d.key].state \in InFlight
      BY <1>2, <2>4 DEF Copies, MayPoison
    <3>1. CASE d \in dma
      BY <1>10, <3>1
    <3>2. CASE d = copy
      BY <1>5, <1>7, <1>8, <3>2 DEF InFlight
    <3> QED BY <1>1, <3>1, <3>2
  <2>6. call'.op = "release" => rt'.poisoned = rt.poisoned
    BY <2>2 DEF Steers, Keeps, CallInv
  <2>7. Keeps
    BY <2>2 DEF Steers
  <2>8. /\ OneChunk(k) /\ SpillsUsed' /\ Owned'
        /\ \A f \in Frame : chunk'[k].frame = f <=> frame'[f].key = k
    BY <1>12, <2>4, <2>7
  <2>9. /\ call.todo # << >> /\ Head(call.todo).do \notin LeaseDo2 /\ chunk[k].pin = 0
        /\ RecordOK(chunk'[k]) /\ \A j \in Key \ {k} : ~Moving(j)
    BY <1>1, <1>3, <1>6, <1>7, <1>9, <1>11
  <2>10. rt'.poisoned
    BY <2>4
  <2> QED BY <2>3, <2>5, <2>6, <2>7, <2>8, <2>9, <2>10, OneChunkOK
<1> QED BY <1>14, <1>15 DEF StartD2h

LEMMA TakeDownFacts ==
  ASSUME TypeInv, Links, NEW k \in Key, IsVictimEligible(chunk[k]), TakeDown(k)
  PROVE  /\ RecordOK(chunk'[k]) /\ chunk'[k].state = "host_clean"
         /\ \A f \in Frame : chunk'[k].frame = f <=> frame'[f].key = k
         /\ \A j \in Key \ {k} : /\ chunk'[j] = chunk[j]
                                 /\ \A f \in Frame : frame'[f].key = j <=> frame[f].key = j
         /\ \A f \in Frame : frame'[f].key \in {None, frame[f].key}
<1>1. chunk \in [Key -> ChunkRecord] /\ chunk[k] \in ChunkRecord
  BY Records
<1>2. /\ chunk[k].frame \in Frame /\ chunk[k].pin = 0 /\ ~chunk[k].ws /\ chunk[k].staging = None
      /\ chunk[k].completed <= chunk[k].event
  BY <1>1, Records DEF IsVictimEligible, IsResident, Unused, ValidRecord, HasFrame, ChunkRecord
<1> DEFINE r == [chunk[k] EXCEPT !.state = "host_clean", !.frame = None]
           g == [frame[chunk[k].frame] EXCEPT !.key = None, !.quarantined = FALSE]
<1>3. /\ r.state = "host_clean" /\ r.frame = None /\ r.pin = 0 /\ ~r.ws /\ r.staging = None
      /\ r.completed <= r.event
  BY <1>1, <1>2 DEF ChunkRecord
<1>4. chunk' = [chunk EXCEPT ![k] = r]
  BY <1>1 DEF TakeDown
<1>5. frame' = [frame EXCEPT ![chunk[k].frame] = g]
  BY DEF TakeDown
<1>6. frame \in FrameType
  BY DEF TypeInv, DataInv, TypeOK, FrameType
<1>7. g.key = None
  BY <1>2, <1>6 DEF FrameType
<1> HIDE DEF r, g
<1>8. chunk'[k] = r /\ \A j \in Key \ {k} : chunk'[j] = chunk[j]
  BY <1>1, <1>4
<1>9. /\ frame'[chunk[k].frame].key = None
      /\ \A f \in Frame \ {chunk[k].frame} : frame'[f] = frame[f]
  BY <1>2, <1>5, <1>6, <1>7 DEF FrameType
<1>10. RecordOK(chunk'[k])
  BY <1>3, <1>8 DEF RecordOK, ValidRecord, AtRest, IsResident, HasFrame, RequiresStaging, ForbidsStaging
<1>11. frame[chunk[k].frame].key = k /\ None \notin Key /\ None \notin Frame
  BY <1>2, FrameKeys DEF Links
<1>12. \A f \in Frame : chunk[k].frame = f <=> frame[f].key = k
  BY DEF Links
<1> QED BY <1>3, <1>8, <1>9, <1>10, <1>11, <1>12

(* The mapping cannot be taken down. *)
LEMMA TakeDownStuck ==
  ASSUME TypeInv, NEW k \in Key, TakeDownFails(k)
  PROVE  /\ SameKeys /\ owner' = QuarantineVa(k) /\ rt' = Poisoned
         /\ \E status : Fail(status)
<1>1. PICK kept : frame' = [frame EXCEPT ![chunk[k].frame] =
                              [@ EXCEPT !.handle = kept, !.quarantined = TRUE]]
  BY DEF TakeDownFails
<1>2. SameKeys
  <2> DEFINE g == [frame[chunk[k].frame] EXCEPT !.handle = kept, !.quarantined = TRUE]
  <2>1. frame \in FrameType
    BY DEF TypeInv, DataInv, TypeOK, FrameType
  <2>2. chunk[k].frame \in Frame => g.key = frame[chunk[k].frame].key
    BY <2>1 DEF FrameType
  <2>3. frame' = [frame EXCEPT ![chunk[k].frame] = g]
    BY <1>1
  <2> HIDE DEF g
  <2> QED BY <2>1, <2>2, <2>3 DEF SameKeys, FrameType
<1> QED BY <1>2 DEF TakeDownFails

(* A resident chunk that is not in use is neither copied nor waited for. *)
LEMMA EligibleFacts ==
  ASSUME TypeInv, Copies, NEW k \in Key, ~rt.closed, IsVictimEligible(chunk[k])
  PROVE  /\ chunk[k].pin = 0 /\ \A d \in dma : d.key \in Key \ {k}
         /\ chunk[k].state \in {"resident_clean", "resident_dirty"}
         /\ chunk[k].completed = chunk[k].event /\ ~chunk[k].ws /\ chunk[k].staging = None
         /\ chunk[k].frame # None
BY DEF IsVictimEligible, IsResident, Unused, ValidRecord, HasFrame, Copies, InFlight, TypeInv, DataInv, TypeOK

(* The mapping of a clean or discarded chunk is taken down. *)
LEMMA TakeDownOK ==
  ASSUME TypeInv, CallInv, CallInv', CacheInv, UseInv, NEW k \in Key, call.todo # << >>,
         Head(call.todo).do \in {"unmap", "unmapIfClean", "dropDirty"}, Head(call.todo).key = k,
         IsVictimEligible(chunk[k]), TakeDown(k), Continue,
         UNCHANGED <<spill, owner, lease, gpu, dma, rt>>, SpillsUsed'
  PROVE  CacheInv' /\ UseInv'
<1>1. ~rt.closed
  BY InCall
<1>2. chunk[k].pin = 0 /\ chunk[k].state # "host_clean" /\ \A d \in dma : d.key \in Key \ {k}
  BY <1>1, EligibleFacts DEF CacheInv
<1>3. /\ RecordOK(chunk'[k]) /\ chunk'[k].state = "host_clean"
      /\ \A f \in Frame : chunk'[k].frame = f <=> frame'[f].key = k
      /\ \A j \in Key \ {k} : /\ chunk'[j] = chunk[j]
                              /\ \A f \in Frame : frame'[f].key = j <=> frame[f].key = j
      /\ \A f \in Frame : frame'[f].key \in {None, frame[f].key}
  BY <1>1, TakeDownFacts DEF CacheInv, Mappings
<1>4. MayPoison /\ MayQuarantine
  BY DEF MayPoison, MayQuarantine
<1>5. OneChunk(k)
  BY <1>3, <1>4 DEF OneChunk
<1>6. Steers /\ PinsResident
  <2>1. \A j \in Key : ~MakesResident(Head(call.todo), j)
    BY DEF MakesResident
  <2> QED BY <2>1, Progress DEF Proceeds
<1>7. HeadsReady'
  BY <1>6, HeadsKept
<1>8. Copies'
  <2>1. \A d \in dma' : d \in dma /\ chunk'[d.key].state \in InFlight
    BY <1>1, <1>2, <1>3 DEF CacheInv, Copies
  <2>2. \A d \in dma' : rt'.asyncQ \/ (~AtKey("h2d", d.key) /\ ~AtKey("d2h", d.key))
    BY DEF AtKey, At
  <2> QED BY <1>1, <1>4, <2>1, <2>2, CopiesKept DEF CacheInv
<1>9. Owned'
  BY <1>3, <1>4, <1>6, OwnedKept DEF CacheInv, Steers
<1>10. \A j \in Key \ {k} : ~Moving(j)
  BY DEF Moving, AtKey, At
<1>11. /\ chunk'[k].state # "host_clean" => chunk[k].state # "host_clean"
       /\ chunk'[k].state = "resident_dirty" => chunk[k].state = "resident_dirty"
       /\ \A j \in Key : AtKey("unmapIfClean", j) => chunk'[j].state = "host_clean"
       /\ \A j \in Key : AtKey("writebackIfDirty", j) => chunk'[j].state # "resident_dirty"
  BY <1>3 DEF AtKey, At
<1>12. Head(call.todo).do \notin LeaseDo2 /\ chunk'[k].state \in AtRest
  BY <1>3 DEF LeaseDo2, AtRest
<1> QED
  BY <1>2, <1>3, <1>5, <1>6, <1>7, <1>8, <1>9, <1>10, <1>11, <1>12, OneChunkOK DEF Steers

LEMMA UnmapOK ==
  ASSUME TypeInv, CallInv, CallInv', CacheInv, UseInv, NEW k \in Key, Unmap(k)
  PROVE  CacheInv' /\ UseInv'
<1>1. /\ call.todo # << >> /\ Head(call.todo).do \in {"unmap", "unmapIfClean"}
      /\ Head(call.todo).key = k /\ chunk[k].state = "resident_clean" /\ IsVictimEligible(chunk[k])
      /\ UNCHANGED <<spill, lease, gpu, dma>>
  BY DEF Unmap, AtUnmap, CanUnmap, AtKey, At
<1>2. ~rt.closed
  BY <1>1, InCall
<1>3. CASE TakeDown(k) /\ Continue /\ UNCHANGED <<owner, rt>>
  <2>1. \A j \in Key \ {k} : chunk'[j] = chunk[j]
    BY <1>1, <1>2, <1>3, TakeDownFacts DEF CacheInv, Mappings
  <2>2. \A j \in Key : ~AtKey("invalidate", j)
    BY <1>1 DEF AtKey, At
  <2>3. SpillsUsed'
    <3>1. \A j \in Key : Dirty(j) => Dirty(j)'
      BY <1>1, <2>1 DEF Dirty
    <3> QED BY <1>1, <1>3, <2>2, <3>1, SpillsKept DEF CacheInv, MayPoison
  <2> QED BY <1>1, <1>3, <2>3, TakeDownOK
<1>4. CASE TakeDownFails(k) /\ chunk' = [chunk EXCEPT ![k].state = "evicting"]
  <2>1. /\ SameKeys /\ owner' = QuarantineVa(k) /\ rt' = Poisoned
        /\ \E status : Fail(status)
    BY <1>4, TakeDownStuck
  <2>2. MayQuarantine /\ MayPoison /\ rt'.poisoned
    BY <1>1, <2>1, QuarantineKeeps, PoisonKeeps, RtTypes DEF Poisoned, TypeInv, RtType
  <2>3. /\ chunk[k].pin = 0 /\ \A d \in dma : d.key \in Key \ {k}
        /\ chunk[k].completed = chunk[k].event /\ ~chunk[k].ws /\ chunk[k].staging = None
        /\ chunk[k].frame # None
    BY <1>1, <1>2, EligibleFacts DEF CacheInv
  <2> DEFINE r == [chunk[k] EXCEPT !.state = "evicting"]
  <2>4. /\ r.state = "evicting" /\ r.frame = chunk[k].frame /\ r.pin = 0 /\ ~r.ws
        /\ r.staging = None /\ r.completed = r.event /\ r.event \in Nat
    BY <2>3, Records DEF ChunkRecord
  <2>5. chunk' = [chunk EXCEPT ![k] = r]
    BY <1>4
  <2> HIDE DEF r
  <2>6. chunk'[k] = r /\ \A j \in Key \ {k} : chunk'[j] = chunk[j]
    BY <2>5, Records
  <2>7. RecordOK(chunk'[k])
    BY <2>3, <2>4, <2>6 DEF RecordOK, ValidRecord, IsResident, HasFrame, RequiresStaging, ForbidsStaging
  <2>8. OneChunk(k) /\ \A f \in Frame : chunk'[k].frame = f <=> frame'[f].key = k
    BY <1>1, <1>2, <2>1, <2>2, <2>4, <2>6 DEF OneChunk, SameKeys, CacheInv, Mappings, Links
  <2>9. /\ Steers /\ PinsResident
        /\ call.op \in {"release", "write"} => call'.op = "none"
    BY <1>1, <2>1, Progress DEF Proceeds
  <2>10. HeadsReady'
    BY <2>9, HeadsKept
  <2>11. Copies'
    <3>1. \A d \in dma' : d \in dma /\ chunk'[d.key].state \in InFlight
      BY <1>1, <1>2, <2>3, <2>6 DEF CacheInv, Copies
    <3>2. \A d \in dma' : rt'.asyncQ \/ (~AtKey("h2d", d.key) /\ ~AtKey("d2h", d.key))
      BY <1>1 DEF AtKey, At
    <3> QED BY <1>2, <2>2, <3>1, <3>2, CopiesKept DEF CacheInv
  <2>12. SpillsUsed'
    BY <2>2 DEF SpillsUsed
  <2>13. Owned'
    BY <2>1, <2>2, <2>9, OwnedKept DEF CacheInv, Steers, SameKeys
  <2>14. \A j \in Key \ {k} : ~Moving(j)
    BY <1>1 DEF Moving, AtKey, At
  <2>15. call'.op # "release"
    BY <2>9 DEF Steers, Keeps, CallInv
  <2>16. Head(call.todo).do \notin LeaseDo2
    BY <1>1 DEF LeaseDo2
  <2> QED
    BY <1>1, <2>2, <2>3, <2>7, <2>8, <2>9, <2>10, <2>11, <2>12, <2>13, <2>14, <2>15, <2>16, OneChunkOK
    DEF Steers
<1> QED BY <1>3, <1>4 DEF Unmap

(* The credit of a discarded chunk is returned right after its mapping is  *)
(* gone.                                                                   *)
LEMMA DropDirtyOK ==
  ASSUME TypeInv, CallInv, CallInv', CacheInv, UseInv, NEW k \in Key, DropDirty(k)
  PROVE  CacheInv' /\ UseInv'
<1>1. /\ call.todo # << >> /\ Head(call.todo).do = "dropDirty" /\ Head(call.todo).key = k
      /\ UNCHANGED <<spill, lease, gpu, dma>>
  BY DEF DropDirty, AtKey, At
<1>2. ~rt.closed /\ call \in CallRecord
  BY <1>1, InCall DEF TypeInv, CallOK
<1>3. \A j \in Key : ~MakesResident(Head(call.todo), j)
  BY <1>1 DEF MakesResident
<1>4. CASE Continue /\ UNCHANGED <<chunk, frame, device, owner, rt>>
  <2>1. Proceeds /\ Untouched
    BY <1>1, <1>3, <1>4 DEF Proceeds, Untouched, SameKeys
  <2> QED BY <1>1, <2>1, UntouchedTask DEF LeaseDo2, HeadDo
<1>5. CASE CanDiscard(k) /\ TakeDown(k) /\ Continue /\ UNCHANGED <<owner, rt>>
  <2>1. IsVictimEligible(chunk[k]) /\ \A j \in Key \ {k} : chunk'[j] = chunk[j]
    BY <1>2, <1>5, TakeDownFacts DEF CacheInv, Mappings, CanDiscard, CanWriteBack
  <2>2. AtKey("invalidate", k)'
    <3>1. ListOK(call.op, Touched, call.todo)
      BY DEF CallInv, Proper
    <3>2. Tail(call.todo) # << >> /\ Head(Tail(call.todo)) = KeyTask("invalidate", k)
      BY <1>1, <3>1, TailOK
    <3>3. Leads(Tail(call.todo))
      BY <1>1, <1>5, Continues
    <3>4. call'.todo # << >> /\ Head(call'.todo) = KeyTask("invalidate", k)
      BY <3>2, <3>3 DEF Leads, KeyTask
    <3> QED BY <3>4 DEF AtKey, At, KeyTask
  <2>3. SpillsUsed'
    <3> SUFFICES ASSUME ~rt.poisoned, NEW j \in Key
                 PROVE  /\ spill[j] # "stale"
                        /\ spill[j] # "none" => \/ Dirty(j)' \/ lease.use[j].spillHere
                                                \/ AtKey("invalidate", j)'
      BY <1>1, <1>5 DEF SpillsUsed
    <3>1. /\ spill[j] # "stale"
          /\ spill[j] # "none" => Dirty(j) \/ lease.use[j].spillHere
      BY <1>1 DEF CacheInv, SpillsUsed, AtKey, At
    <3>2. CASE j = k
      BY <2>2, <3>1, <3>2
    <3>3. CASE j # k
      BY <2>1, <3>1, <3>3 DEF Dirty
    <3> QED BY <3>2, <3>3
  <2> QED BY <1>1, <1>5, <2>1, <2>3, TakeDownOK
<1>6. CASE TakeDownFails(k) /\ UNCHANGED <<chunk, device>>
  <2>1. /\ SameKeys /\ owner' = QuarantineVa(k) /\ rt' = Poisoned
        /\ \E status : Fail(status)
    BY <1>6, TakeDownStuck
  <2>2. MayQuarantine /\ MayPoison
    BY <1>1, <2>1, QuarantineKeeps, PoisonKeeps
  <2>3. Quiet /\ Proceeds
    BY <1>1, <1>6, <2>1, <2>2 DEF Quiet, Aside, Proceeds
  <2> QED BY <1>1, <2>1, <2>3, QuietTask DEF LeaseDo2, HeadDo
<1> QED BY <1>4, <1>5, <1>6 DEF DropDirty

-----------------------------------------------------------------------------
(* Steps that map a chunk. *)

(* What is known where a mapping begins. *)
LEMMA MapFacts ==
  ASSUME TypeInv, CallInv, CacheInv, UseInv, NEW k \in Key, NEW f \in Frame,
         AtKey("map", k), CanMap(k, f)
  PROVE  /\ call.todo # << >> /\ Head(call.todo).do = "map" /\ Head(call.todo).key = k
         /\ ~rt.closed /\ call.op \in {"prefetch", "acquire"} /\ k \in Touched
         /\ chunk[k].state = "host_clean" /\ chunk[k].pin = 0 /\ ~chunk[k].ws
         /\ chunk[k].completed <= chunk[k].event
         /\ frame[f].key = None /\ \A g \in Frame : frame[g].key # k
         /\ \A d \in dma : rt.asyncQ /\ d.key \in Key \ {k}
         /\ \A j \in Key : ~Moving(j) /\ ~AtKey("h2d", j) /\ ~AtKey("d2h", j) /\ ~AtKey("invalidate", j)
         /\ Head(call.todo).do \notin LeaseDo2 \union {"forEach"}
<1>1. call.todo # << >> /\ Head(call.todo).do = "map" /\ Head(call.todo).key = k
  BY DEF AtKey, At
<1>2. ~rt.closed
  BY <1>1, InCall
<1>3. Permitted(call.op, Touched, KeyTask("map", k))
  BY <1>1, AtTask DEF TypeInv, CallOK, AtKey
<1>4. call.op \in {"prefetch", "acquire"} /\ k \in Touched
  BY <1>3 DEF Permitted, FetchDo, OfPlan, KeyTask
<1>5. RecordOK(chunk[k])
  BY <1>2 DEF CacheInv, Mappings
<1>6. chunk[k].state = "host_clean"
  <2>1. chunk[k].state \in {"host_clean", "prefetch_queued"}
    BY DEF CanMap, IsLegalTransition, LegalTransition
  <2> QED BY <1>5, <2>1 DEF RecordOK, AtRest, InFlight
<1>7. chunk[k].pin = 0 /\ ~chunk[k].ws /\ chunk[k].completed <= chunk[k].event /\ chunk[k].frame = None
  BY <1>5, <1>6 DEF RecordOK, ValidRecord, HasFrame
<1>8. frame[f].key = None /\ \A g \in Frame : frame[g].key # k
  BY <1>2, <1>7, FrameKeys DEF CanMap, Mapped, CacheInv, Mappings, Links
<1>9. \A j \in Key : ~Moving(j) /\ ~AtKey("h2d", j) /\ ~AtKey("d2h", j) /\ ~AtKey("invalidate", j)
  BY <1>1 DEF Moving, AtKey, At
<1>10. \A d \in dma : rt.asyncQ /\ d.key \in Key \ {k}
  BY <1>2, <1>6, <1>9 DEF CacheInv, Copies, InFlight, TypeInv, DataInv, TypeOK
<1>11. Head(call.todo).do \notin LeaseDo2 \union {"forEach"}
  BY <1>1 DEF LeaseDo2
<1> QED BY <1>1, <1>2, <1>4, <1>6, <1>7, <1>8, <1>9, <1>10, <1>11

LEMMA MapOK ==
  ASSUME TypeInv, CallInv, CallInv', CacheInv, UseInv, NEW k \in Key, NEW f \in Frame,
         AtKey("map", k), CanMap(k, f), Keeps,
         NEW r, RecordOK(r), r.frame = f, r.state \in {"mapping", "h2d_in_flight"},
         chunk' = [chunk EXCEPT ![k] = r],
         frame'[f].key = k, \A g \in Frame \ {f} : frame'[g].key = frame[g].key,
         UNCHANGED <<spill, lease, gpu>>, MayPoison, MayQuarantine,
         HeadsReady', Copies', rt'.poisoned \/ Moving(k)'
  PROVE  CacheInv' /\ UseInv'
<1>1. /\ call.todo # << >>
      /\ ~rt.closed /\ call.op \in {"prefetch", "acquire"} /\ k \in Touched
      /\ chunk[k].state = "host_clean" /\ chunk[k].pin = 0
      /\ frame[f].key = None /\ \A g \in Frame : frame[g].key # k
      /\ \A j \in Key : ~Moving(j) /\ ~AtKey("invalidate", j)
      /\ Head(call.todo).do \notin LeaseDo2
  BY MapFacts
<1>2. chunk'[k] = r /\ \A j \in Key \ {k} : chunk'[j] = chunk[j]
  BY Records
<1>3. f # None /\ \A j \in Key : j # None
  BY FrameKeys
<1>4. \A j \in Key \ {k} : \A g \in Frame : frame'[g].key = j <=> frame[g].key = j
  BY <1>1, <1>3
<1>5. OneChunk(k)
  BY <1>2, <1>4 DEF OneChunk
<1>6. RecordOK(chunk'[k]) /\ \A g \in Frame : chunk'[k].frame = g <=> frame'[g].key = k
  BY <1>1, <1>2
<1>7. SpillsUsed'
  <2>1. ~Dirty(k)
    BY <1>1 DEF Dirty
  <2>2. \A j \in Key \ {k} : spill'[j] = spill[j]
    OBVIOUS
  <2>3. ~rt'.poisoned => spill'[k] = "none" \/ (spill'[k] = spill[k] /\ (Dirty(k) => Dirty(k)'))
    BY <2>1
  <2>4. SpillsUsed /\ \A j \in Key : ~AtKey("invalidate", j)
    BY <1>1 DEF CacheInv
  <2> QED BY <1>5, <2>2, <2>3, <2>4, OneChunkSpills
<1>8. Owned'
  <2>1. \A g \in Frame : frame'[g].key \in {None, frame[g].key, k}
    OBVIOUS
  <2> QED BY <1>1, <2>1, OwnedMore DEF CacheInv
<1>9. call'.op # "release"
  BY <1>1 DEF Keeps, CallInv
<1>10. ~rt'.poisoned => chunk'[k].state \in AtRest \/ Moving(k)'
  OBVIOUS
<1> QED BY <1>1, <1>5, <1>6, <1>7, <1>8, <1>9, <1>10, OneChunkOK

(* The record of a chunk whose transfer begins. *)
LEMMA OnFrameRecord ==
  ASSUME TypeInv, NEW k \in Key, NEW f \in Frame, chunk[k].pin = 0,
         chunk[k].completed <= chunk[k].event
  PROVE  \E r : /\ OnFrame(k, f) = [chunk EXCEPT ![k] = r]
                /\ RecordOK(r) /\ r.frame = f /\ r.state = "h2d_in_flight"
<1> DEFINE b == BeginGeneration(chunk[k])
           r == [b EXCEPT !.state = "h2d_in_flight", !.frame = f, !.staging = next.h2d]
<1>1. OnFrame(k, f) = [chunk EXCEPT ![k] = r]
  BY DEF OnFrame
<1>2. next.h2d # None /\ f # None
  BY FrameTypes, FrameKeys, NoneAssumption DEF TypeInv, DataInv, TypeOK
<1>3. b \in ChunkRecord /\ b.completed <= b.event /\ b.pin = 0
  <2>1. chunk[k] \in ChunkRecord
    BY Records
  <2> QED BY <2>1 DEF BeginGeneration, ChunkRecord
<1> HIDE DEF b
<1>4. /\ r.state = "h2d_in_flight" /\ r.frame = f /\ r.staging # None /\ r.pin = 0
      /\ r.completed <= r.event
  BY <1>2, <1>3 DEF ChunkRecord
<1> HIDE DEF r
<1>5. RecordOK(r)
  BY <1>2, <1>4 DEF RecordOK, ValidRecord, IsResident, InFlight, HasFrame, RequiresStaging, ForbidsStaging
<1> QED BY <1>1, <1>4, <1>5

LEMMA MapRollbackFailsOK ==
  ASSUME TypeInv, CallInv, CallInv', CacheInv, UseInv, NEW k \in Key, NEW f \in Frame,
         MapRollbackFails(k, f)
  PROVE  CacheInv' /\ UseInv'
<1> DEFINE r == [chunk[k] EXCEPT !.state = "mapping", !.frame = f]
<1>1. AtKey("map", k) /\ CanMap(k, f)
  BY DEF MapRollbackFails
<1>2. /\ call.todo # << >> /\ ~rt.closed /\ Head(call.todo).do \notin LeaseDo2 \union {"forEach"}
      /\ chunk[k].pin = 0 /\ chunk[k].completed <= chunk[k].event
      /\ \A d \in dma : rt.asyncQ /\ d.key \in Key \ {k}
      /\ \A j \in Key : ~AtKey("h2d", j) /\ ~AtKey("d2h", j)
  BY <1>1, MapFacts
<1>3. /\ owner' = QuarantineVa(k) /\ rt' = Poisoned /\ UNCHANGED <<spill, lease, gpu, dma>>
      /\ \E status : Fail(status)
  BY DEF MapRollbackFails
<1>4. chunk' = [chunk EXCEPT ![k] = r]
  BY DEF MapRollbackFails
<1>5. r.state = "mapping" /\ r.frame = f /\ r.pin = 0 /\ r.completed <= r.event
  BY <1>2, Records DEF ChunkRecord
<1> HIDE DEF r
<1>6. f # None
  BY FrameKeys
<1>7. RecordOK(r)
  BY <1>5, <1>6 DEF RecordOK, ValidRecord, IsResident, HasFrame, RequiresStaging, ForbidsStaging
<1>8. frame'[f].key = k /\ \A g \in Frame \ {f} : frame'[g].key = frame[g].key
  <2>1. PICK kept : frame' = [frame EXCEPT ![f] = [handle |-> kept, key |-> k, quarantined |-> TRUE]]
    BY DEF MapRollbackFails
  <2> QED BY <2>1 DEF TypeInv, DataInv, TypeOK
<1>9. MayPoison /\ MayQuarantine /\ rt'.poisoned
  BY <1>2, <1>3, PoisonKeeps, QuarantineKeeps, RtTypes DEF Poisoned, TypeInv, RtType
<1>10. Steers /\ PinsResident
  BY <1>2, <1>3, Progress DEF Proceeds
<1>11. HeadsReady'
  BY <1>10, HeadsKept
<1>12. Copies'
  <2>1. \A d \in dma' : d \in dma /\ chunk'[d.key].state \in InFlight
    BY <1>2, <1>3, <1>4, Records DEF CacheInv, Copies
  <2>2. \A d \in dma' : rt'.asyncQ \/ (~AtKey("h2d", d.key) /\ ~AtKey("d2h", d.key))
    BY <1>2, <1>3
  <2> QED BY <1>2, <1>9, <2>1, <2>2, CopiesKept DEF CacheInv
<1> QED
  BY <1>1, <1>3, <1>4, <1>5, <1>7, <1>8, <1>9, <1>10, <1>11, <1>12, MapOK DEF Steers

(* The chunk is in flight on its frame, and its copy may run. *)
LEMMA MapAndSubmitOK ==
  ASSUME TypeInv, CallInv, CallInv', CacheInv, UseInv, NEW k \in Key, NEW f \in Frame,
         MapAndSubmit(k, f) \/ MapAndSubmitFails(k, f)
  PROVE  CacheInv' /\ UseInv'
<1> DEFINE copy == [key |-> k, dir |-> "h2d", slot |-> next.h2d]
<1>1. /\ AtKey("map", k) /\ CanMap(k, f) /\ MapFrame(k, f)
      /\ dma' = dma \union {copy}
  BY DEF MapAndSubmit, MapAndSubmitFails
<1>2. /\ call.todo # << >> /\ ~rt.closed /\ Head(call.todo).do \notin LeaseDo2 \union {"forEach"}
      /\ chunk[k].pin = 0 /\ chunk[k].completed <= chunk[k].event
      /\ \A d \in dma : rt.asyncQ /\ d.key \in Key \ {k}
      /\ \A j \in Key : ~AtKey("h2d", j) /\ ~AtKey("d2h", j)
  BY <1>1, MapFacts
<1>3. UNCHANGED <<spill, lease, gpu>> /\ chunk' = OnFrame(k, f)
  BY <1>1 DEF MapFrame
<1>4. PICK r : /\ chunk' = [chunk EXCEPT ![k] = r]
               /\ RecordOK(r) /\ r.frame = f /\ r.state = "h2d_in_flight"
  BY <1>2, <1>3, OnFrameRecord
<1>5. chunk'[k] = r /\ \A j \in Key \ {k} : chunk'[j] = chunk[j]
  BY <1>4, Records
<1>6. frame'[f].key = k /\ \A g \in Frame \ {f} : frame'[g].key = frame[g].key
  <2>1. frame \in FrameType
    BY DEF TypeInv, DataInv, TypeOK, FrameType
  <2>2. CASE frame' = [frame EXCEPT ![f].key = k]
    BY <2>1, <2>2 DEF FrameType
  <2>3. CASE frame' = [frame EXCEPT ![f] = [@ EXCEPT !.key = k, !.quarantined = TRUE]]
    BY <2>1, <2>3 DEF FrameType
  <2> QED BY <2>2, <2>3 DEF MapAndSubmit, MapAndSubmitFails
<1>7. copy.key = k
  OBVIOUS
<1> HIDE DEF copy
<1>8. \A d \in dma' : chunk'[d.key].state \in InFlight
  <2> TAKE d \in dma'
  <2>1. CASE d \in dma
    <3>1. d.key \in Key \ {k} /\ chunk'[d.key] = chunk[d.key]
      BY <1>2, <1>5, <2>1
    <3> QED BY <1>2, <2>1, <3>1 DEF CacheInv, Copies
  <2>2. CASE d = copy
    BY <1>4, <1>5, <1>7, <2>2 DEF InFlight
  <2> QED BY <1>1, <2>1, <2>2
<1>9. CASE MapAndSubmit(k, f)
  <2>1. rt' = rt /\ owner' = owner /\ Push(<<KeyTask("h2d", k)>>)
    BY <1>9 DEF MapAndSubmit
  <2>2. Awaiting(KeyTask("h2d", k))
    BY <1>1, <2>1, MapCalls
  <2>3. Keeps
    BY <1>2, <2>2, AwaitingKeeps
  <2>4. \A j \in Key : AtKey("h2d", j)' <=> j = k
    BY <2>2 DEF Awaiting, AtKey, At, KeyTask
  <2>5. \A j \in Key : ~AtKey("d2h", j)' /\ ~AtKey("retireH2d", j)' /\ ~AtKey("pin", j)'
    BY <2>2 DEF Awaiting, AtKey, At, KeyTask
  <2>6. HeadsReady'
    BY <1>4, <1>5, <2>4, <2>5 DEF HeadsReady
  <2>7. MayPoison /\ MayQuarantine
    BY <2>1 DEF MayPoison, MayQuarantine
  <2>8. Moving(k)'
    BY <2>4 DEF Moving
  <2>9. Copies'
    <3> SUFFICES ASSUME NEW d \in dma' PROVE rt'.asyncQ \/ AtKey("h2d", d.key)'
      BY <1>2, <1>8, <2>1 DEF Copies
    <3>1. CASE d \in dma
      BY <1>2, <2>1, <3>1
    <3>2. CASE d = copy
      BY <1>7, <2>4, <3>2
    <3> QED BY <1>1, <3>1, <3>2
  <2> QED BY <1>1, <1>3, <1>4, <1>6, <2>3, <2>6, <2>7, <2>8, <2>9, MapOK
<1>10. CASE MapAndSubmitFails(k, f)
  <2>1. /\ owner' = QuarantineVa(k) /\ rt' = AsyncUnknown
        /\ \E status : Fail(status)
    BY <1>10 DEF MapAndSubmitFails
  <2>2. MayPoison /\ MayQuarantine /\ rt'.poisoned /\ rt'.asyncQ
    BY <1>2, <2>1, PoisonKeeps, QuarantineKeeps
  <2>3. Steers /\ PinsResident
    BY <1>2, <2>1, Progress DEF Proceeds
  <2>4. HeadsReady'
    BY <2>3, HeadsKept
  <2>5. Copies'
    BY <1>2, <1>8, <2>2 DEF Copies, MayPoison
  <2> QED BY <1>1, <1>3, <1>4, <1>6, <2>2, <2>3, <2>4, <2>5, MapOK DEF Steers
<1> QED BY <1>9, <1>10

(* There is nothing to copy; the mapping has to be retired first. *)
LEMMA MapWithoutSourceOK ==
  ASSUME TypeInv, CallInv, CallInv', CacheInv, UseInv, NEW k \in Key, NEW f \in Frame,
         MapWithoutSource(k, f)
  PROVE  CacheInv' /\ UseInv'
<1>1. /\ AtKey("map", k) /\ CanMap(k, f) /\ MapFrame(k, f)
      /\ UNCHANGED <<owner, dma>> /\ rt' \in {rt, Poisoned}
      /\ Push(<<KeyTask("retireH2d", k), KeyTask("unmap", k), Task("fail")>>)
  BY DEF MapWithoutSource
<1>2. /\ call.todo # << >> /\ ~rt.closed /\ Head(call.todo).do \notin LeaseDo2 \union {"forEach"}
      /\ chunk[k].pin = 0 /\ chunk[k].completed <= chunk[k].event
      /\ \A d \in dma : rt.asyncQ /\ d.key \in Key \ {k}
      /\ \A j \in Key : ~AtKey("h2d", j) /\ ~AtKey("d2h", j)
  BY <1>1, MapFacts
<1>3. UNCHANGED <<spill, lease, gpu>> /\ chunk' = OnFrame(k, f)
  BY <1>1 DEF MapFrame
<1>4. PICK r : /\ chunk' = [chunk EXCEPT ![k] = r]
               /\ RecordOK(r) /\ r.frame = f /\ r.state = "h2d_in_flight"
  BY <1>2, <1>3, OnFrameRecord
<1>5. chunk'[k] = r /\ \A j \in Key \ {k} : chunk'[j] = chunk[j]
  BY <1>4, Records
<1>6. frame'[f].key = k /\ \A g \in Frame \ {f} : frame'[g].key = frame[g].key
  <2>1. frame \in FrameType
    BY DEF TypeInv, DataInv, TypeOK, FrameType
  <2>2. frame' = [frame EXCEPT ![f].key = k]
    BY DEF MapWithoutSource
  <2> QED BY <2>1, <2>2 DEF FrameType
<1>7. Awaiting(KeyTask("retireH2d", k))
  BY <1>1, MapCalls
<1>8. Keeps
  BY <1>2, <1>7, AwaitingKeeps
<1>9. \A j \in Key : AtKey("retireH2d", j)' <=> j = k
  BY <1>7 DEF Awaiting, AtKey, At, KeyTask
<1>10. \A j \in Key : ~AtKey("d2h", j)' /\ ~AtKey("h2d", j)' /\ ~AtKey("pin", j)'
  BY <1>7 DEF Awaiting, AtKey, At, KeyTask
<1>11. HeadsReady'
  BY <1>1, <1>2, <1>4, <1>5, <1>9, <1>10 DEF HeadsReady
<1>12. MayPoison /\ MayQuarantine
  <2>1. rt' = rt \/ rt' = Poisoned
    BY <1>1
  <2>2. MayQuarantine
    BY <1>1 DEF MayQuarantine
  <2> QED BY <1>2, <2>1, <2>2, PoisonKeeps
<1>13. Moving(k)'
  BY <1>9 DEF Moving
<1>14. Copies'
  <2> SUFFICES ASSUME NEW d \in dma PROVE chunk'[d.key].state \in InFlight /\ rt'.asyncQ
    BY <1>1, <1>2, <1>12 DEF Copies, MayPoison
  <2>1. d.key \in Key \ {k} /\ chunk'[d.key] = chunk[d.key]
    BY <1>2, <1>5
  <2> QED BY <1>2, <1>12, <2>1 DEF CacheInv, Copies, MayPoison
<1> QED BY <1>1, <1>3, <1>4, <1>6, <1>8, <1>11, <1>12, <1>13, <1>14, MapOK

-----------------------------------------------------------------------------
(* Steps of the lease, which leave every chunk in its state. *)

Still ==
  /\ ~rt.closed /\ MayPoison /\ owner' = owner /\ SameKeys /\ dma' = dma
  /\ \A k \in Key : /\ chunk'[k].frame = chunk[k].frame /\ chunk'[k].state = chunk[k].state
                    /\ RecordOK(chunk[k]) => RecordOK(chunk'[k])
  /\ call.todo # << >> /\ Head(call.todo).do \notin HeadDo \union {"invalidate"}
  /\ call.op \notin {"release", "write"}
  /\ call'.todo # << >> => /\ call'.op = call.op /\ call'.plan = call.plan
                           /\ Head(call'.todo).do \notin HeadDo

LEMMA CacheStill ==
  ASSUME TypeInv, CallInv', CacheInv, Still, PinsResident, SpillsUsed'
  PROVE  CacheInv'
<1>1. /\ call'.op \in {"prefetch", "acquire", "release", "write"} =>
           call'.op = call.op /\ call'.plan = call.plan /\ Touched' = Touched
      /\ call'.op \notin {"release", "write"}
  BY DEF Still, CallInv, Touched, Plan
<1>2. \A k : /\ ~AtKey("h2d", k) /\ ~AtKey("d2h", k) /\ ~AtKey("retireH2d", k)
             /\ ~AtKey("h2d", k)' /\ ~AtKey("d2h", k)' /\ ~AtKey("retireH2d", k)'
  BY DEF Still, AtKey, At, HeadDo
<1>3. Mappings'
  BY MappingsKept DEF Still, CacheInv, MayPoison
<1>4. HeadsReady'
  BY <1>2 DEF HeadsReady, PinsResident
<1>5. Copies'
  <2>1. \A d \in dma' : d \in dma /\ chunk'[d.key].state \in InFlight
    BY DEF Still, CacheInv, Copies, TypeInv, DataInv, TypeOK
  <2> QED BY <1>2, <2>1, CopiesKept DEF Still, CacheInv
<1>6. NoneStuck'
  <2>1. \A k \in Key : chunk'[k].state = chunk[k].state /\ ~Moving(k)
    BY <1>2 DEF Still, Moving
  <2> QED BY <2>1, StuckKept DEF Still, CacheInv
<1>7. FlushPending'
  BY <1>1 DEF FlushPending
<1>8. Owned'
  <2>1. ~rt'.closed => \A a \in Alloc : owner'[a].live => owner'[a].va \in {"held", "quarantined"}
    BY DEF Owned, CacheInv, Still
  <2>2. \A f \in Frame : Mapped(f)' =>
          /\ ~rt'.closed => owner'[AllocOf[frame'[f].key]].live
          /\ owner'[AllocOf[frame'[f].key]].va \in {"held", "quarantined"}
    BY DEF Owned, CacheInv, Still, SameKeys, Mapped
  <2>3. LiveKeys' = LiveKeys
    BY DEF LiveKeys, Still
  <2>4. call'.op \in {"prefetch", "acquire"} => Touched' \subseteq LiveKeys'
    BY <1>1, <2>3 DEF Owned, CacheInv
  <2> QED BY <1>1, <2>1, <2>2, <2>4 DEF Owned
<1> QED BY <1>3, <1>4, <1>5, <1>6, <1>7, <1>8, <1>1 DEF CacheInv

LEMMA SpillsStill ==
  ASSUME SpillsUsed, Still, spill' = spill,
         \A k \in Key : lease.use[k].spillHere => lease'.use[k].spillHere
  PROVE  SpillsUsed'
<1>1. \A k : ~AtKey("invalidate", k)
  BY DEF Still, AtKey, At
<1>2. \A k \in Key : Dirty(k) => Dirty(k)'
  BY DEF Still, Dirty
<1> QED BY <1>1, <1>2 DEF SpillsUsed, Still, MayPoison

(* What a call that goes on with the work behind its first task still has  *)
(* to do.                                                                  *)
LEMMA Behind ==
  ASSUME TypeInv, CallInv, call.todo # << >>, Head(call.todo).do # "forEach",
         Leads(Tail(call.todo))
  PROVE  /\ Work(call'.todo) = Work(Tail(call.todo))
         /\ Work(Tail(call.todo)) \subseteq Work(call.todo)
<1>1. call \in CallRecord
  BY DEF TypeInv, CallOK
<1>2. Work(Tail(call.todo)) \subseteq Work(call.todo)
  BY <1>1, AtOrBehind
<1>3. Work(call'.todo) = Work(Tail(call.todo))
  <2>1. CASE Tail(call.todo) = << >>
    BY <2>1, IdleProper, WorkEmpty DEF Leads
  <2>2. CASE Tail(call.todo) # << >>
    BY <2>2 DEF Leads
  <2> QED BY <2>1, <2>2
<1> QED BY <1>2, <1>3

(* The work of a call that does not make a lease. *)
LEMMA OfAcquire ==
  ASSUME CallInv
  PROVE  /\ \A do \in AcquireDo : Awaits(do) => call.op = "acquire"
         /\ \A do \in AcquireDo, k \in Key : Pending(do, k) => call.op = "acquire"
         /\ \A do \in LeaseDo : Awaits(do) => call.op \in {"poll", "wait", "drain", "close"}
         /\ \A do \in CloseDo : Awaits(do) => call.op = "close"
         /\ \A k \in Key : Pending("pin", k) => Awaits("rollback")
         /\ Awaits("arm") => Awaits("rollback")
         /\ \A k \in Key : Pending("prepare", k) => Pending("pin", k)
<1>1. \A w \in Work(call.todo) : Permitted(call.op, Touched, w)
  BY DEF CallInv, Proper, ListOK
<1>2. \A do, k : KeyTask(do, k).do = do
  BY WorkFields
<1>3. /\ \A do \in AcquireDo : Awaits(do) => call.op = "acquire"
      /\ \A do \in AcquireDo, k \in Key : Pending(do, k) => call.op = "acquire"
      /\ \A do \in LeaseDo : Awaits(do) => call.op \in {"poll", "wait", "drain", "close"}
      /\ \A do \in CloseDo : Awaits(do) => call.op = "close"
  BY <1>1, <1>2 DEF Awaits, Pending, Permitted
<1> QED BY <1>3 DEF CallInv, Proper, Awaits, Pending

(* An acquisition prepares a chunk before it pins it. *)
LEMMA PrepareUseOK ==
  ASSUME TypeInv, CallInv, CallInv', CacheInv, UseInv, NEW k \in Key, PrepareUse(k)
  PROVE  CacheInv' /\ UseInv'
<1>1. /\ call.todo # << >> /\ Head(call.todo).do = "prepare" /\ Head(call.todo).key = k
      /\ UNCHANGED <<chunk, frame, owner, gpu, dma, rt>>
  BY DEF PrepareUse, AtKey, At
<1>2. ~rt.closed /\ rt.pools /\ call \in CallRecord
  BY <1>1, InCall DEF TypeInv, CallOK
<1>3. ListOK(call.op, Touched, call.todo)
  BY DEF CallInv, Proper
<1>4. /\ Pending("prepare", k) /\ KeyTask("prepare", k) \notin Work(Tail(call.todo))
  <2>1. /\ Head(call.todo) \in Tasks /\ Work(call.todo) = WorkOf(Head(call.todo)) \union Work(Tail(call.todo))
        /\ \A v \in WorkOf(Head(call.todo)), w \in Work(Tail(call.todo)) : InOrder(call.op, v, w)
    BY <1>1, <1>3, TailOK
  <2>2. "prepare" \in KeyDo \union {"d2h", "map"}
    BY DEF KeyDo, LoopDo
  <2>3. WorkOf(Head(call.todo)) = {KeyTask("prepare", k)}
    BY <1>1, <2>1, <2>2, WorkOfTask
  <2>4. ASSUME KeyTask("prepare", k) \in Work(Tail(call.todo)) PROVE FALSE
    <3>1. InOrder(call.op, KeyTask("prepare", k), KeyTask("prepare", k))
      BY <2>1, <2>3, <2>4
    <3> QED BY <3>1, WorkFields DEF InOrder
  <2> QED BY <2>1, <2>3, <2>4 DEF Pending
<1>5. /\ call.op = "acquire" /\ Pending("pin", k) /\ Awaits("rollback")
      /\ ~Awaits("finishLease")
  BY <1>4, OfAcquire DEF AcquireDo, LeaseDo
<1>6. lease.state = "none" /\ gpu.phase # "running" /\ ~lease.use[k].spillHere
  BY <1>4, <1>5 DEF UseInv, LeaseCalls, KernelHolds, LeaseSpills
<1>7. Touched \subseteq Key /\ k \in Touched
  <2>1. Permitted(call.op, Touched, KeyTask("prepare", k))
    BY <1>3, <1>4 DEF ListOK, Pending
  <2> QED BY <2>1, WorkFields DEF Permitted, OfPlan, TypeInv, CallOK, CallRecord, PlanSet, Touched, Plan
<1>8. ASSUME UNCHANGED <<spill, lease>>, (\E status : Fail(status)) \/ Detour
      PROVE  CacheInv' /\ UseInv'
  <2>1. Proceeds /\ Untouched
    BY <1>1, <1>8 DEF Proceeds, Untouched, SameKeys
  <2> QED BY <1>1, <2>1, UntouchedTask DEF LeaseDo2, HeadDo
<1>9. ASSUME NEW u, lease' = [lease EXCEPT !.use[k] = u], Continue,
             u.gen = 0, u.spillHere => u.dirty,
             Still => SpillsUsed'
      PROVE  CacheInv' /\ UseInv'
  <2>1. /\ lease'.state = "none" /\ lease'.use[k] = u
        /\ \A j \in Key \ {k} : lease'.use[j] = lease.use[j]
    BY <1>6, <1>9 DEF TypeInv, DataInv, TypeOK
  <2>2. Leads(Tail(call.todo)) /\ Steers
        /\ \A j \in Key : AtKey("pin", j)' => MakesResident(Head(call.todo), j)
    BY <1>1, <1>9, Continues
  <2>3. \A j \in Key : ~AtKey("pin", j)'
    BY <1>1, <2>2 DEF MakesResident
  <2>4. Work(call'.todo) = Work(Tail(call.todo))
    BY <1>1, <2>2, Behind
  <2>5. ~Pending("prepare", k)'
    BY <1>4, <2>4 DEF Pending
  <2>6. /\ Awaits("rollback")' /\ Pending("pin", k)' /\ ~Awaits("finishLease")'
    <3>1. Awaits("rollback")' /\ ~Awaits("finishLease")'
      BY <1>1, <1>5, <2>2 DEF Steers, Keeps, At
    <3>2. KeyTask("pin", k) \in Work(Tail(call.todo))
      BY <1>1, <1>2, <1>5, AtOrBehind DEF At
    <3> QED BY <2>4, <3>1, <3>2 DEF Pending
  <2>7. Still
    BY <1>1, <1>2, <1>5, <2>2 DEF Still, MayPoison, SameKeys, HeadDo, Steers, Keeps
  <2>8. CacheInv'
    BY <1>9, <2>3, <2>7, CacheStill DEF PinsResident
  <2>9. KernelHolds'
    BY <1>1, <1>6 DEF KernelHolds
  <2>10. LeasePins'
    <3>1. Holding
      BY <1>5, <1>6 DEF Holding
    <3>2. Members' \subseteq Members
      BY <1>9, <2>1 DEF Members
    <3> QED BY <1>1, <1>2, <3>1, <3>2 DEF LeasePins, UseInv
  <2>11. LeaseCalls'
    <3>1. call'.op # "write"
      BY <1>5, <2>7 DEF Still, CallInv
    <3> QED BY <2>1, <2>6, <3>1 DEF LeaseCalls
  <2>12. LeaseSpills'
    <3> SUFFICES ASSUME NEW j \in Key, lease'.use[j].spillHere
                 PROVE  /\ lease'.use[j].dirty
                        /\ Awaits("arm")' => lease'.use[j].gen # 0 \/ Pending("pin", j)'
                        /\ ~Pending("prepare", j)'
      BY <2>1 DEF LeaseSpills
    <3>1. CASE j = k
      BY <1>9, <2>1, <2>5, <2>6, <3>1
    <3>2. CASE j # k
      <4>1. /\ lease.use[j].dirty /\ ~Pending("prepare", j)
            /\ Awaits("arm") => lease.use[j].gen # 0 \/ Pending("pin", j)
        BY <2>1, <3>2 DEF UseInv, LeaseSpills
      <4>2. /\ Pending("prepare", j)' => Pending("prepare", j)
            /\ Awaits("arm")' => Awaits("arm") /\ (Pending("pin", j) => Pending("pin", j)')
        BY <1>1, <2>2 DEF Steers, Keeps, AtKey, At
      <4> QED BY <2>1, <3>2, <4>1, <4>2
    <3> QED BY <3>1, <3>2
  <2>13. LeaseDirties'
    BY <2>1 DEF LeaseDirties
  <2>14. Closing'
    <3>1. call'.op # "close"
      BY <1>5, <2>7 DEF Still, CallInv
    <3> QED BY <1>1, <1>2, <3>1 DEF Closing
  <2> QED BY <2>8, <2>9, <2>10, <2>11, <2>12, <2>13, <2>14 DEF UseInv
<1> DEFINE Use(here) == [NoUse EXCEPT !.dirty = Plan[k] # "read", !.spillHere = here,
                      !.provisional = Plan[k] = "overwrite" /\ chunk[k].state = "host_clean"]
<1>10. \A here \in BOOLEAN : /\ Use(here).gen = 0 /\ Use(here).spillHere = here
                             /\ Use(here).dirty = (Plan[k] # "read")
  BY DEF NoUse
<1>11. CASE lease' = [lease EXCEPT !.use[k] = Use(FALSE)] /\ Continue /\ UNCHANGED spill
  <2> DEFINE u == Use(FALSE)
  <2>1. u.gen = 0 /\ u.spillHere = FALSE /\ lease' = [lease EXCEPT !.use[k] = u]
    BY <1>10, <1>11
  <2> HIDE DEF u
  <2>2. \A j \in Key : lease.use[j].spillHere => lease'.use[j].spillHere
    BY <1>6, <2>1 DEF TypeInv, DataInv, TypeOK
  <2>3. Still => SpillsUsed'
    BY <1>11, <2>2, SpillsStill DEF CacheInv
  <2> QED BY <1>9, <1>11, <2>1, <2>3
<1>12. CASE /\ NeedsSpill(k) /\ spill' = [spill EXCEPT ![k] = "current"]
            /\ lease' = [lease EXCEPT !.use[k] = Use(TRUE)] /\ Continue
  <2> DEFINE u == Use(TRUE)
  <2>1. u.gen = 0 /\ u.spillHere = TRUE /\ u.dirty /\ lease' = [lease EXCEPT !.use[k] = u]
    BY <1>10, <1>12 DEF NeedsSpill
  <2> HIDE DEF u
  <2>2. /\ lease'.use[k].spillHere /\ spill'[k] = "current"
        /\ \A j \in Key \ {k} : lease'.use[j] = lease.use[j] /\ spill'[j] = spill[j]
    BY <1>12, <2>1 DEF TypeInv, DataInv, TypeOK
  <2>3. SpillsUsed'
    <3> SUFFICES ASSUME ~rt.poisoned, NEW j \in Key
                 PROVE  /\ spill'[j] # "stale"
                        /\ spill'[j] # "none" => Dirty(j)' \/ lease'.use[j].spillHere
      BY <1>1 DEF SpillsUsed
    <3>1. CASE j = k
      BY <2>2, <3>1
    <3>2. CASE j # k
      BY <1>1, <2>2, <3>2 DEF CacheInv, SpillsUsed, Dirty, AtKey, At
    <3> QED BY <3>1, <3>2
  <2> QED BY <1>9, <1>12, <2>1, <2>3
<1>13. CASE /\ (IF SpillVictims = {} THEN Fail("other")
                ELSE Goto(<<KeyTask("writeback", Least(SpillVictims))>> \o call.todo))
            /\ UNCHANGED <<spill, lease>>
  <2>1. CASE SpillVictims = {}
    BY <1>8, <1>13, <2>1
  <2>2. CASE SpillVictims # {}
    <3>1. SpillVictims \in SUBSET Key /\ Key \in SUBSET Nat
      BY DEF SpillVictims, SpillHolders, Key
    <3>2. Least(SpillVictims) \in Key
      BY <2>2, <3>1, LeastElement
    <3>3. Detour
      BY <1>1, <1>13, <2>2, <3>2, SpillWritebackCall DEF At
    <3> QED BY <1>8, <1>13, <3>3
  <2> QED BY <2>1, <2>2
<1>14. CASE Fail("other") /\ UNCHANGED <<spill, lease>>
  BY <1>8, <1>14
<1> QED BY <1>11, <1>12, <1>13, <1>14 DEF PrepareUse

LEMMA PinnedRecord ==
  ASSUME NEW r \in ChunkRecord, RecordOK(r), IsResident(r)
  PROVE  /\ RecordOK(PinnedForUse(r)) /\ PinnedForUse(r).pin > 0
         /\ PinnedForUse(r).state = r.state /\ PinnedForUse(r).frame = r.frame
<1> DEFINE b == BeginGeneration(r)
<1>1. /\ b \in ChunkRecord /\ b.state = r.state /\ b.frame = r.frame /\ b.staging = r.staging
      /\ b.completed <= b.event
  BY DEF BeginGeneration, ChunkRecord, RecordOK, ValidRecord
<1> HIDE DEF b
<1> DEFINE p == [b EXCEPT !.pin = r.pin + 1, !.ws = TRUE]
<1>2. r.pin \in Nat
  BY DEF ChunkRecord
<1>3. /\ p.state = r.state /\ p.frame = r.frame /\ p.staging = r.staging
      /\ p.completed <= p.event /\ p.pin = r.pin + 1
  BY <1>1 DEF ChunkRecord
<1>4. PinnedForUse(r) = p
  BY DEF PinnedForUse, b
<1> HIDE DEF p
<1>5. RecordOK(p)
  BY <1>2, <1>3 DEF RecordOK, ValidRecord, IsResident, RequiresStaging, ForbidsStaging, HasFrame
<1> QED BY <1>2, <1>3, <1>4, <1>5

(* A chunk is pinned right after it was made resident. *)
LEMMA PinOK ==
  ASSUME TypeInv, CallInv, CallInv', CacheInv, UseInv, NEW k \in Key, Pin(k)
  PROVE  CacheInv' /\ UseInv'
<1>1. /\ call.todo # << >> /\ Head(call.todo).do = "pin" /\ Head(call.todo).key = k
      /\ UNCHANGED <<frame, owner, spill, gpu, dma, rt>> /\ Continue
      /\ chunk' = [chunk EXCEPT ![k] = PinnedForUse(chunk[k])]
      /\ lease' = [lease EXCEPT !.use[k].gen = chunk[k].event + 1]
      /\ AtKey("pin", k)
  BY DEF Pin, AtKey, At
<1>2. ~rt.closed /\ rt.pools /\ call \in CallRecord
  BY <1>1, InCall DEF TypeInv, CallOK
<1>3. /\ Pending("pin", k)
      /\ call.op = "acquire" /\ Awaits("rollback") /\ ~Awaits("finishLease")
  <2>1. Pending("pin", k)
    BY <1>1, <1>2, AtTask DEF AtKey, KeyDo, LoopDo
  <2> QED BY <2>1, OfAcquire DEF AcquireDo, LeaseDo
<1>4. lease.state = "none" /\ gpu.phase # "running" /\ IsResident(chunk[k]) /\ RecordOK(chunk[k])
  BY <1>1, <1>2, <1>3 DEF UseInv, LeaseCalls, KernelHolds, CacheInv, HeadsReady, Mappings
<1>5. /\ chunk \in [Key -> ChunkRecord]
      /\ RecordOK(chunk'[k]) /\ chunk'[k].pin > 0
      /\ chunk'[k].state = chunk[k].state /\ chunk'[k].frame = chunk[k].frame
      /\ \A j \in Key \ {k} : chunk'[j] = chunk[j]
  <2>1. chunk \in [Key -> ChunkRecord] /\ chunk[k] \in ChunkRecord
    BY Records
  <2> QED BY <1>1, <1>4, <2>1, PinnedRecord
<1>6. /\ lease'.state = "none" /\ \A j \in Key : lease'.use[j].spillHere = lease.use[j].spillHere
                               /\ lease'.use[j].dirty = lease.use[j].dirty
      /\ lease'.use[k].gen # 0 /\ \A j \in Key \ {k} : lease'.use[j] = lease.use[j]
  <2>1. chunk[k].event \in Nat
    BY <1>5 DEF ChunkRecord
  <2> QED BY <1>1, <1>4, <2>1 DEF TypeInv, DataInv, TypeOK
<1>7. /\ Leads(Tail(call.todo)) /\ Steers
      /\ \A j \in Key : ~AtKey("pin", j)'
  BY <1>1, Continues DEF MakesResident
<1>8. /\ Awaits("rollback")' /\ ~Awaits("finishLease")'
  BY <1>1, <1>3, <1>7 DEF Steers, Keeps, At
<1>9. Still
  BY <1>1, <1>2, <1>3, <1>5, <1>7 DEF Still, MayPoison, SameKeys, HeadDo, Steers, Keeps
<1>10. CacheInv'
  <2>1. SpillsUsed'
    BY <1>1, <1>6, <1>9, SpillsStill DEF CacheInv
  <2> QED BY <1>7, <1>9, <2>1, CacheStill DEF PinsResident
<1>11. KernelHolds'
  BY <1>1, <1>4 DEF KernelHolds
<1>12. LeasePins'
  <2>1. Holding
    BY <1>3, <1>4 DEF Holding
  <2>2. Members' \subseteq Members \union {k}
    BY <1>6 DEF Members
  <2> QED BY <1>1, <1>2, <1>5, <2>1, <2>2 DEF LeasePins, UseInv, Members
<1>13. LeaseCalls'
  <2>1. call'.op # "write"
    BY <1>3, <1>9 DEF Still, CallInv
  <2> QED BY <1>6, <1>8, <2>1 DEF LeaseCalls
<1>14. LeaseSpills'
  <2> SUFFICES ASSUME NEW j \in Key, lease'.use[j].spillHere
               PROVE  /\ lease'.use[j].dirty
                      /\ Awaits("arm")' => lease'.use[j].gen # 0 \/ Pending("pin", j)'
                      /\ ~Pending("prepare", j)'
    BY <1>6 DEF LeaseSpills
  <2>1. /\ lease.use[j].dirty /\ ~Pending("prepare", j)
        /\ Awaits("arm") => lease.use[j].gen # 0 \/ Pending("pin", j)
    BY <1>6 DEF UseInv, LeaseSpills
  <2>2. /\ Pending("prepare", j)' => Pending("prepare", j)
        /\ Awaits("arm")' => Awaits("arm") /\ (j # k /\ Pending("pin", j) => Pending("pin", j)')
    BY <1>1, <1>7 DEF Steers, Keeps, AtKey, At
  <2> QED BY <1>6, <2>1, <2>2
<1>15. LeaseDirties'
  BY <1>6 DEF LeaseDirties
<1>16. Closing'
  <2>1. call'.op # "close"
    BY <1>3, <1>9 DEF Still, CallInv
  <2> QED BY <1>1, <1>2, <2>1 DEF Closing
<1> QED BY <1>10, <1>11, <1>12, <1>13, <1>14, <1>15, <1>16 DEF UseInv

(* There is no lease and nothing left of one. *)
LEMMA WithoutLease ==
  ASSUME ~rt'.closed, rt'.pools, lease'.state = "none", NoUses',
         gpu'.phase # "running", ~Awaits("finishLease")'
  PROVE  UseInv'
<1>1. Members' = {}
  BY DEF NoUses, Members
<1>2. KernelHolds' /\ LeasePins'
  BY <1>1 DEF KernelHolds, LeasePins
<1>3. LeaseCalls' /\ LeaseSpills' /\ LeaseDirties'
  BY DEF LeaseCalls, LeaseSpills, LeaseDirties, NoUses
<1>4. Closing'
  BY DEF Closing
<1> QED BY <1>2, <1>3, <1>4 DEF UseInv

LEMMA EnsureWorkspaceOK ==
  ASSUME TypeInv, CallInv, CallInv', CacheInv, UseInv, EnsureWorkspace
  PROVE  CacheInv' /\ UseInv'
<1>1. /\ call.todo # << >> /\ Head(call.todo).do = "workspace" /\ At("workspace")
      /\ UNCHANGED <<chunk, frame, spill, owner, lease, gpu, dma, rt>>
  BY DEF EnsureWorkspace, At
<1>2. ~rt.closed /\ rt.pools /\ call \in CallRecord
  BY <1>1, InCall DEF TypeInv, CallOK
<1>3. /\ call.op = "acquire"
      /\ \/ call' = NoCall
         \/ /\ call'.op = call.op /\ call'.plan = call.plan /\ call'.todo # << >>
            /\ Work(call'.todo) = LoopWork(Touched, <<"prepare", "ensure", "pin">>)
                 \union {KeyTask("arm", None), KeyTask("rollback", None)}
            /\ Head(call'.todo).do \notin HeadDo \union {"pin"}
  BY EnsureWorkspaceCall
<1>4. \A w \in Work(call.todo) : w = KeyTask("workspace", None)
  <2>1. ListOK(call.op, Touched, call.todo)
    BY DEF CallInv, Proper
  <2>2. /\ Head(call.todo) \in Tasks
        /\ Work(call.todo) = WorkOf(Head(call.todo)) \union Work(Tail(call.todo))
    BY <1>1, <2>1, TailOK
  <2>3. Tail(call.todo) = << >>
    BY <1>1, <1>2, LastTask DEF LastDo
  <2>4. "workspace" \notin KeyDo \union {"d2h", "map", "forEach"}
    BY DEF KeyDo, LoopDo
  <2>5. WorkOf(Head(call.todo)) = {KeyTask("workspace", None)}
    BY <1>1, <2>2, <2>4, WorkOfTask
  <2> QED BY <2>2, <2>3, <2>5, WorkEmpty
<1>5. lease.state = "none" /\ NoUses /\ gpu.phase # "running"
  <2>1. ~Awaits("rollback") /\ ~Awaits("dropSpills")
    BY <1>4, WorkFields DEF Awaits
  <2> QED BY <1>3, <2>1 DEF UseInv, LeaseCalls, KernelHolds
<1>6. ~Awaits("finishLease")'
  <2>1. KeyTask("finishLease", None) \notin LoopWork(Touched, <<"prepare", "ensure", "pin">>)
    BY WorkFields DEF LoopWork
  <2> QED BY <1>3, <2>1, WorkFields, NothingLeft DEF Awaits
<1>7. call' = NoCall => call'.todo = << >>
  BY IdleProper
<1>8. Still
  BY <1>1, <1>2, <1>3, <1>7 DEF Still, MayPoison, SameKeys, HeadDo
<1>9. PinsResident
  BY <1>3, <1>7 DEF PinsResident, AtKey, At
<1>10. SpillsUsed'
  BY <1>1, <1>8, SpillsStill DEF CacheInv
<1>11. CacheInv'
  BY <1>8, <1>9, <1>10, CacheStill
<1>12. UseInv'
  <2>1. ~rt'.closed /\ rt'.pools /\ lease'.state = "none" /\ gpu'.phase # "running"
    BY <1>1, <1>2, <1>5
  <2>2. NoUses'
    BY <1>1, <1>5 DEF NoUses
  <2> QED BY <1>6, <2>1, <2>2, WithoutLease
<1> QED BY <1>11, <1>12

LEMMA UnpinnedRecords ==
  ASSUME TypeInv, NEW k \in Key
  PROVE  /\ Unpinned[k].frame = chunk[k].frame /\ Unpinned[k].state = chunk[k].state
         /\ RecordOK(chunk[k]) => RecordOK(Unpinned[k])
         /\ k \notin Members => Unpinned[k] = chunk[k]
<1>1. CASE k \notin Members
  BY <1>1 DEF Unpinned
<1>2. CASE k \in Members
  <2> DEFINE r == chunk[k]
             c == CompleteGeneration(r, lease.use[k].gen)
             u == [c EXCEPT !.pin = IF @ = 0 THEN 0 ELSE @ - 1, !.ws = FALSE]
  <2>1. r \in ChunkRecord
    BY Records
  <2>2. c \in ChunkRecord /\ c.state = r.state /\ c.pin = r.pin /\ c.frame = r.frame
        /\ c.staging = r.staging
        /\ (r.completed <= r.event => c.completed <= c.event)
        /\ (r.completed = r.event => c.completed = c.event)
    <3> DEFINE done == [r EXCEPT !.event = 1, !.completed = 1]
    <3>1. /\ done \in ChunkRecord /\ done.completed = 1 /\ done.event = 1
          /\ done.state = r.state /\ done.pin = r.pin
          /\ done.frame = r.frame /\ done.staging = r.staging
      BY <2>1 DEF ChunkRecord
    <3>2. c \in {r, done}
      BY DEF CompleteGeneration
    <3> HIDE DEF done, c, r
    <3> QED BY <2>1, <3>1, <3>2
  <2>3. Unpinned[k] = u
    BY <1>2 DEF Unpinned
  <2> HIDE DEF c
  <2>4. /\ u.state = r.state /\ u.frame = r.frame /\ u.staging = r.staging /\ ~u.ws
        /\ u.completed = c.completed /\ u.event = c.event
        /\ u.pin = (IF r.pin = 0 THEN 0 ELSE r.pin - 1)
    BY <2>2 DEF ChunkRecord
  <2> HIDE DEF u
  <2>5. r.pin \in Nat /\ u.pin \in Nat /\ (r.pin = 0 => u.pin = 0)
    BY <2>1, <2>4 DEF ChunkRecord
  <2>6. RecordOK(r) => RecordOK(u)
    BY <2>2, <2>4, <2>5 DEF RecordOK, ValidRecord, IsResident
  <2> QED BY <1>2, <2>3, <2>4, <2>6
<1> QED BY <1>1, <1>2

LEMMA RollbackOK ==
  ASSUME TypeInv, CallInv, CallInv', CacheInv, UseInv, Rollback
  PROVE  CacheInv' /\ UseInv'
<1>1. /\ call.todo # << >> /\ Head(call.todo).do = "rollback"
      /\ UNCHANGED <<frame, spill, owner, lease, gpu, dma>> /\ chunk' = Unpinned
      /\ rt' = rt \/ rt' = Poisoned
  BY DEF Rollback, At
<1>2. ~rt.closed /\ rt.pools /\ MayPoison
  BY <1>1, InCall, PoisonKeeps
<1>3. /\ call.op = "acquire"
      /\ call'.op = call.op /\ call'.plan = call.plan /\ call'.todo # << >>
      /\ KeyTask("dropSpills", None) \in Work(call'.todo)
      /\ \A w \in Work(call'.todo) : w.do \in {"unmapIfClean", "catch", "dropSpills"}
      /\ Head(call'.todo).do \notin HeadDo \union {"pin"}
  BY RollbackCall
<1>4. lease.state = "none" /\ gpu.phase # "running"
  BY <1>3 DEF UseInv, LeaseCalls, KernelHolds
<1>5. /\ \A do \in {"rollback", "finishLease", "arm"} : ~Awaits(do)'
      /\ \A k \in Key : ~Pending("prepare", k)'
      /\ Awaits("dropSpills")'
  BY <1>3, WorkFields DEF Awaits, Pending
<1>6. Still
  BY <1>1, <1>2, <1>3, UnpinnedRecords DEF Still, SameKeys, HeadDo
<1>7. PinsResident
  BY <1>3 DEF PinsResident, AtKey, At
<1>8. SpillsUsed'
  BY <1>1, <1>6, SpillsStill DEF CacheInv
<1>9. CacheInv'
  BY <1>6, <1>7, <1>8, CacheStill
<1>10. KernelHolds' /\ LeasePins'
  BY <1>1, <1>4, <1>5 DEF KernelHolds, LeasePins, Holding
<1>11. LeaseCalls'
  BY <1>1, <1>3, <1>4, <1>5 DEF LeaseCalls
<1>12. LeaseSpills' /\ LeaseDirties'
  BY <1>1, <1>4, <1>5 DEF LeaseSpills, LeaseDirties, UseInv
<1>13. Closing'
  BY <1>1, <1>2, <1>3 DEF Closing, MayPoison
<1> QED BY <1>9, <1>10, <1>11, <1>12, <1>13 DEF UseInv

LEMMA DropSpillsOK ==
  ASSUME TypeInv, CallInv, CallInv', CacheInv, UseInv, DropSpills
  PROVE  CacheInv' /\ UseInv'
<1>1. /\ call.todo # << >> /\ Head(call.todo).do = "dropSpills"
      /\ UNCHANGED <<chunk, frame, owner, gpu, dma, rt>>
      /\ lease' = NoLease /\ spill' = WithoutSpillsOfLease
  BY DEF DropSpills, At
<1>2. ~rt.closed /\ rt.pools
  BY <1>1, InCall
<1>3. /\ call.op = "acquire"
      /\ \/ call' = NoCall
         \/ /\ call'.op = call.op /\ call'.plan = call.plan /\ call'.todo # << >>
            /\ Work(call'.todo) = {KeyTask("forceRefresh", None)}
            /\ Head(call'.todo).do = "forceRefresh"
  BY DropSpillsCall
<1>4. gpu.phase # "running"
  BY <1>3 DEF UseInv, LeaseCalls, KernelHolds
<1>5. ~Awaits("finishLease")' /\ (call' = NoCall => call'.todo = << >>)
  BY <1>3, WorkFields, NothingLeft, IdleProper DEF Awaits
<1>6. Still
  BY <1>1, <1>2, <1>3, <1>5 DEF Still, MayPoison, SameKeys, HeadDo
<1>7. PinsResident
  BY <1>3, <1>5 DEF PinsResident, AtKey, At
<1>8. SpillsUsed'
  <2> SUFFICES ASSUME ~rt.poisoned, NEW k \in Key
               PROVE  /\ spill'[k] # "stale"
                      /\ spill'[k] # "none" => Dirty(k)'
    BY <1>1 DEF SpillsUsed
  <2>1. spill'[k] = IF lease.use[k].spillHere THEN "none" ELSE spill[k]
    BY <1>1 DEF WithoutSpillsOfLease
  <2>2. /\ spill[k] # "stale"
        /\ spill[k] # "none" => Dirty(k) \/ lease.use[k].spillHere
    BY <1>1 DEF CacheInv, SpillsUsed, AtKey, At
  <2> QED BY <1>1, <2>1, <2>2 DEF Dirty
<1>9. CacheInv'
  BY <1>6, <1>7, <1>8, CacheStill
<1>10. lease'.state = "none" /\ NoUses'
  BY <1>1 DEF NoLease, NoUse, NoUses
<1>11. UseInv'
  <2>1. ~rt'.closed /\ rt'.pools /\ gpu'.phase # "running"
    BY <1>1, <1>2, <1>4
  <2> QED BY <1>5, <1>10, <2>1, WithoutLease
<1> QED BY <1>9, <1>11

(* An acquisition ends with everything it uses pinned. *)
LEMMA ArmOK ==
  ASSUME TypeInv, CallInv, CallInv', CacheInv, UseInv, Arm
  PROVE  CacheInv' /\ UseInv'
<1>1. /\ call.todo # << >> /\ Head(call.todo).do = "arm" /\ At("arm")
      /\ UNCHANGED <<chunk, frame, spill, owner, gpu, dma>>
  BY DEF Arm, At
<1>2. ~rt.closed /\ rt.pools /\ call \in CallRecord
  BY <1>1, InCall DEF TypeInv, CallOK
<1>3. CASE (\E status : Fail(status)) /\ UNCHANGED <<lease, rt>>
  <2>1. Proceeds /\ Untouched
    BY <1>1, <1>3 DEF Proceeds, Untouched, SameKeys
  <2> QED BY <1>1, <2>1, UntouchedTask DEF LeaseDo2, HeadDo
<1>4. CASE /\ Goto(<< >>) /\ rt' \in {rt, AsyncUnknown}
           /\ lease'.state = "armed" /\ lease'.use = lease.use
  <2>1. Awaits("arm") /\ \A k \in Key : ~Pending("pin", k)
    <3>1. ListOK(call.op, Touched, call.todo)
      BY DEF CallInv, Proper
    <3>2. /\ Head(call.todo) \in Tasks
          /\ Work(call.todo) = WorkOf(Head(call.todo)) \union Work(Tail(call.todo))
          /\ \A v \in WorkOf(Head(call.todo)), w \in Work(Tail(call.todo)) : InOrder(call.op, v, w)
      BY <1>1, <3>1, TailOK
    <3>3. "arm" \notin KeyDo \union {"d2h", "map", "forEach"}
      BY DEF KeyDo, LoopDo
    <3>4. WorkOf(Head(call.todo)) = {KeyTask("arm", None)}
      BY <1>1, <3>2, <3>3, WorkOfTask
    <3>5. \A w \in Work(Tail(call.todo)) : w.do # "pin"
      BY <3>2, <3>4, WorkFields DEF InOrder
    <3> QED BY <3>2, <3>4, <3>5, WorkFields DEF Awaits, Pending
  <2>2. call.op = "acquire" /\ Awaits("rollback")
    BY <2>1, OfAcquire DEF AcquireDo
  <2>3. lease.state = "none" /\ gpu.phase # "running"
    BY <2>2 DEF UseInv, LeaseCalls, KernelHolds
  <2>4. \A k \in Members : chunk[k].pin > 0
    BY <1>2, <2>2, <2>3 DEF UseInv, LeasePins, Holding
  <2>5. call' = NoCall /\ call'.todo = << >> /\ call'.op = "none" /\ Work(call'.todo) = {}
    BY <1>4, IdleProper DEF Goto
  <2>6. \A do : ~Awaits(do)'
    BY <2>5 DEF Awaits
  <2>7. MayPoison
    BY <1>1, <1>4, PoisonKeeps
  <2>8. Still
    BY <1>1, <1>2, <2>2, <2>5, <2>7 DEF Still, SameKeys, HeadDo
  <2>9. CacheInv'
    <3>1. SpillsUsed'
      BY <1>1, <1>4, <2>8, SpillsStill DEF CacheInv
    <3>2. PinsResident
      BY <2>5 DEF PinsResident, AtKey, At
    <3> QED BY <2>8, <3>1, <3>2, CacheStill
  <2>10. KernelHolds' /\ LeasePins'
    BY <1>1, <1>4, <2>3, <2>4 DEF KernelHolds, LeasePins, Members
  <2>11. LeaseCalls' /\ LeaseDirties'
    BY <1>4, <2>5, <2>6 DEF LeaseCalls, LeaseDirties
  <2>12. LeaseSpills'
    <3>1. \A k : ~Pending("prepare", k)'
      BY <2>5 DEF Pending
    <3> QED BY <1>4, <2>1, <2>6, <3>1 DEF LeaseSpills, UseInv
  <2>13. Closing'
    BY <1>2, <2>5, <2>7 DEF Closing, MayPoison
  <2> QED BY <2>9, <2>10, <2>11, <2>12, <2>13 DEF UseInv
<1>5. lease \in [state: {"none", "armed", "submitted", "quarantined"},
                held: BOOLEAN,
                seal: {"none", "success", "cancelled", "failed"},
                use: [Key -> [gen: Nat, dirty: BOOLEAN, provisional: BOOLEAN,
                              spillHere: BOOLEAN]]]
  BY DEF TypeInv, DataInv, TypeOK
<1>6. CASE lease' = [lease EXCEPT !.state = "armed", !.held = TRUE] /\ Goto(<< >>) /\ UNCHANGED rt
  <2>1. lease'.state = "armed" /\ lease'.use = lease.use
    BY <1>5, <1>6
  <2> QED BY <1>4, <1>6, <2>1
<1>7. CASE lease' = [lease EXCEPT !.state = "armed"] /\ rt' = AsyncUnknown /\ Goto(<< >>)
  <2>1. lease'.state = "armed" /\ lease'.use = lease.use
    BY <1>5, <1>7
  <2> QED BY <1>4, <1>7, <2>1
<1> QED BY <1>3, <1>6, <1>7 DEF Arm

RetireDo == {"poll", "wait", "finishLease", "abandon"}

(* Behind a task that deals with the lease, no other one finishes it. *)
LEMMA LastOfLease ==
  ASSUME TypeInv, CallInv, call.todo # << >>, Head(call.todo).do \in RetireDo
  PROVE  /\ \A w \in Work(Tail(call.todo)) : w.do \notin LeaseDo
         /\ call.op \in {"poll", "wait", "drain", "close"} /\ call \in CallRecord
         /\ Awaits(Head(call.todo).do)
<1>1. call \in CallRecord /\ ListOK(call.op, Touched, call.todo)
  BY DEF TypeInv, CallOK, CallInv, Proper
<1> DEFINE h == Head(call.todo)
<1>2. /\ h \in Tasks
      /\ Work(call.todo) = WorkOf(h) \union Work(Tail(call.todo))
      /\ \A v \in WorkOf(h), w \in Work(Tail(call.todo)) : InOrder(call.op, v, w)
  BY <1>1, TailOK
<1>3. h.do \in RetireDo
  OBVIOUS
<1> HIDE DEF h
<1>4. h.do \notin KeyDo \union {"d2h", "map", "forEach"}
  BY <1>3 DEF KeyDo, LoopDo, RetireDo
<1>5. WorkOf(h) = {KeyTask(h.do, None)}
  BY <1>2, <1>4, WorkOfTask
<1>6. Permitted(call.op, Touched, KeyTask(h.do, None)) /\ Awaits(h.do)
  BY <1>1, <1>2, <1>5 DEF ListOK, Awaits
<1>7. call.op \in {"poll", "wait", "drain", "close"}
  BY <1>3, <1>6, WorkFields DEF Permitted, LeaseDo, CloseDo, RetireDo
<1>8. \A w \in Work(Tail(call.todo)) : InOrder(call.op, KeyTask(h.do, None), w)
  BY <1>2, <1>5
<1>9. \A w \in Work(Tail(call.todo)) : w.do \notin LeaseDo
  BY <1>3, <1>8, WorkFields DEF FirstDo, InOrder, LeaseDo, RetireDo
<1> QED BY <1>1, <1>6, <1>7, <1>9 DEF h

LEMMA NotFinishing ==
  ASSUME TypeInv, CallInv, call.todo # << >>, Head(call.todo).do \in RetireDo,
         Fails \/ Leads(Tail(call.todo))
  PROVE  ~Awaits("finishLease")'
<1>1. \A w \in Work(Tail(call.todo)) : w.do \notin LeaseDo
  BY LastOfLease
<1>2. Head(call.todo).do # "forEach"
  BY DEF RetireDo
<1>3. Work(call'.todo) \subseteq Work(Tail(call.todo))
  BY <1>2, Behind, IdleProper DEF Fails
<1> QED BY <1>1, <1>3, WorkFields DEF Awaits, LeaseDo

(* A lease is given up: nobody knows whether its kernel still runs. *)
LEMMA QuarantinedOK ==
  ASSUME TypeInv, CallInv, CallInv', CacheInv, UseInv, call.todo # << >>,
         Head(call.todo).do \in RetireDo,
         lease' = [lease EXCEPT !.state = "quarantined"], lease.state # "none",
         UNCHANGED <<frame, spill, owner, gpu, dma>>,
         chunk' = chunk \/ (chunk' = Unpinned /\ gpu.phase # "running"),
         MayPoison, Fails \/ Leads(Tail(call.todo)),
         Head(call.todo).do = "abandon" => rt'.asyncQ
  PROVE  CacheInv' /\ UseInv'
<1>1. ~rt.closed /\ rt.pools
  BY InCall
<1>2. call.op \in {"poll", "wait", "drain", "close"} /\ ~Awaits("finishLease")'
  BY LastOfLease, NotFinishing
<1>3. Head(call.todo).do # "forEach" /\ \A k : ~MakesResident(Head(call.todo), k)
  BY DEF RetireDo, MakesResident
<1>4. Steers /\ \A k \in Key : ~AtKey("pin", k)'
  <2>1. CASE Fails
    BY <1>3, <2>1, GivesUp DEF PinsNothing, AtKey, At
  <2>2. CASE Leads(Tail(call.todo))
    BY <1>3, <2>2, GoesOn
  <2> QED BY <2>1, <2>2
<1>5. lease'.state = "quarantined" /\ lease'.use = lease.use
  BY DEF TypeInv, DataInv, TypeOK
<1>6. call'.todo = << >> => call'.op = "none"
  BY DEF CallInv
<1>7. Still
  <2>1. \A k \in Key : /\ chunk'[k].frame = chunk[k].frame /\ chunk'[k].state = chunk[k].state
                       /\ RecordOK(chunk[k]) => RecordOK(chunk'[k])
    BY UnpinnedRecords
  <2> QED BY <1>1, <1>2, <1>4, <2>1 DEF Still, SameKeys, Steers, Keeps, HeadDo, RetireDo
<1>8. CacheInv'
  <2>1. SpillsUsed'
    BY <1>5, <1>7, SpillsStill DEF CacheInv
  <2> QED BY <1>4, <1>7, <2>1, CacheStill DEF PinsResident
<1>9. KernelHolds' /\ LeasePins' /\ LeaseDirties'
  BY <1>1, <1>5 DEF KernelHolds, LeasePins, LeaseDirties, Holding, OnDevice, UseInv, MayPoison
<1>10. LeaseCalls'
  <2>1. call'.op \notin {"acquire", "write"}
    BY <1>2, <1>4, <1>6 DEF Steers, Keeps
  <2> QED BY <1>2, <1>5, <2>1 DEF LeaseCalls
<1>11. LeaseSpills'
  <2>1. ~Awaits("arm")
    BY <1>2, OfAcquire DEF AcquireDo
  <2>2. ~Awaits("arm")' /\ \A k \in Key : Pending("prepare", k)' => Pending("prepare", k)
    BY <1>4, <2>1 DEF Steers, Keeps
  <2> QED BY <1>5, <2>2 DEF LeaseSpills, UseInv
<1>12. Closing'
  <2>1. ASSUME call'.op = "close", gpu.phase = "running"
        PROVE  Awaits("abandon")' \/ rt'.asyncQ
    <3>1. call.op = "close"
      BY <1>4, <1>6, <2>1 DEF Steers, Keeps
    <3>2. Awaits("abandon") \/ rt.asyncQ
      BY <2>1, <3>1 DEF UseInv, Closing
    <3>3. Awaits("abandon") /\ ~At("abandon") => Awaits("abandon")'
      BY <1>4 DEF Steers, Keeps
    <3> QED BY <3>2, <3>3 DEF At, MayPoison
  <2> QED BY <1>1, <2>1 DEF Closing, MayPoison
<1> QED BY <1>8, <1>9, <1>10, <1>11, <1>12 DEF UseInv

LEMMA RetireUnknownOK ==
  ASSUME TypeInv, CallInv, CallInv', CacheInv, UseInv, RetireUnknown
  PROVE  CacheInv' /\ UseInv'
<1>1. /\ call.todo # << >> /\ Head(call.todo).do \in {"poll", "wait"} /\ lease.state # "none"
      /\ lease' = [lease EXCEPT !.state = "quarantined"]
      /\ UNCHANGED <<chunk, frame, spill, owner, gpu, dma>>
      /\ rt' = rt \/ rt' = AsyncUnknown
      /\ Fail("other")
  BY DEF RetireUnknown, AtRetire, At
<1>2. Head(call.todo).do \in RetireDo /\ Head(call.todo).do # "abandon"
  BY <1>1 DEF RetireDo
<1>3. MayPoison
  BY <1>1, PoisonKeeps
<1>4. Fails
  BY <1>1, FailOK DEF TypeInv, CallOK
<1> QED BY <1>1, <1>2, <1>3, <1>4, QuarantinedOK

(* The kernel is over and its chunks are no longer pinned. *)
LEMMA RetireOK ==
  ASSUME TypeInv, CallInv, CallInv', CacheInv, UseInv, Retire
  PROVE  CacheInv' /\ UseInv'
<1>1. /\ call.todo # << >> /\ Head(call.todo).do \in {"poll", "wait"} /\ lease.state = "submitted"
      /\ gpu.phase # "running" /\ chunk' = Unpinned
      /\ UNCHANGED <<frame, spill, owner, gpu, dma>>
  BY DEF Retire, AtRetire, At
<1>2. ~rt.closed /\ rt.pools
  BY <1>1, InCall
<1>3. Head(call.todo).do \in RetireDo /\ Head(call.todo).do # "abandon"
  BY <1>1 DEF RetireDo
<1>4. CASE ~AllRetire
  <2>1. Fails /\ lease' = [lease EXCEPT !.state = "quarantined"] /\ rt' = Poisoned
    BY <1>4, RetireCall DEF Retire
  <2>2. MayPoison
    BY <1>1, <2>1, PoisonKeeps
  <2> QED BY <1>1, <1>3, <2>1, <2>2, QuarantinedOK
<1>5. CASE AllRetire
  <2>1. lease' = lease /\ rt' = rt
    BY <1>5 DEF Retire
  <2>2. /\ call.op \in {"poll", "wait", "drain", "close"}
        /\ call'.op = call.op /\ call'.plan = call.plan /\ call'.todo # << >>
        /\ KeyTask("finishLease", None) \in Work(call'.todo)
        /\ \A w \in Work(call'.todo) :
             w \in Work(Tail(call.todo)) \/ w.do \in {"unmapIfClean", "finishLease"}
        /\ Head(call'.todo).do \notin HeadDo \union {"pin"}
        /\ lease.seal # "cancelled" => Head(call'.todo).do = "finishLease"
    BY <1>5, RetireCall
  <2>3. Still
    <3>1. \A k \in Key : /\ chunk'[k].frame = chunk[k].frame /\ chunk'[k].state = chunk[k].state
                         /\ RecordOK(chunk[k]) => RecordOK(chunk'[k])
      BY <1>1, UnpinnedRecords
    <3> QED BY <1>1, <1>2, <2>1, <2>2, <3>1 DEF Still, SameKeys, MayPoison, HeadDo
  <2>4. CacheInv'
    <3>1. SpillsUsed'
      BY <1>1, <2>1, <2>3, SpillsStill DEF CacheInv
    <3>2. PinsResident
      BY <2>2 DEF PinsResident, AtKey, At
    <3> QED BY <2>3, <3>1, <3>2, CacheStill
  <2>5. Awaits("finishLease")' /\ ~Awaits("arm")' /\ \A k \in Key : ~Pending("prepare", k)'
    <3>1. Work(Tail(call.todo)) \subseteq Work(call.todo)
      BY <1>1, AtOrBehind DEF TypeInv, CallOK
    <3>2. ~Awaits("arm") /\ \A k \in Key : ~Pending("prepare", k)
      BY <2>2, OfAcquire DEF AcquireDo
    <3> QED BY <2>2, <3>1, <3>2, WorkFields DEF Awaits, Pending
  <2>6. KernelHolds' /\ LeasePins' /\ LeaseCalls'
    BY <1>1, <2>1, <2>2, <2>5 DEF KernelHolds, LeasePins, Holding, LeaseCalls
  <2>7. LeaseSpills'
    BY <2>1, <2>5 DEF LeaseSpills, UseInv
  <2>8. LeaseDirties'
    BY <1>1, <2>1, <2>2, <2>3 DEF LeaseDirties, UseInv, At, Still
  <2>9. Closing'
    BY <1>1, <1>2, <2>1, <2>2 DEF Closing
  <2> QED BY <2>4, <2>6, <2>7, <2>8, <2>9 DEF UseInv
<1> QED BY <1>4, <1>5

LEMMA FinishLeaseOK ==
  ASSUME TypeInv, CallInv, CallInv', CacheInv, UseInv, FinishLease
  PROVE  CacheInv' /\ UseInv'
<1>1. /\ call.todo # << >> /\ Head(call.todo).do = "finishLease"
      /\ UNCHANGED <<chunk, frame, owner, dma>> /\ At("finishLease")
  BY DEF FinishLease, At
<1>2. ~rt.closed /\ rt.pools /\ call \in CallRecord
  BY <1>1, InCall DEF TypeInv, CallOK
<1>3. Head(call.todo).do \in RetireDo /\ Head(call.todo).do \notin {"abandon", "forEach"}
  BY <1>1 DEF RetireDo
<1>4. Awaits("finishLease") /\ lease.state = "submitted"
  BY <1>1, <1>3, LastOfLease DEF UseInv, LeaseCalls
<1>5. ASSUME NEW status, Fail(status) PROVE Fails
  BY <1>1, <1>2, <1>5, FailOK
<1>6. CASE /\ lease' = [lease EXCEPT !.state = "quarantined"] /\ Fail("other")
           /\ UNCHANGED <<spill, gpu, rt>>
  <2>1. MayPoison
    BY <1>1, <1>6, PoisonKeeps
  <2> QED BY <1>1, <1>3, <1>4, <1>5, <1>6, <2>1, QuarantinedOK
<1>7. CASE /\ lease' = NoLease /\ gpu' = NoKernel
           /\ spill' = IF lease.seal = "cancelled" THEN WithoutSpillsOfLease ELSE spill
           /\ \/ /\ Continue
                 /\ rt' = IF lease.seal = "failed" THEN Poisoned ELSE rt
              \/ /\ rt' = [rt EXCEPT !.blocked = TRUE]
                 /\ Fail("other")
  <2>1. MayPoison
    <3>1. CASE rt' = [rt EXCEPT !.blocked = TRUE]
      BY <3>1, RtTypes DEF MayPoison, RtType, TypeInv
    <3> QED BY <1>1, <1>7, <3>1, PoisonKeeps
  <2>2. Steers /\ (\A k \in Key : ~AtKey("pin", k)') /\ (Fails \/ Leads(Tail(call.todo)))
    <3>1. CASE Continue
      <4>1. \A k \in Key : ~MakesResident(Head(call.todo), k)
        BY <1>1 DEF MakesResident
      <4> QED BY <1>1, <1>3, <3>1, <4>1, Continues
    <3>2. CASE Fail("other")
      BY <1>1, <1>3, <1>5, <3>2, Stops DEF PinsNothing, AtKey, At
    <3> QED BY <1>7, <3>1, <3>2
  <2>3. ~Awaits("finishLease")' /\ call.op \in {"poll", "wait", "drain", "close"}
    BY <1>1, <1>3, <2>2, NotFinishing, LastOfLease
  <2>4. Still
    BY <1>1, <1>2, <2>1, <2>2, <2>3 DEF Still, SameKeys, HeadDo, Steers, Keeps
  <2>5. SpillsUsed'
    <3> SUFFICES ASSUME ~rt'.poisoned, NEW k \in Key
                 PROVE  /\ spill'[k] # "stale"
                        /\ spill'[k] # "none" => Dirty(k)'
      BY DEF SpillsUsed
    <3>1. ~rt.poisoned
      BY <2>1 DEF MayPoison
    <3>2. /\ spill[k] # "stale"
          /\ spill[k] # "none" => Dirty(k) \/ lease.use[k].spillHere
      BY <1>1, <3>1 DEF CacheInv, SpillsUsed, AtKey, At
    <3>3. lease.seal # "cancelled" /\ lease.use[k].spillHere => chunk[k].state = "resident_dirty"
      BY <1>2, <1>4, <3>1 DEF UseInv, LeaseDirties
    <3>4. lease.seal = "cancelled" =>
            spill'[k] = IF lease.use[k].spillHere THEN "none" ELSE spill[k]
      BY <1>7 DEF WithoutSpillsOfLease
    <3> QED BY <1>1, <1>7, <3>2, <3>3, <3>4 DEF Dirty
  <2>6. CacheInv'
    BY <2>2, <2>4, <2>5, CacheStill DEF PinsResident
  <2>7. ~rt'.closed /\ rt'.pools
    BY <1>2, <2>1 DEF MayPoison
  <2>8. lease'.state = "none" /\ gpu'.phase # "running" /\ NoUses'
    BY <1>7 DEF NoLease, NoUse, NoUses, NoKernel
  <2>9. UseInv'
    BY <2>3, <2>7, <2>8, WithoutLease
  <2> QED BY <2>6, <2>9
<1> QED BY <1>6, <1>7 DEF FinishLease

(* close gives up a lease that is still active. *)
LEMMA AbandonOK ==
  ASSUME TypeInv, CallInv, CallInv', CacheInv, UseInv, Abandon
  PROVE  CacheInv' /\ UseInv'
<1>1. /\ call.todo # << >> /\ Head(call.todo).do = "abandon" /\ At("abandon")
      /\ UNCHANGED <<chunk, frame, spill, owner, gpu, dma>> /\ Continue
  BY DEF Abandon, At
<1>2. ~rt.closed /\ rt.pools /\ call \in CallRecord
  BY <1>1, InCall DEF TypeInv, CallOK
<1>3. Head(call.todo).do \in RetireDo /\ Head(call.todo).do # "forEach"
  BY <1>1 DEF RetireDo
<1>4. Leads(Tail(call.todo)) /\ Steers /\ \A k \in Key : ~AtKey("pin", k)'
  BY <1>1, <1>3, Continues DEF MakesResident
<1>5. CASE ActiveLease
  <2>1. /\ lease' = [lease EXCEPT !.state = "quarantined"]
        /\ rt' = [AsyncUnknown EXCEPT !.closeOk = FALSE]
    BY <1>5 DEF Abandon
  <2>2. MayPoison /\ rt'.asyncQ
    BY <2>1, RtTypes DEF MayPoison, AsyncUnknown, RtType, TypeInv
  <2> QED BY <1>1, <1>3, <1>4, <1>5, <2>1, <2>2, QuarantinedOK DEF ActiveLease
<1>6. CASE ~ActiveLease
  <2>1. lease' = lease /\ rt' = [rt EXCEPT !.closeOk = @ /\ call.failure = "none"]
    BY <1>6 DEF Abandon
  <2>2. MayPoison
    BY <2>1, RtTypes DEF MayPoison, RtType, TypeInv
  <2>3. lease.state = "none" /\ gpu.phase # "running" /\ NoUses
    <3>1. ~Awaits("rollback") /\ ~Awaits("dropSpills")
      BY <1>1, <1>3, LastOfLease, OfAcquire DEF AcquireDo
    <3> QED BY <1>6, <3>1 DEF ActiveLease, UseInv, LeaseCalls, KernelHolds
  <2>4. ~Awaits("finishLease")' /\ call.op \in {"poll", "wait", "drain", "close"}
    BY <1>1, <1>3, <1>4, NotFinishing, LastOfLease
  <2>5. Still
    BY <1>1, <1>2, <1>4, <2>2, <2>4 DEF Still, SameKeys, HeadDo, Steers, Keeps
  <2>6. SpillsUsed'
    BY <1>1, <2>1, <2>5, SpillsStill DEF CacheInv
  <2>7. CacheInv'
    BY <1>4, <2>5, <2>6, CacheStill DEF PinsResident
  <2>8. ~rt'.closed /\ rt'.pools /\ lease'.state = "none" /\ gpu'.phase # "running" /\ NoUses'
    BY <1>1, <1>2, <2>1, <2>2, <2>3 DEF MayPoison, NoUses
  <2>9. UseInv'
    BY <2>4, <2>8, WithoutLease
  <2> QED BY <2>7, <2>9
<1> QED BY <1>5, <1>6

(* Host content is replaced only after the device copy is gone. *)
LEMMA PutHostOK ==
  ASSUME TypeInv, CallInv, CallInv', CacheInv, UseInv, NEW k \in Key, PutHost(k)
  PROVE  CacheInv' /\ UseInv'
<1>1. /\ call.todo # << >> /\ At("put") /\ Head(call.todo).do = "put" /\ Head(call.todo).key = k
      /\ UNCHANGED <<chunk, frame, owner, lease, gpu, dma>>
  BY DEF PutHost, AtKey, At
<1>2. ~rt.closed /\ rt.pools /\ call \in CallRecord
  BY <1>1, InCall DEF TypeInv, CallOK
<1>3. CASE Fail("other") /\ UNCHANGED <<spill, rt>>
  <2>1. Proceeds /\ Untouched
    BY <1>1, <1>3 DEF Proceeds, Untouched, SameKeys
  <2> QED BY <1>1, <2>1, UntouchedTask DEF LeaseDo2, HeadDo
<1>4. CASE /\ spill' = Stale(k)
           /\ \/ Continue /\ UNCHANGED rt
              \/ rt' = [rt EXCEPT !.blocked = TRUE] /\ Fail("other")
  <2>1. call.op = "write" /\ k \in Touched
    <3>1. "put" \in KeyDo /\ "put" # "forEach"
      BY DEF KeyDo, LoopDo
    <3>2. Permitted(call.op, Touched, KeyTask("put", k))
      BY <1>1, <1>2, <3>1, AtTask
    <3> QED BY <3>2, WorkFields DEF Permitted, OfPlan
  <2>2. rt'.poisoned = rt.poisoned /\ MayPoison
    BY <1>4, RtTypes DEF MayPoison, RtType, TypeInv
  <2>3. Steers /\ PinsResident
    <3>1. Proceeds
      BY <1>1, <1>4 DEF Proceeds, MakesResident
    <3> QED BY <1>1, <3>1, Progress
  <2>4. ~Pending("unmapIfClean", k)
    <3>1. ListOK(call.op, Touched, call.todo)
      BY DEF CallInv, Proper
    <3>2. /\ Head(call.todo) \in Tasks
          /\ Work(call.todo) = WorkOf(Head(call.todo)) \union Work(Tail(call.todo))
          /\ \A v \in WorkOf(Head(call.todo)), w \in Work(Tail(call.todo)) : InOrder(call.op, v, w)
      BY <1>1, <3>1, TailOK
    <3>3. "put" \in KeyDo \union {"d2h", "map"}
      BY DEF KeyDo, LoopDo
    <3>4. WorkOf(Head(call.todo)) = {KeyTask("put", k)}
      BY <1>1, <3>2, <3>3, WorkOfTask
    <3>5. \A w \in Work(Tail(call.todo)) : w.do # "unmapIfClean"
      BY <3>2, <3>4, WorkFields DEF InOrder
    <3> QED BY <3>2, <3>4, <3>5, WorkFields DEF Pending
  <2>5. ~rt.poisoned => ~Dirty(k) /\ spill[k] = "none"
    <3> SUFFICES ASSUME ~rt.poisoned PROVE ~Dirty(k) /\ spill[k] = "none"
      OBVIOUS
    <3>1. chunk[k].state = "host_clean"
      BY <2>1, <2>4 DEF CacheInv, FlushPending
    <3>2. ~Awaits("rollback") /\ ~Awaits("dropSpills")
      BY <2>1, OfAcquire DEF AcquireDo
    <3>3. ~lease.use[k].spillHere
      BY <2>1, <3>2 DEF UseInv, LeaseCalls, LeaseSpills, NoUses
    <3> QED BY <1>1, <3>1, <3>3 DEF CacheInv, SpillsUsed, Dirty, AtKey, At
  <2>6. \A j \in Key : spill'[j] = IF j = k /\ spill[j] # "none" THEN "stale" ELSE spill[j]
    BY <1>4 DEF Stale, TypeInv, DataInv, TypeOK
  <2>7. SpillsUsed'
    BY <1>1, <2>2, <2>5, <2>6 DEF SpillsUsed, CacheInv, Dirty, AtKey, At
  <2>8. Aside
    BY <1>1, <2>2 DEF Aside, SameKeys, MayQuarantine
  <2>9. /\ Head(call.todo).do \notin LeaseDo2 \union HeadDo
        /\ \A j : ~AtKey("unmapIfClean", j) /\ ~AtKey("writebackIfDirty", j)
    BY <1>1 DEF LeaseDo2, HeadDo, AtKey, At
  <2> QED BY <1>1, <2>2, <2>3, <2>7, <2>8, <2>9, AsideOK
<1> QED BY <1>3, <1>4 DEF PutHost

LEMMA InvalidateOK ==
  ASSUME TypeInv, CallInv, CallInv', CacheInv, UseInv, NEW k \in Key, Invalidate(k)
  PROVE  CacheInv' /\ UseInv'
<1>1. /\ call.todo # << >> /\ Head(call.todo).do = "invalidate" /\ Head(call.todo).key = k
      /\ UNCHANGED <<chunk, frame, owner, lease, gpu, dma, rt>>
      /\ spill' = [spill EXCEPT ![k] = "none"]
  BY DEF Invalidate, AtKey, At
<1>2. Steers /\ PinsResident
  <2>1. Proceeds
    BY <1>1 DEF Invalidate, Proceeds, MakesResident
  <2> QED BY <1>1, <2>1, Progress
<1>3. SpillsUsed'
  <2>1. \A j \in Key : spill'[j] = IF j = k THEN "none" ELSE spill[j]
    BY <1>1 DEF TypeInv, DataInv, TypeOK
  <2> QED BY <1>1, <2>1 DEF SpillsUsed, CacheInv, Dirty, AtKey, At
<1>4. Aside
  BY <1>1 DEF Aside, SameKeys, MayPoison, MayQuarantine
<1>5. /\ Head(call.todo).do \notin LeaseDo2 \union HeadDo
      /\ \A j : ~AtKey("unmapIfClean", j) /\ ~AtKey("writebackIfDirty", j)
  BY <1>1 DEF LeaseDo2, HeadDo, AtKey, At
<1> QED BY <1>1, <1>2, <1>3, <1>4, <1>5, AsideOK

LEMMA NewRecord == RecordOK(NewChunk) /\ NewChunk.state = "host_clean" /\ NewChunk.frame = None
                   /\ NewChunk.pin = 0
BY DEF NewChunk, RecordOK, ValidRecord, IsResident, AtRest, HasFrame, RequiresStaging, ForbidsStaging

(* The last task of a call is its only one. *)
LEMMA OnlyWork ==
  ASSUME TypeInv, CallInv, NEW do \in LastDo, At(do)
  PROVE  /\ call.todo # << >> /\ Head(call.todo).do = do /\ Tail(call.todo) = << >>
         /\ Work(call.todo) = {KeyTask(do, None)} /\ Permitted(call.op, Touched, KeyTask(do, None))
         /\ \A e : Awaits(e) => e = do
         /\ \A e \in KeyDo : \A k : ~Pending(e, k)
<1>1. call \in CallRecord /\ ListOK(call.op, Touched, call.todo)
  BY DEF TypeInv, CallOK, CallInv, Proper
<1>2. call.todo # << >> /\ Head(call.todo).do = do /\ Tail(call.todo) = << >>
  BY <1>1, LastTask DEF At
<1>3. /\ Head(call.todo) \in Tasks
      /\ Work(call.todo) = WorkOf(Head(call.todo)) \union Work(Tail(call.todo))
  BY <1>1, <1>2, TailOK
<1>4. do \notin KeyDo \union {"d2h", "map", "forEach"}
  BY DEF KeyDo, LoopDo, LastDo
<1>5. Work(call.todo) = {KeyTask(do, None)}
  <2>1. WorkOf(Head(call.todo)) = {KeyTask(do, None)}
    BY <1>2, <1>3, <1>4, WorkOfTask
  <2>2. Work(Tail(call.todo)) = {}
    BY <1>2, WorkEmpty
  <2> QED BY <1>3, <2>1, <2>2
<1>6. Permitted(call.op, Touched, KeyTask(do, None))
  BY <1>1, <1>5 DEF ListOK
<1>7. \A e : Awaits(e) => e = do
  BY <1>5, WorkFields DEF Awaits
<1>8. \A e \in KeyDo : \A k : ~Pending(e, k)
  BY <1>4, <1>5, WorkFields DEF Pending
<1> QED BY <1>2, <1>5, <1>6, <1>7, <1>8

(* An allocation goes after its last chunk left the device. *)
LEMMA EraseOK ==
  ASSUME TypeInv, CallInv, CallInv', CacheInv, UseInv, NEW a \in Alloc, EraseAllocation(a)
  PROVE  CacheInv' /\ UseInv'
<1>1. /\ call.todo # << >> /\ At("erase") /\ Head(call.todo).do = "erase"
      /\ a = AllocOf[Least(Touched)] /\ UNCHANGED <<frame, lease, gpu, dma, rt>>
  BY DEF EraseAllocation, At
<1>2. ~rt.closed /\ rt.pools
  BY <1>1, InCall
<1>3. CASE Fail("other") /\ UNCHANGED <<owner, chunk, spill>>
  <2>1. Proceeds /\ Untouched
    BY <1>1, <1>3 DEF Proceeds, Untouched, SameKeys
  <2> QED BY <1>1, <2>1, UntouchedTask DEF LeaseDo2, HeadDo
<1>4. CASE /\ owner' = [owner EXCEPT ![a] =
                         [live |-> FALSE,
                          va |-> IF @.va = "quarantined" THEN @.va
                                 ELSE IF RetainReleasedVa THEN "retired" ELSE "freed"]]
           /\ Forgotten(KeysOf(a)) /\ Continue
  <2> DEFINE K == KeysOf(a)
  <2>1. /\ call.op = "release" /\ Tail(call.todo) = << >> /\ K \subseteq Key
        /\ \A k : ~Pending("unmapIfClean", k)
    BY <1>1, OnlyWork, WorkFields DEF LastDo, Permitted, KeyDo, LoopDo, KeysOf
  <2>2. \A k \in K : chunk[k].state = "host_clean"
    BY <1>1, <2>1 DEF CacheInv, FlushPending, Owned
  <2>3. \A k \in Key : RecordOK(chunk[k])
    BY <1>2 DEF CacheInv, Mappings
  <2>4. \A k \in K : chunk[k].frame = None /\ chunk[k].pin = 0
    <3>1. \A k \in Key : chunk[k].pin \in Nat
      BY Records
    <3> QED BY <2>1, <2>2, <2>3, <3>1 DEF RecordOK, ValidRecord, IsResident, HasFrame
  <2>5. \A k \in Key : /\ chunk'[k] = IF k \in K THEN NewChunk ELSE chunk[k]
                       /\ spill'[k] = IF k \in K THEN "none" ELSE spill[k]
    BY <1>4 DEF Forgotten
  <2> HIDE DEF K
  <2>6. \A k \in Key : /\ chunk'[k].frame = chunk[k].frame /\ RecordOK(chunk'[k])
                       /\ chunk'[k].state = chunk[k].state
                       /\ (chunk[k].pin > 0 => chunk'[k].pin > 0)
    <3>1. ~(0 > 0)
      OBVIOUS
    <3> QED BY <2>2, <2>3, <2>4, <2>5, <3>1, NewRecord
  <2>7. call' = NoCall /\ call'.todo = << >> /\ call'.op = "none" /\ Work(call'.todo) = {}
    BY <1>4, <2>1, IdleProper DEF Continue, Goto
  <2>8. SameKeys /\ MayPoison
    BY <1>1 DEF SameKeys, MayPoison
  <2>9. Steers
    <3>1. Head(call.todo).do # "forEach"
      BY <1>1
    <3> QED BY <1>1, <1>4, <3>1, Continues
  <2>10. UseInv'
    <3>1. \A k \in Key : OnDevice(k) => OnDevice(k)'
      BY <1>1 DEF OnDevice
    <3>2. Beside
      BY <1>1, <2>6, <3>1 DEF Beside
    <3>3. Head(call.todo).do \notin LeaseDo2
      BY <1>1 DEF LeaseDo2
    <3> QED BY <1>1, <2>9, <3>2, <3>3, BesideOK DEF Steers
  <2>11. Mappings'
    BY <2>6, <2>8, MappingsKept DEF CacheInv, MayPoison
  <2>12. HeadsReady'
    BY <2>7 DEF HeadsReady, AtKey, At
  <2>13. Copies'
    <3>1. \A d \in dma' : d \in dma /\ chunk'[d.key].state \in InFlight
      BY <1>1, <1>2, <2>6 DEF CacheInv, Copies, TypeInv, DataInv, TypeOK
    <3>2. \A k : ~AtKey("h2d", k) /\ ~AtKey("d2h", k)
      BY <1>1 DEF AtKey, At
    <3> QED BY <1>2, <2>8, <3>1, <3>2, CopiesKept DEF CacheInv
  <2>14. NoneStuck'
    <3>1. \A k \in Key : chunk'[k].state = chunk[k].state /\ ~Moving(k)
      BY <1>1, <2>6 DEF Moving, AtKey, At
    <3> QED BY <2>8, <3>1, StuckKept DEF CacheInv
  <2>15. SpillsUsed'
    BY <1>1, <2>5, <2>6 DEF CacheInv, SpillsUsed, Dirty, AtKey, At
  <2>16. FlushPending'
    BY <2>7 DEF FlushPending
  <2>17. Owned'
    <3>1. owner'[a].live = FALSE /\ \A b \in Alloc \ {a} : owner'[b] = owner[b]
      BY <1>4 DEF TypeInv, DataInv, TypeOK
    <3>2. ~rt'.closed => \A b \in Alloc : owner'[b].live => owner'[b].va \in {"held", "quarantined"}
      BY <1>1, <1>2, <3>1 DEF CacheInv, Owned
    <3>3. ASSUME NEW f \in Frame, Mapped(f)'
          PROVE  /\ owner'[AllocOf[frame'[f].key]].live
                 /\ owner'[AllocOf[frame'[f].key]].va \in {"held", "quarantined"}
      <4>1. Mapped(f) /\ frame'[f].key = frame[f].key /\ frame[f].key \in Key
        BY <1>1, <3>3, FrameKeys DEF Mapped
      <4>2. frame[f].key \notin K
        <5>1. chunk[frame[f].key].frame = f /\ f # None
          BY <1>2, <4>1, FrameKeys DEF CacheInv, Mappings, Links
        <5> QED BY <2>4, <5>1
      <4>3. AllocOf[frame[f].key] \in Alloc \ {a}
        BY <4>1, <4>2, RuntimeAssumption DEF K, KeysOf
      <4> QED BY <1>2, <3>1, <4>1, <4>3 DEF CacheInv, Owned
    <3> QED BY <2>7, <3>2, <3>3 DEF Owned
  <2> QED BY <2>10, <2>11, <2>12, <2>13, <2>14, <2>15, <2>16, <2>17 DEF CacheInv
<1> QED BY <1>3, <1>4 DEF EraseAllocation

(* close releases what nobody can still be using. *)
LEMMA CloseEndOK ==
  ASSUME TypeInv, CallInv, CallInv', CacheInv, UseInv, NEW FA, NEW FF, CloseEnd(FA, FF)
  PROVE  CacheInv' /\ UseInv' /\ SuccessfulCloseLeaksNothing'
<1> DEFINE busy == {a \in Alloc : owner[a].live /\ (LiveMapping(a) \/ owner[a].va = "quarantined")}
           mapped == {f \in Frame : Mapped(f) /\ frame[f].handle}
<1>1. /\ call.todo # << >> /\ At("closeEnd") /\ Head(call.todo).do = "closeEnd"
      /\ UNCHANGED <<lease, gpu, dma>> /\ Goto(<< >>)
  BY DEF CloseEnd, At
<1>2. ~rt.closed /\ rt.pools
  BY <1>1, InCall
<1>3. /\ call.op = "close" /\ (\A e : Awaits(e) => e = "closeEnd")
  BY <1>1, OnlyWork, WorkFields DEF LastDo, Permitted, CloseDo
<1>4. call'.todo = << >> /\ call'.op = "none" /\ Work(call'.todo) = {}
  BY <1>1, IdleProper DEF Goto
<1>5. (\A e : ~Awaits(e)') /\ \A e, k : ~Pending(e, k)'
  BY <1>4 DEF Awaits, Pending
<1>6. /\ rt'.closed /\ rt'.pools = rt.asyncQ /\ rt'.asyncQ = rt.asyncQ
      /\ rt.poisoned => rt'.poisoned
      /\ rt'.closeOk => /\ CloseSucceeded(FA, FF) /\ busy = {} /\ ~rt.asyncQ
  <2> DEFINE r == rt.asyncQ
             p == rt.poisoned \/ busy # {} \/ mapped # {}
             o == /\ CloseSucceeded(FA, FF) /\ busy = {} /\ mapped = {} /\ ~rt.asyncQ
  <2>1. rt' = [rt EXCEPT !.closed = TRUE, !.pools = r, !.poisoned = p, !.closeOk = o]
    BY DEF CloseEnd
  <2>2. rt.poisoned => p
    OBVIOUS
  <2>3. o => CloseSucceeded(FA, FF) /\ busy = {} /\ ~rt.asyncQ
    OBVIOUS
  <2> HIDE DEF p, o, busy, mapped
  <2> QED BY <2>1, <2>2, <2>3, RtTypes DEF TypeInv, RtType
<1>7. \A f \in Frame : /\ frame'[f].key = frame[f].key
                       /\ frame'[f].handle = (frame[f].handle /\ (Kept(f) \/ f \in FF))
  <2> TAKE f \in Frame
  <2>1. frame'[f] = [frame[f] EXCEPT !.handle = @ /\ (Kept(f) \/ f \in FF)]
    BY DEF CloseEnd
  <2>2. frame[f] \in [handle: BOOLEAN, key: Key \union {None}, quarantined: BOOLEAN]
    BY FrameKeys
  <2> QED BY <2>1, <2>2
<1>8. \A k \in Key : chunk'[k] = NewChunk /\ spill'[k] = "none"
  BY DEF CloseEnd, Forgotten
<1>9. \A a \in Alloc : owner'[a].va = IF a \in busy THEN "quarantined"
               ELSE IF HoldsVa(a) /\ a \notin FA THEN "freed" ELSE owner[a].va
  BY DEF CloseEnd
<1>10. \A f \in Frame : Mapped(f) => frame[f].key \in Key /\ AllocOf[frame[f].key] \in busy
  <2> TAKE f \in Frame
  <2> HAVE Mapped(f)
  <2>1. frame[f].key \in Key /\ AllocOf[frame[f].key] \in Alloc
    BY FrameKeys, RuntimeAssumption
  <2>2. owner[AllocOf[frame[f].key]].live /\ LiveMapping(AllocOf[frame[f].key])
    BY <1>2 DEF CacheInv, Owned, LiveMapping
  <2> QED BY <2>1, <2>2
<1> HIDE DEF busy, mapped
<1>11. \A k \in Key : OnDevice(k)' <=> OnDevice(k)
  BY <1>7 DEF OnDevice
<1>12. dma # {} => rt.asyncQ
  BY <1>1 DEF CacheInv, Copies, AtKey, At
<1>13. gpu.phase = "running" => rt.asyncQ
  BY <1>3 DEF UseInv, Closing
<1>14. Mappings' /\ HeadsReady'
  BY <1>4, <1>6 DEF Mappings, HeadsReady, AtKey, At
<1>15. Copies'
  <2> SUFFICES ASSUME NEW d \in dma PROVE OnDevice(d.key)' /\ rt'.asyncQ
    BY <1>1, <1>6 DEF Copies
  <2>1. d.key \in Key /\ chunk[d.key].state \in InFlight
    BY <1>2 DEF CacheInv, Copies, TypeInv, DataInv, TypeOK
  <2>2. chunk[d.key].frame # None /\ chunk[d.key].frame \in Frame \union {None}
    BY <1>2, <2>1, Records DEF CacheInv, Mappings, RecordOK, ValidRecord, HasFrame, InFlight
  <2>3. OnDevice(d.key)
    BY <1>2, <2>1, <2>2 DEF CacheInv, Mappings, Links, OnDevice
  <2> QED BY <1>6, <1>11, <1>12, <2>1, <2>3
<1>16. NoneStuck'
  BY <1>6, <1>8, NewRecord DEF NoneStuck, CacheInv, AtRest
<1>17. SpillsUsed' /\ FlushPending'
  BY <1>4, <1>8 DEF SpillsUsed, FlushPending
<1>18. Owned'
  BY <1>4, <1>6, <1>7, <1>9, <1>10 DEF Owned, Mapped, busy
<1>19. KernelHolds' /\ LeasePins' /\ LeaseDirties'
  <2>1. \A k \in gpu.keys : k \in Key
    BY DEF TypeInv, DataInv, TypeOK
  <2> QED BY <1>1, <1>6, <1>11, <2>1 DEF KernelHolds, LeasePins, LeaseDirties, UseInv
<1>20. LeaseCalls'
  <2>1. lease.state = "none" => NoUses
    BY <1>3 DEF UseInv, LeaseCalls
  <2> QED BY <1>1, <1>4, <1>5, <2>1 DEF LeaseCalls, NoUses
<1>21. LeaseSpills'
  BY <1>1, <1>5 DEF LeaseSpills, UseInv
<1>22. Closing'
  BY <1>1, <1>4, <1>6, <1>12, <1>13 DEF Closing
<1>23. SuccessfulCloseLeaksNothing'
  <2> SUFFICES ASSUME rt'.closeOk
               PROVE  /\ \A f \in Frame : ~Mapped(f)' /\ ~frame'[f].handle
                      /\ \A a \in Alloc : owner'[a].va \in {"none", "freed"}
                      /\ gpu'.phase # "running" /\ dma' = {} /\ ~rt'.pools
    BY DEF SuccessfulCloseLeaksNothing
  <2>1. FA = {} /\ FF = {} /\ busy = {} /\ ~rt.asyncQ
    BY <1>6 DEF CloseSucceeded
  <2>2. \A f \in Frame : ~Mapped(f)' /\ ~frame'[f].handle
    BY <1>7, <1>10, <2>1 DEF Kept, Mapped
  <2>3. \A a \in Alloc : owner'[a].va \in {"none", "freed"}
    BY <1>9, <2>1 DEF HoldsVa, TypeInv, DataInv, TypeOK
  <2> QED BY <1>1, <1>6, <1>12, <1>13, <2>1, <2>2, <2>3
<1> QED BY <1>14, <1>15, <1>16, <1>17, <1>18, <1>19, <1>20, <1>21, <1>22, <1>23 DEF CacheInv, UseInv

LEMMA Idle ==
  ASSUME CallInv, call.todo = << >>
  PROVE  /\ call.op = "none" /\ Work(call.todo) = {}
         /\ \A do : ~Awaits(do) /\ ~At(do)
         /\ \A do, k : ~Pending(do, k) /\ ~AtKey(do, k)
BY WorkEmpty DEF CallInv, Awaits, Pending, At, AtKey

(* Between two calls. *)
LEMMA IdleFacts ==
  ASSUME CallInv, CacheInv, UseInv, call.todo = << >>
  PROVE  /\ dma # {} => rt.asyncQ
         /\ ~rt.poisoned => ~rt.asyncQ /\ \A k \in Key : chunk[k].state \in AtRest
         /\ ~rt.poisoned => \A k \in Key :
              /\ spill[k] # "stale"
              /\ spill[k] # "none" => Dirty(k) \/ lease.use[k].spillHere
         /\ lease.state = "none" => NoUses
         /\ lease.state \in {"armed", "submitted"} /\ ~rt.closed => \A k \in Members : chunk[k].pin > 0
<1>1. /\ \A do : ~Awaits(do) /\ ~At(do)
      /\ \A do, k : ~Pending(do, k) /\ ~AtKey(do, k)
  BY Idle
<1>2. dma # {} => rt.asyncQ
  BY <1>1 DEF CacheInv, Copies
<1>3. ~rt.poisoned => ~rt.asyncQ /\ \A k \in Key : chunk[k].state \in AtRest
  BY <1>1 DEF CacheInv, NoneStuck, Moving
<1>4. ~rt.poisoned => \A k \in Key :
        /\ spill[k] # "stale"
        /\ spill[k] # "none" => Dirty(k) \/ lease.use[k].spillHere
  BY <1>1 DEF CacheInv, SpillsUsed
<1>5. lease.state = "none" => NoUses
  BY <1>1 DEF UseInv, LeaseCalls
<1>6. lease.state \in {"armed", "submitted"} /\ ~rt.closed => \A k \in Members : chunk[k].pin > 0
  BY <1>1 DEF UseInv, LeasePins, Holding
<1> QED BY <1>2, <1>3, <1>4, <1>5, <1>6

(* A call begins. *)
LEMMA OpensOK ==
  ASSUME TypeInv, CallInv, CallInv', CacheInv, UseInv, call.todo = << >>, ~rt.closed,
         UNCHANGED <<chunk, frame, spill, owner, lease, gpu, dma, rt>>,
         NEW op, NEW plan, Opens(op, plan),
         op \in {"release", "write"} => \A k \in DOMAIN plan :
           /\ KeyTask("unmapIfClean", k) \in Work(call'.todo)
           /\ KeyTask("writebackIfDirty", k) \in Work(call'.todo),
         op = "release" => ~rt.poisoned /\ DOMAIN plan = KeysOf(AllocOf[Least(DOMAIN plan)]),
         op \in {"prefetch", "acquire"} => DOMAIN plan \subseteq LiveKeys,
         op = "acquire" => lease.state = "none",
         op = "write" => lease.state = "none" \/ \A k \in DOMAIN plan : lease.use[k].gen = 0,
         op = "close" => KeyTask("abandon", None) \in Work(call'.todo)
  PROVE  CacheInv' /\ UseInv'
<1>1. /\ call'.op = op /\ Touched' = DOMAIN plan
      /\ \A do \in LateDo : ~Awaits(do)' /\ \A k : ~Pending(do, k)'
      /\ \A do \in HeadDo \union {"pin"}, k \in Key : ~AtKey(do, k)'
  BY WorkFields DEF Opens, Touched, Plan, Awaits, Pending, AtKey, At
<1>2. {"rollback", "dropSpills", "arm", "finishLease", "prepare"} \subseteq LateDo
  BY DEF LateDo
<1>3. /\ \A do : ~Awaits(do)
      /\ dma # {} => rt.asyncQ
      /\ ~rt.poisoned => ~rt.asyncQ /\ \A k \in Key : chunk[k].state \in AtRest
      /\ ~rt.poisoned => \A k \in Key :
              /\ spill[k] # "stale"
              /\ spill[k] # "none" => Dirty(k) \/ lease.use[k].spillHere
      /\ lease.state = "none" => NoUses
      /\ lease.state \in {"armed", "submitted"} => \A k \in Members : chunk[k].pin > 0
  BY Idle, IdleFacts
<1>4. Mappings' /\ HeadsReady'
  BY <1>1 DEF CacheInv, Mappings, Links, HeadsReady, HeadDo
<1>5. Copies'
  BY <1>3 DEF CacheInv, Copies
<1>6. NoneStuck' /\ SpillsUsed'
  BY <1>3 DEF NoneStuck, SpillsUsed, Dirty
<1>7. FlushPending'
  BY <1>1 DEF FlushPending, Pending
<1>8. Owned'
  <2>1. LiveKeys' = LiveKeys
    BY DEF LiveKeys
  <2> QED BY <1>1, <2>1 DEF CacheInv, Owned, Mapped, KeysOf
<1>9. KernelHolds' /\ LeasePins'
  BY <1>1, <1>2, <1>3 DEF UseInv, KernelHolds, LeasePins, Holding, Members, OnDevice
<1>10. LeaseCalls'
  BY <1>1, <1>2, <1>3 DEF LeaseCalls, NoUses
<1>11. LeaseSpills'
  BY <1>1, <1>2, <1>3 DEF UseInv, LeaseSpills, NoUses
<1>12. LeaseDirties'
  BY <1>1, <1>2 DEF UseInv, LeaseDirties
<1>13. Closing'
  BY <1>1 DEF UseInv, Closing, Awaits
<1> QED BY <1>4, <1>5, <1>6, <1>7, <1>8, <1>9, <1>10, <1>11, <1>12, <1>13 DEF CacheInv, UseInv

Unmoved == UNCHANGED <<chunk, frame, spill, owner, lease, gpu, dma, rt>>

LEMMA ReleaseOK ==
  ASSUME TypeInv, CallInv, CallInv', CacheInv, UseInv, NEW a \in Alloc, Release(a)
  PROVE  CacheInv' /\ UseInv'
<1> DEFINE plan == [k \in KeysOf(a) |-> "full"]
<1>1. Unmoved /\ call.todo = << >> /\ ~rt.closed /\ ~rt.poisoned
  BY DEF Release, Begin, Unmoved, Ready
<1>2. /\ Opens("release", plan)
      /\ \A k \in KeysOf(a) : /\ KeyTask("unmapIfClean", k) \in Work(call'.todo)
                              /\ KeyTask("writebackIfDirty", k) \in Work(call'.todo)
  BY ReleaseCall
<1>3. DOMAIN plan = KeysOf(a)
  OBVIOUS
<1>4. KeysOf(a) = KeysOf(AllocOf[Least(KeysOf(a))])
  <2>1. KeysOf(a) # {} /\ KeysOf(a) \in SUBSET Nat
    BY RuntimeAssumption DEF KeysOf, Key
  <2>2. Least(KeysOf(a)) \in KeysOf(a)
    BY <2>1, LeastElement
  <2> QED BY <2>2 DEF KeysOf
<1> HIDE DEF plan
<1> QED BY <1>1, <1>2, <1>3, <1>4, OpensOK DEF Unmoved

LEMMA WriteOK ==
  ASSUME TypeInv, CallInv, CallInv', CacheInv, UseInv, NEW a \in Alloc,
         NEW plan \in RangePlans(a, {"full", "part"}), NEW v \in Val, Write(a, plan, v)
  PROVE  CacheInv' /\ UseInv'
<1>1. Unmoved /\ call.todo = << >> /\ ~rt.closed
  BY DEF Write, Begin, Unmoved, MayCall
<1>2. /\ Opens("write", plan)
      /\ \A k \in DOMAIN plan : /\ KeyTask("unmapIfClean", k) \in Work(call'.todo)
                                /\ KeyTask("writebackIfDirty", k) \in Work(call'.todo)
  BY WriteCall
<1>3. lease.state = "none" \/ \A k \in DOMAIN plan : lease.use[k].gen = 0
  <2>1. \A k \in DOMAIN plan : k \in KeysOf(a)
    BY DEF RangePlans, Plans
  <2> QED BY <2>1 DEF Write, LeaseReferences, ActiveLease, Members, KeysOf
<1> QED BY <1>1, <1>2, <1>3, OpensOK DEF Unmoved

LEMMA OtherOpensOK ==
  ASSUME TypeInv, CallInv, CallInv', CacheInv, UseInv, Unmoved, call.todo = << >>, ~rt.closed,
         NEW op \in {"discard", "read", "poll", "wait", "drain"}, NEW plan, Opens(op, plan)
  PROVE  CacheInv' /\ UseInv'
BY OpensOK DEF Unmoved

LEMMA FetchOK ==
  ASSUME TypeInv, CallInv, CallInv', CacheInv, UseInv, NEW modes, NEW plan \in Plans(LiveKeys, modes),
         \/ Prefetch(plan) /\ Opens("prefetch", plan)
         \/ AcquireExternal(plan) /\ Opens("acquire", plan)
  PROVE  CacheInv' /\ UseInv'
<1>1. Unmoved /\ call.todo = << >> /\ ~rt.closed
  BY DEF Prefetch, AcquireExternal, Begin, Unmoved, MayCall, Ready
<1>2. DOMAIN plan \subseteq LiveKeys
  BY DEF Plans
<1>3. AcquireExternal(plan) => lease.state = "none"
  BY DEF AcquireExternal, ActiveLease
<1>4. CASE Opens("prefetch", plan)
  BY <1>1, <1>2, <1>4, OpensOK DEF Unmoved
<1>5. CASE AcquireExternal(plan) /\ Opens("acquire", plan)
  BY <1>1, <1>2, <1>3, <1>5, OpensOK DEF Unmoved
<1> QED BY <1>4, <1>5

LEMMA CloseOK ==
  ASSUME TypeInv, CallInv, CallInv', CacheInv, UseInv, Close
  PROVE  CacheInv' /\ UseInv'
<1>1. Unmoved /\ call.todo = << >> /\ ~rt.closed
  BY DEF Close, Begin, Unmoved
<1>2. Opens("close", << >>) /\ KeyTask("abandon", None) \in Work(call'.todo)
  BY CloseCall
<1> QED BY <1>1, <1>2, OpensOK DEF Unmoved

(* A new allocation has nothing mapped. *)
LEMMA AllocateOK ==
  ASSUME TypeInv, CallInv, CallInv', CacheInv, UseInv, NEW a \in Alloc, Allocate(a)
  PROVE  CacheInv' /\ UseInv'
<1>1. /\ call.todo = << >> /\ ~rt.closed
      /\ UNCHANGED <<chunk, frame, spill, lease, gpu, dma, rt, call>>
      /\ owner' = [owner EXCEPT ![a] = [live |-> TRUE, va |-> "held"]]
  BY DEF Allocate, Ready
<1>2. UseInv'
  BY <1>1 DEF UseInv, KernelHolds, LeasePins, Holding, Members, OnDevice, LeaseCalls, NoUses, LeaseSpills,
     LeaseDirties, Closing, Awaits, Pending, At, Touched, Plan
<1>3. Mappings' /\ HeadsReady' /\ Copies'
  BY <1>1 DEF CacheInv, Mappings, Links, HeadsReady, Copies, OnDevice, AtKey, At
<1>4. NoneStuck' /\ SpillsUsed'
  BY <1>1 DEF CacheInv, NoneStuck, Moving, SpillsUsed, Dirty, AtKey, At
<1>5. call'.op = "none"
  BY <1>1, Idle
<1>6. FlushPending'
  BY <1>5 DEF FlushPending
<1>7. Owned'
  <2>1. \A b \in Alloc : owner'[b] = IF b = a THEN [live |-> TRUE, va |-> "held"] ELSE owner[b]
    BY <1>1 DEF TypeInv, DataInv, TypeOK
  <2>2. \A b \in Alloc : owner'[b].live => owner'[b].va \in {"held", "quarantined"}
    BY <1>1, <2>1 DEF CacheInv, Owned
  <2>3. \A f \in Frame : Mapped(f) => AllocOf[frame[f].key] \in Alloc
    BY RuntimeAssumption, FrameKeys
  <2>4. \A f \in Frame : Mapped(f)' =>
          /\ owner'[AllocOf[frame'[f].key]].live
          /\ owner'[AllocOf[frame'[f].key]].va \in {"held", "quarantined"}
    BY <1>1, <2>1, <2>3 DEF CacheInv, Owned, Mapped
  <2> QED BY <1>5, <2>2, <2>4 DEF Owned
<1> QED BY <1>2, <1>3, <1>4, <1>6, <1>7 DEF CacheInv

(* A step of the kernel, or of a client that starts one. *)
LEMMA DeviceOK ==
  ASSUME TypeInv, CacheInv, UseInv,
         UNCHANGED <<chunk, frame, spill, owner, lease, dma, rt, call>>,
         gpu'.phase = "running" =>
           \/ gpu.phase = "running" /\ gpu'.keys = gpu.keys
           \/ /\ lease.state # "none" /\ call.op = "none" /\ ~rt.closed
              /\ \A k \in gpu'.keys : chunk[k].pin > 0 /\ OnDevice(k)
  PROVE  CacheInv' /\ UseInv'
<1>1. Mappings' /\ HeadsReady' /\ Copies'
  BY DEF CacheInv, Mappings, Links, HeadsReady, Copies, OnDevice, AtKey, At
<1>2. NoneStuck' /\ SpillsUsed'
  BY DEF CacheInv, NoneStuck, Moving, SpillsUsed, Dirty, AtKey, At
<1>3. FlushPending' /\ Owned'
  BY DEF CacheInv, FlushPending, Owned, Pending, Touched, Plan, Mapped, LiveKeys, KeysOf
<1>4. KernelHolds'
  BY DEF UseInv, KernelHolds, OnDevice
<1>5. LeasePins' /\ LeaseCalls' /\ LeaseSpills' /\ LeaseDirties'
  BY DEF UseInv, LeasePins, Holding, Members, LeaseCalls, NoUses, LeaseSpills, LeaseDirties,
     Awaits, Pending, At, Touched, Plan
<1>6. Closing'
  BY DEF UseInv, Closing, Awaits
<1> QED BY <1>1, <1>2, <1>3, <1>4, <1>5, <1>6 DEF CacheInv, UseInv

LEMMA LaunchOK ==
  ASSUME TypeInv, CallInv, CacheInv, UseInv, Launch
  PROVE  CacheInv' /\ UseInv'
<1>1. /\ call.todo = << >> /\ ~rt.closed /\ lease.state = "armed" /\ gpu'.keys = Members
      /\ UNCHANGED <<chunk, frame, spill, owner, lease, dma, rt, call>>
  BY DEF Launch
<1>2. call.op = "none"
  BY <1>1, Idle
<1>3. \A k \in Members : chunk[k].pin > 0 /\ OnDevice(k)
  <2> TAKE k \in Members
  <2>1. k \in Key /\ chunk[k].pin > 0
    BY <1>1, IdleFacts DEF Members
  <2>2. IsResident(chunk[k]) /\ chunk[k].frame # None
    BY <1>1, <2>1 DEF CacheInv, Mappings, RecordOK, ValidRecord, IsResident, HasFrame
  <2>3. chunk[k].frame \in Frame
    BY <2>1, <2>2, Records
  <2> QED BY <1>1, <2>1, <2>3 DEF CacheInv, Mappings, Links, OnDevice
<1> QED BY <1>1, <1>2, <1>3, DeviceOK

LEMMA KernelOK ==
  ASSUME TypeInv, CacheInv, UseInv, Kernel
  PROVE  CacheInv' /\ UseInv'
<1>1. UNCHANGED <<chunk, frame, spill, owner, lease, dma, rt, call>>
  BY DEF Kernel, KernelWrites, KernelFinishes
<1>2. gpu.phase = "running" /\ gpu'.keys = gpu.keys
  BY DEF Kernel, KernelWrites, KernelFinishes, TypeInv, DataInv, TypeOK
<1> QED BY <1>1, <1>2, DeviceOK

(* The client seals its lease: the chunks it may have written are dirty. *)
LEMMA SealOK ==
  ASSUME TypeInv, CallInv, CallInv', CacheInv, UseInv,
         NEW mode \in {"success", "cancelled", "failed"}, Seal(mode)
  PROVE  CacheInv' /\ UseInv'
<1> DEFINE dirtied == {k \in Members : lease.use[k].dirty /\ mode # "cancelled"}
<1>1. /\ call.todo = << >> /\ ~rt.closed /\ lease.state = "armed"
      /\ UNCHANGED <<frame, spill, owner, gpu, dma, call>>
  BY DEF Seal
<1>2. /\ call.op = "none" /\ call'.op = "none"
      /\ \A do : ~Awaits(do) /\ ~Awaits(do)'
      /\ \A do, k : ~AtKey(do, k)' /\ ~Pending(do, k)'
  BY <1>1, Idle DEF Awaits, AtKey, At, Pending
<1>3. /\ dma # {} => rt.asyncQ
      /\ ~rt.poisoned => ~rt.asyncQ /\ \A k \in Key : chunk[k].state \in AtRest
      /\ ~rt.poisoned => \A k \in Key :
              /\ spill[k] # "stale"
              /\ spill[k] # "none" => Dirty(k) \/ lease.use[k].spillHere
      /\ \A k \in Members : chunk[k].pin > 0
  BY <1>1, IdleFacts
<1>4. \/ /\ lease' = [lease EXCEPT !.state = "quarantined"] /\ rt' = AsyncUnknown
         /\ chunk' = chunk
      \/ /\ lease' = [lease EXCEPT !.state = "submitted", !.seal = mode] /\ rt' \in {rt, Poisoned}
         /\ chunk' = [k \in Key |->
                    IF k \in dirtied /\ chunk[k].state = "resident_clean"
                    THEN [chunk[k] EXCEPT !.state = "resident_dirty"] ELSE chunk[k]]
  BY DEF Seal
<1>5. MayPoison
  <2>1. CASE rt' = AsyncUnknown
    BY <2>1, RtTypes DEF MayPoison, AsyncUnknown, RtType, TypeInv
  <2>2. CASE rt' \in {rt, Poisoned}
    BY <2>2, RtTypes DEF MayPoison, Poisoned, RtType, TypeInv
  <2> QED BY <1>4, <2>1, <2>2
<1>6. \A k \in Key : RecordOK(chunk[k]) /\ (chunk[k].pin > 0 => IsResident(chunk[k]))
  BY <1>1 DEF CacheInv, Mappings, RecordOK
<1>7. \A k \in Key :
        /\ chunk'[k].frame = chunk[k].frame /\ chunk'[k].pin = chunk[k].pin /\ RecordOK(chunk'[k])
        /\ \/ chunk'[k].state = chunk[k].state
           \/ chunk[k].state = "resident_clean" /\ chunk'[k].state = "resident_dirty"
  <2> TAKE k \in Key
  <2> DEFINE r == chunk[k]
             d == [r EXCEPT !.state = "resident_dirty"]
  <2>1. chunk'[k] = r \/ (r.state = "resident_clean" /\ chunk'[k] = d)
    BY <1>4
  <2>2. r \in ChunkRecord /\ RecordOK(r)
    BY <1>6, Records
  <2>3. /\ d.frame = r.frame /\ d.pin = r.pin /\ d.staging = r.staging /\ d.ws = r.ws
        /\ d.event = r.event /\ d.completed = r.completed /\ d.state = "resident_dirty"
    BY <2>2 DEF ChunkRecord
  <2> HIDE DEF d
  <2>4. r.state = "resident_clean" => RecordOK(d)
    BY <2>2, <2>3 DEF RecordOK, ValidRecord, HasFrame, RequiresStaging, ForbidsStaging, IsResident, AtRest
  <2> QED BY <2>1, <2>2, <2>3, <2>4
<1>8. lease'.use = lease.use /\ lease'.state \in {"submitted", "quarantined"} /\ Members' = Members
      /\ (lease'.state = "submitted" => lease'.seal = mode)
  <2>1. lease \in [state: {"none", "armed", "submitted", "quarantined"},
                   held: BOOLEAN,
                   seal: {"none", "success", "cancelled", "failed"},
                   use: [Key -> [gen: Nat, dirty: BOOLEAN, provisional: BOOLEAN,
                                 spillHere: BOOLEAN]]]
    BY DEF TypeInv, DataInv, TypeOK
  <2>2. CASE lease' = [lease EXCEPT !.state = "quarantined"]
    BY <2>1, <2>2 DEF Members
  <2>3. CASE lease' = [lease EXCEPT !.state = "submitted", !.seal = mode]
    BY <2>1, <2>3 DEF Members
  <2> QED BY <1>4, <2>2, <2>3
<1>9. lease'.state = "submitted" /\ mode # "cancelled" =>
        \A k \in Members : lease.use[k].dirty => chunk'[k].state = "resident_dirty"
  <2> SUFFICES ASSUME lease'.state = "submitted", mode # "cancelled", NEW k \in Members,
                      lease.use[k].dirty
               PROVE  chunk'[k].state = "resident_dirty"
    OBVIOUS
  <2>1. k \in Key /\ k \in dirtied
    BY DEF Members
  <2>2. chunk[k].state \in {"resident_clean", "resident_dirty"}
    BY <1>3, <1>6, <2>1 DEF IsResident
  <2>3. chunk' = [j \in Key |->
                    IF j \in dirtied /\ chunk[j].state = "resident_clean"
                    THEN [chunk[j] EXCEPT !.state = "resident_dirty"] ELSE chunk[j]]
    <3>1. lease' = [lease EXCEPT !.state = "quarantined"] => lease'.state = "quarantined"
      BY DEF TypeInv, DataInv, TypeOK
    <3> QED BY <1>4, <3>1
  <2>4. chunk[k] \in ChunkRecord
    BY <2>1, Records
  <2> QED BY <2>1, <2>2, <2>3, <2>4 DEF ChunkRecord
<1>10. Mappings'
  BY <1>1, <1>5, <1>7, MappingsKept DEF CacheInv, SameKeys, MayPoison
<1>11. HeadsReady'
  BY <1>2 DEF HeadsReady
<1>12. Copies'
  BY <1>1, <1>3, <1>5, <1>7 DEF CacheInv, Copies, MayPoison, InFlight, TypeInv, DataInv, TypeOK
<1>13. NoneStuck'
  BY <1>3, <1>5, <1>7 DEF NoneStuck, MayPoison, AtRest
<1>14. SpillsUsed'
  BY <1>1, <1>3, <1>5, <1>7, <1>8 DEF SpillsUsed, Dirty, MayPoison
<1>15. FlushPending'
  BY <1>2 DEF FlushPending
<1>16. Owned'
  BY <1>1, <1>2, <1>5 DEF CacheInv, Owned, Mapped, MayPoison
<1>17. KernelHolds' /\ LeasePins'
  <2>1. \A k \in gpu.keys : k \in Key
    BY DEF TypeInv, DataInv, TypeOK
  <2>2. Members \subseteq Key
    BY DEF Members
  <2> QED BY <1>1, <1>3, <1>7, <1>8, <2>1, <2>2 DEF UseInv, KernelHolds, LeasePins, OnDevice
<1>18. LeaseCalls' /\ LeaseSpills'
  BY <1>1, <1>2, <1>8 DEF UseInv, LeaseCalls, LeaseSpills
<1>19. LeaseDirties'
  BY <1>1, <1>2, <1>8, <1>9 DEF UseInv, LeaseDirties, LeaseSpills, Members
<1>20. Closing'
  BY <1>1, <1>2, <1>5 DEF UseInv, Closing, MayPoison
<1> QED BY <1>10, <1>11, <1>12, <1>13, <1>14, <1>15, <1>16, <1>17, <1>18, <1>19, <1>20
    DEF CacheInv, UseInv

LEMMA StutterOK ==
  ASSUME TypeInv, CacheInv, UseInv, UNCHANGED vars
  PROVE  CacheInv' /\ UseInv'
BY DeviceOK DEF vars

LEMMA InitOK == Init => CacheInv /\ UseInv
<1> SUFFICES ASSUME Init PROVE CacheInv /\ UseInv
  OBVIOUS
<1>1. call.todo = << >> /\ call.op = "none" /\ Work(call.todo) = {}
  BY IdleProper DEF Init
<1>2. (\A do : ~Awaits(do) /\ ~At(do)) /\ \A do, k : ~Pending(do, k) /\ ~AtKey(do, k)
  BY <1>1 DEF Awaits, At, Pending, AtKey
<1>3. \A k \in Key : chunk[k] = NewChunk /\ spill[k] = "none"
  BY DEF Init
<1>4. \A f \in Frame : frame[f].key = None
  BY DEF Init
<1>5. dma = {} /\ lease.state = "none" /\ NoUses /\ gpu.phase = "idle"
  BY DEF Init, NoLease, NoKernel, NoUses, NoUse
<1>6. ~rt.closed /\ rt.pools /\ ~rt.asyncQ
  BY DEF Init
<1>7. None \notin Key /\ None \notin Frame
  BY NoneAssumption DEF Key, Frame
<1>8. Mappings
  BY <1>3, <1>4, <1>7, NewRecord DEF Mappings, Links
<1>9. HeadsReady /\ Copies /\ NoneStuck /\ SpillsUsed /\ FlushPending
  BY <1>1, <1>2, <1>3, <1>5, <1>6, NewRecord
     DEF HeadsReady, Copies, NoneStuck, SpillsUsed, FlushPending, AtRest
<1>10. Owned
  BY <1>1, <1>4 DEF Owned, Mapped, Init
<1>11. UseInv
  BY <1>1, <1>2, <1>5, <1>6
     DEF UseInv, KernelHolds, LeasePins, Holding, LeaseCalls, LeaseSpills, LeaseDirties, Closing, NoUses
<1> QED BY <1>8, <1>9, <1>10, <1>11 DEF CacheInv

LEMMA WorkerOK ==
  ASSUME TypeInv, CallInv, CallInv', CacheInv, UseInv, Worker
  PROVE  CacheInv' /\ UseInv'
<1>1. ASSUME NEW k \in Key, NEW f \in Frame,
             \/ MapRefused(k, f) \/ MapFails(k, f) \/ MapRollbackFails(k, f)
             \/ MapAndSubmit(k, f) \/ MapAndSubmitFails(k, f) \/ MapWithoutSource(k, f)
      PROVE  CacheInv' /\ UseInv'
  <2>1. CASE MapFails(k, f)
    BY <2>1, OnlyMovesOK DEF OnlyMoves
  <2>2. CASE MapRefused(k, f) \/ MapRollbackFails(k, f)
    BY <2>2, MapRefusedOK, MapRollbackFailsOK
  <2>3. CASE MapAndSubmit(k, f) \/ MapAndSubmitFails(k, f) \/ MapWithoutSource(k, f)
    BY <2>3, MapAndSubmitOK, MapWithoutSourceOK
  <2> QED BY <1>1, <2>1, <2>2, <2>3
<1>2. ASSUME NEW k \in Key,
             \/ H2dDone(k) \/ TransferStuck(k) \/ RetireFailedH2d(k)
             \/ WritebackSkipped(k) \/ StartD2h(k) \/ D2hDone(k)
             \/ UnmapSkipped(k) \/ Unmap(k) \/ DropDirty(k)
      PROVE  CacheInv' /\ UseInv'
  BY <1>2, H2dDoneOK, TransferStuckOK, RetireFailedH2dOK, WritebackSkippedOK, StartD2hOK, D2hDoneOK,
     UnmapSkippedOK, UnmapOK, DropDirtyOK
<1>3. ASSUME NEW k \in Key,
             \/ EnsureHit(k) \/ EnsureMiss(k) \/ GetHost(k)
             \/ PrepareUse(k) \/ Pin(k) \/ PutHost(k) \/ Invalidate(k)
      PROVE  CacheInv' /\ UseInv'
  <2>1. CASE EnsureHit(k) \/ EnsureMiss(k) \/ GetHost(k)
    BY <2>1, OnlyMovesOK DEF OnlyMoves
  <2> QED BY <1>3, <2>1, PrepareUseOK, PinOK, PutHostOK, InvalidateOK
<1>4. ASSUME NEW f \in Frame,
             \/ CreateHandle(f) \/ CreateHandleFails(f) \/ DropMapping(f) \/ ReleaseTailHandle(f)
             \/ CloseFrame(f) \/ CloseCheck(f)
      PROVE  CacheInv' /\ UseInv'
  <2>1. CASE CreateHandle(f) \/ CreateHandleFails(f) \/ DropMapping(f) \/ ReleaseTailHandle(f)
    BY <2>1, OnlyMovesOK DEF OnlyMoves
  <2> QED BY <1>4, <2>1, CloseFrameOK, CloseCheckOK
<1>5. ASSUME NEW observed \in 0..MaxFrames,
             RefreshShrinks(observed) \/ RefreshKeeps(observed) \/ SetCapacity(observed)
      PROVE  CacheInv' /\ UseInv'
  BY <1>5, OnlyMovesOK DEF OnlyMoves
<1>6. ASSUME \/ RefreshSkipped \/ RefreshFails \/ CheckCapacity \/ FailTask \/ Catching
             \/ PollNotReady \/ CheckSources
      PROVE  CacheInv' /\ UseInv'
  BY <1>6, OnlyMovesOK DEF OnlyMoves
<1>7. ASSUME \/ EnsureWorkspace \/ Arm \/ Rollback \/ DropSpills
             \/ RetireUnknown \/ Retire \/ FinishLease \/ Abandon
      PROVE  CacheInv' /\ UseInv'
  BY <1>7, EnsureWorkspaceOK, ArmOK, RollbackOK, DropSpillsOK, RetireUnknownOK, RetireOK,
     FinishLeaseOK, AbandonOK
<1>8. ASSUME NEW a \in Alloc, EraseAllocation(a) PROVE CacheInv' /\ UseInv'
  BY <1>8, EraseOK
<1>9. ASSUME NEW FA, NEW FF, CloseEnd(FA, FF) PROVE CacheInv' /\ UseInv'
  BY <1>9, CloseEndOK
<1> QED BY <1>1, <1>2, <1>3, <1>4, <1>5, <1>6, <1>7, <1>8, <1>9 DEF Worker

LEMMA ClientOK ==
  ASSUME TypeInv, CallInv, CallInv', CacheInv, UseInv, Client
  PROVE  CacheInv' /\ UseInv'
<1>1. ASSUME NEW a \in Alloc, Allocate(a) \/ Release(a) PROVE CacheInv' /\ UseInv'
  BY <1>1, AllocateOK, ReleaseOK
<1>2. ASSUME NEW a \in Alloc, NEW plan \in RangePlans(a, {"full"}), DiscardDead(a, plan)
      PROVE  CacheInv' /\ UseInv'
  <2>1. Unmoved /\ call.todo = << >> /\ ~rt.closed
    BY <1>2 DEF DiscardDead, Begin, Unmoved, Ready
  <2> QED BY <1>2, <2>1, DiscardCall, OtherOpensOK
<1>3. ASSUME NEW a \in Alloc, NEW plan \in RangePlans(a, {"full", "part"}), NEW v \in Val,
             Write(a, plan, v)
      PROVE  CacheInv' /\ UseInv'
  BY <1>3, WriteOK
<1>4. ASSUME NEW a \in Alloc, NEW plan \in RangePlans(a, {"part"}), Read(a, plan)
      PROVE  CacheInv' /\ UseInv'
  <2>1. Unmoved /\ call.todo = << >> /\ ~rt.closed
    BY <1>4 DEF Read, Begin, Unmoved, MayCall
  <2> QED BY <1>4, <2>1, ReadCall, OtherOpensOK
<1>5. ASSUME NEW plan \in Plans(LiveKeys, PrefetchModes), Prefetch(plan) PROVE CacheInv' /\ UseInv'
  BY <1>5, PrefetchCall, FetchOK
<1>6. ASSUME NEW plan \in Plans(LiveKeys, Mode), AcquireExternal(plan) PROVE CacheInv' /\ UseInv'
  BY <1>6, AcquireCall, FetchOK
<1>7. ASSUME NEW mode \in {"success", "cancelled", "failed"}, Seal(mode) PROVE CacheInv' /\ UseInv'
  BY <1>7, SealOK
<1>8. ASSUME Poll \/ Wait PROVE CacheInv' /\ UseInv'
  <2>1. Unmoved /\ call.todo = << >> /\ ~rt.closed
    BY <1>8 DEF Poll, Wait, Begin, Unmoved, MayCall
  <2> QED BY <1>8, <2>1, PollWaitCall, OtherOpensOK
<1>9. ASSUME NEW r \in BOOLEAN, Drain(r) PROVE CacheInv' /\ UseInv'
  <2>1. Unmoved /\ call.todo = << >> /\ ~rt.closed
    BY <1>9 DEF Drain, Begin, Unmoved, MayCall
  <2> QED BY <1>9, <2>1, DrainCall, OtherOpensOK
<1>10. ASSUME Close \/ Launch PROVE CacheInv' /\ UseInv'
  BY <1>10, CloseOK, LaunchOK
<1> QED BY <1>1, <1>2, <1>3, <1>4, <1>5, <1>6, <1>7, <1>8, <1>9, <1>10 DEF Client

LEMMA StepMapping == TypeInv /\ CallInv /\ CacheInv /\ UseInv /\ [Next]_vars => CacheInv' /\ UseInv'
<1> SUFFICES ASSUME TypeInv, CallInv, CacheInv, UseInv, [Next]_vars PROVE CacheInv' /\ UseInv'
  OBVIOUS
<1>1. CallInv'
  BY StepCall
<1> QED BY <1>1, WorkerOK, ClientOK, KernelOK, StutterOK DEF Next

-----------------------------------------------------------------------------
(* What the invariants say to the clients. *)

LEMMA MappingsFollow == TypeInv /\ CacheInv /\ UseInv => MappingsSafe
<1> SUFFICES ASSUME TypeInv, CacheInv, UseInv PROVE MappingsSafe
  OBVIOUS
<1>1. FrameLinkage
  BY DEF FrameLinkage, CacheInv, Mappings, Links, RecordOK
<1>2. \A k : OnDevice(k) => k \in {frame[f].key : f \in Frame}
  BY DEF OnDevice
<1>3. gpu.phase = "running" => gpu.keys \subseteq {frame[f].key : f \in Frame}
  BY <1>2 DEF UseInv, KernelHolds
<1>4. \A d \in dma : OnDevice(d.key)
  <2> TAKE d \in dma
  <2>1. CASE rt.closed
    BY <2>1 DEF CacheInv, Copies
  <2>2. CASE ~rt.closed
    <3>1. d.key \in Key /\ chunk[d.key].state \in InFlight
      BY <2>2 DEF CacheInv, Copies, TypeInv, DataInv, TypeOK
    <3>2. chunk[d.key].frame # None /\ chunk[d.key].frame \in Frame \union {None}
      BY <2>2, <3>1, Records DEF CacheInv, Mappings, RecordOK, ValidRecord, HasFrame, InFlight
    <3> QED BY <2>2, <3>1, <3>2 DEF CacheInv, Mappings, Links, OnDevice
  <2> QED BY <2>1, <2>2
<1>5. gpu.phase = "running" \/ dma # {} => rt.pools
  BY DEF UseInv, Closing
<1>6. GpuMemoryStaysMapped
  BY <1>2, <1>3, <1>4, <1>5 DEF GpuMemoryStaysMapped
<1>7. MappingHasReservation
  BY DEF MappingHasReservation, CacheInv, Owned
<1> QED BY <1>1, <1>6, <1>7 DEF MappingsSafe

(* Whatever fails, and in every interleaving of calls, copies and kernels, *)
(* a chunk and its frame name each other, memory that a kernel or a copy   *)
(* may still use stays mapped and its staging and streams stay, and every  *)
(* mapping lies in a reservation (runtime.cpp, map_and_fill, unmap,        *)
(* acquire_external, close).                                               *)
THEOREM MappingsAreSafe == Spec => []MappingsSafe
BY InitType, StepType, InitCall, StepCall, InitOK, StepMapping, MappingsFollow, PTL DEF Spec

(* Only the last step of close closes the runtime. *)
LEMMA StaysOpen ==
  ASSUME TypeInv, [Next]_vars, \A FA, FF : ~CloseEnd(FA, FF)
  PROVE  rt'.closed = rt.closed
<1> DEFINE Open == \/ rt' = rt \/ rt' = Poisoned \/ rt' = AsyncUnknown
                   \/ rt' = [rt EXCEPT !.blocked = TRUE]
                   \/ \E ok \in BOOLEAN : \/ rt' = [rt EXCEPT !.closeOk = ok]
                                          \/ rt' = [Poisoned EXCEPT !.closeOk = ok]
                                          \/ rt' = [AsyncUnknown EXCEPT !.closeOk = ok]
<1>1. Open => rt'.closed = rt.closed
  <2>1. rt \in RtType
    BY RtTypes DEF TypeInv
  <2> QED BY <2>1 DEF RtType, Poisoned, AsyncUnknown
<1>2. ASSUME NEW k \in Key, NEW f \in Frame,
             \/ MapRefused(k, f) \/ MapFails(k, f) \/ MapRollbackFails(k, f)
             \/ MapAndSubmit(k, f) \/ MapAndSubmitFails(k, f) \/ MapWithoutSource(k, f)
      PROVE  Open
  BY <1>2 DEF MapRefused, MapFails, MapRollbackFails, MapAndSubmit, MapAndSubmitFails, MapWithoutSource
<1>3. ASSUME NEW k \in Key,
             \/ H2dDone(k) \/ TransferStuck(k) \/ RetireFailedH2d(k)
             \/ WritebackSkipped(k) \/ StartD2h(k) \/ D2hDone(k)
             \/ UnmapSkipped(k) \/ Unmap(k) \/ DropDirty(k)
      PROVE  Open
  BY <1>3 DEF H2dDone, TransferStuck, RetireFailedH2d, WritebackSkipped, StartD2h, D2hDone,
     UnmapSkipped, Unmap, DropDirty, TakeDownFails
<1>4. ASSUME NEW k \in Key,
             \/ EnsureHit(k) \/ EnsureMiss(k) \/ GetHost(k)
             \/ PrepareUse(k) \/ Pin(k) \/ PutHost(k) \/ Invalidate(k)
      PROVE  Open
  BY <1>4 DEF EnsureHit, EnsureMiss, GetHost, PrepareUse, Pin, PutHost, Invalidate
<1>5. ASSUME NEW f \in Frame,
             \/ CreateHandle(f) \/ CreateHandleFails(f) \/ DropMapping(f) \/ ReleaseTailHandle(f)
             \/ CloseFrame(f) \/ CloseCheck(f)
      PROVE  Open
  BY <1>5 DEF CreateHandle, CreateHandleFails, DropMapping, ReleaseTailHandle, CloseFrame, CloseCheck
<1>6. ASSUME NEW observed \in 0..MaxFrames,
             RefreshShrinks(observed) \/ RefreshKeeps(observed) \/ SetCapacity(observed)
      PROVE  Open
  BY <1>6 DEF RefreshShrinks, RefreshKeeps, SetCapacity
<1>7. ASSUME \/ RefreshSkipped \/ RefreshFails \/ CheckCapacity \/ FailTask \/ Catching
             \/ PollNotReady \/ CheckSources
      PROVE  Open
  BY <1>7 DEF RefreshSkipped, RefreshFails, CheckCapacity, FailTask, Catching, PollNotReady, CheckSources
<1>8. ASSUME \/ EnsureWorkspace \/ Arm \/ Rollback \/ DropSpills
             \/ RetireUnknown \/ Retire \/ FinishLease
      PROVE  Open
  BY <1>8 DEF EnsureWorkspace, Arm, Rollback, DropSpills, RetireUnknown, Retire, FinishLease
<1>9. ASSUME Abandon PROVE Open
  <2>1. (rt.closeOk /\ call.failure = "none") \in BOOLEAN
    BY RtTypes DEF TypeInv, RtType
  <2> QED BY <1>9, <2>1 DEF Abandon
<1>10. ASSUME NEW a \in Alloc, EraseAllocation(a) PROVE Open
  BY <1>10 DEF EraseAllocation
<1>11. ASSUME NEW mode, Seal(mode) PROVE Open
  BY <1>11 DEF Seal
<1>12. rt' = rt => Open
  OBVIOUS
<1> HIDE DEF Open
<1>13. ASSUME NEW a \in Alloc,
              \/ Allocate(a) \/ Release(a) \/ (\E plan : DiscardDead(a, plan))
              \/ (\E plan, v : Write(a, plan, v)) \/ (\E plan : Read(a, plan))
       PROVE  Open
  BY <1>12, <1>13 DEF Begin, Allocate, Release, DiscardDead, Write, Read
<1>14. ASSUME \/ \E plan : Prefetch(plan) \/ AcquireExternal(plan)
              \/ Poll \/ Wait \/ (\E r : Drain(r)) \/ Close \/ Launch
       PROVE  Open
  BY <1>12, <1>14 DEF Begin, Prefetch, AcquireExternal, Poll, Wait, Drain, Close, Launch
<1>15. Client => Open
  BY <1>11, <1>13, <1>14 DEF Client
<1>16. Worker => Open
  BY <1>2, <1>3, <1>4, <1>5, <1>6, <1>7, <1>8, <1>9, <1>10 DEF Worker
<1>17. Kernel \/ UNCHANGED vars => Open
  BY <1>12 DEF Kernel, KernelWrites, KernelFinishes, vars
<1> QED BY <1>1, <1>15, <1>16, <1>17 DEF Next

LEMMA StepLeaks ==
  TypeInv /\ CallInv /\ CacheInv /\ UseInv /\ SuccessfulCloseLeaksNothing /\ [Next]_vars
    => SuccessfulCloseLeaksNothing'
<1> SUFFICES ASSUME TypeInv, CallInv, CacheInv, UseInv, SuccessfulCloseLeaksNothing, [Next]_vars
             PROVE  SuccessfulCloseLeaksNothing'
  OBVIOUS
<1>1. CallInv'
  BY StepCall
<1>2. ASSUME NEW FA, NEW FF, CloseEnd(FA, FF) PROVE SuccessfulCloseLeaksNothing'
  BY <1>1, <1>2, CloseEndOK
<1>3. CASE ~rt.closed /\ \A FA, FF : ~CloseEnd(FA, FF)
  BY <1>3, StaysOpen DEF SuccessfulCloseLeaksNothing
<1>4. CASE rt.closed
  <2>1. call.todo = << >>
    BY <1>4 DEF UseInv, Closing
  <2>2. ~Client
    BY <1>4 DEF Client
  <2>3. ~Worker
    BY <2>1 DEF Worker, At, AtKey, AtFrame, AtRefresh, AtRetire, AtWriteback, AtUnmap,
       MapRefused, MapFails, MapRollbackFails, MapAndSubmit, MapAndSubmitFails, MapWithoutSource,
       H2dDone, TransferStuck, RetireFailedH2d, WritebackSkipped, StartD2h, D2hDone,
       UnmapSkipped, Unmap, DropDirty, EnsureHit, EnsureMiss, GetHost, PrepareUse, Pin, PutHost, Invalidate,
       CreateHandle, CreateHandleFails, DropMapping, ReleaseTailHandle, CloseFrame, CloseCheck,
       RefreshShrinks, RefreshKeeps, SetCapacity, RefreshSkipped, RefreshFails, CheckCapacity, FailTask,
       Catching, PollNotReady, CheckSources, EnsureWorkspace, Arm, Rollback, DropSpills,
       RetireUnknown, Retire, FinishLease, Abandon, EraseAllocation
  <2>4. UNCHANGED <<frame, owner, dma, rt>> /\ (gpu' = gpu \/ gpu.phase = "running")
    BY <2>2, <2>3 DEF Next, Kernel, KernelWrites, KernelFinishes, vars
  <2> QED BY <2>4 DEF SuccessfulCloseLeaksNothing, Mapped
<1> QED BY <1>2, <1>3, <1>4

(* When close answers success, whatever happened before it, no mapping, no *)
(* handle and no reservation is left, nothing runs on the device, and the  *)
(* staging pools are gone (runtime.cpp, close).                            *)
THEOREM SuccessfulCloseIsClean == Spec => []SuccessfulCloseLeaksNothing
<1>1. Init => SuccessfulCloseLeaksNothing
  BY DEF Init, SuccessfulCloseLeaksNothing
<1> QED BY <1>1, InitType, StepType, InitCall, StepCall, InitOK, StepMapping, StepLeaks, PTL DEF Spec

-----------------------------------------------------------------------------
(* The transfers of the residency runtime: a staging slot serves one       *)
(* unfinished copy at a time, and no copy touches a chunk of a running     *)
(* kernel.  And its capacity: no frame beyond it is in use.                *)
(*                                                                         *)
(* The runtime waits for each of its copies.  After one it could not wait  *)
(* for, the rest of the call begins no other (Halted), and later calls     *)
(* that begin copies are refused; so there is never a second copy.  A      *)
(* shrink sets the capacity after it has emptied the frames it takes away  *)
(* (EmptiesFirst), and only frames below it get a handle (CreatesWithin).  *)

(* A task that copies, or that may lead to one that does. *)
BusyDo == CopyingDo \union {"workspace", "prepare"}

(* The GPU may still use what the runtime stopped waiting for. *)
Halted == rt.asyncQ => \A w \in Work(call.todo) : w.do \notin BusyDo
OneCopy == \A d, e \in dma : d = e

(* The call gives up what it was doing. *)
Quits ==
  \/ Goto(<< >>)
  \/ At("abandon") /\ Continue
  \/ Head(call.todo).do \notin {"unmapIfClean"} /\ \E status : Fail(status)

(* Tasks that put others in front of the list, none of which copies unless *)
(* the runtime waited for every copy before.                               *)
Ending == Rollback \/ DropSpills \/ Retire \/ \E f \in Frame : CloseFrame(f)

Copier == {"map", "writeback", "writebackIfDirty"}
Turn ==
  /\ call.todo # << >> /\ Head(call.todo).do # "forEach"
  /\ rt'.asyncQ = rt.asyncQ \/ Quits
  /\ Head(call.todo).do \in BusyDo \/ Ending \/ Steps \/ Goto(<< >>)
  /\ dma' \subseteq dma \/ (Head(call.todo).do \in Copier /\ \E d : dma' = dma \union {d})

LEMMA KeepsAsync ==
  ASSUME TypeInv, NEW ok \in BOOLEAN,
         \/ rt' \in {rt, Poisoned, [rt EXCEPT !.blocked = TRUE], [rt EXCEPT !.closeOk = ok],
                     [Poisoned EXCEPT !.closeOk = ok]}
  PROVE  rt'.asyncQ = rt.asyncQ
<1>1. rt \in RtType
  BY RtTypes DEF TypeInv
<1> QED BY <1>1 DEF RtType, Poisoned

LEMMA KeyTurns ==
  ASSUME TypeInv, NEW k \in Key,
         \/ \E f \in Frame : \/ MapRefused(k, f) \/ MapFails(k, f) \/ MapRollbackFails(k, f)
                             \/ MapAndSubmit(k, f) \/ MapAndSubmitFails(k, f)
                             \/ MapWithoutSource(k, f)
         \/ H2dDone(k) \/ TransferStuck(k) \/ RetireFailedH2d(k)
         \/ EnsureHit(k) \/ EnsureMiss(k)
         \/ WritebackSkipped(k) \/ StartD2h(k) \/ D2hDone(k)
         \/ UnmapSkipped(k) \/ Unmap(k) \/ DropDirty(k)
         \/ PrepareUse(k) \/ Pin(k)
         \/ PutHost(k) \/ GetHost(k) \/ Invalidate(k)
  PROVE  Turn
<1>0. \A do : (AtKey(do, k) \/ At(do)) => call.todo # << >> /\ Head(call.todo).do = do
  BY DEF AtKey, At
<1>1. {"map", "h2d", "d2h", "retireH2d", "ensure", "writeback", "writebackIfDirty", "prepare"}
        \subseteq BusyDo
  BY DEF BusyDo, CopyingDo
<1>2. CASE \E f \in Frame : \/ MapRefused(k, f) \/ MapFails(k, f) \/ MapRollbackFails(k, f)
                            \/ MapAndSubmit(k, f) \/ MapAndSubmitFails(k, f)
                            \/ MapWithoutSource(k, f)
  <2> PICK f \in Frame : \/ MapRefused(k, f) \/ MapFails(k, f) \/ MapRollbackFails(k, f)
                         \/ MapAndSubmit(k, f) \/ MapAndSubmitFails(k, f)
                         \/ MapWithoutSource(k, f)
    BY <1>2
  <2>1. AtKey("map", k)
    BY DEF MapRefused, MapFails, MapRollbackFails, MapAndSubmit, MapAndSubmitFails, MapWithoutSource
  <2>2. call.todo # << >> /\ Head(call.todo).do = "map"
    BY <1>0, <2>1
  <2>3. dma' \subseteq dma \/ \E d : dma' = dma \union {d}
    BY DEF MapRefused, MapFails, MapRollbackFails, MapAndSubmit, MapAndSubmitFails, MapWithoutSource
  <2>4. \/ rt' \in {rt, Poisoned} \/ \E status : Fail(status)
    BY DEF MapRefused, MapFails, MapRollbackFails, MapAndSubmit, MapAndSubmitFails, MapWithoutSource
  <2>5. rt' \in {rt, Poisoned} => rt'.asyncQ = rt.asyncQ
    BY KeepsAsync
  <2> QED BY <1>1, <2>2, <2>3, <2>4, <2>5 DEF Turn, Quits, Copier
<1>3. CASE H2dDone(k) \/ TransferStuck(k) \/ RetireFailedH2d(k) \/ EnsureHit(k) \/ EnsureMiss(k)
  <2>1. \/ AtKey("h2d", k) \/ AtKey("d2h", k) \/ AtKey("retireH2d", k) \/ AtKey("ensure", k)
    BY <1>3 DEF H2dDone, TransferStuck, RetireFailedH2d, EnsureHit, EnsureMiss
  <2>2. call.todo # << >> /\ Head(call.todo).do \in {"h2d", "d2h", "retireH2d", "ensure"}
    BY <1>0, <2>1
  <2>3. dma' \subseteq dma
    BY <1>3 DEF H2dDone, TransferStuck, RetireFailedH2d, EnsureHit, EnsureMiss
  <2>4. rt' = rt \/ \E status : Fail(status)
    BY <1>3 DEF H2dDone, TransferStuck, RetireFailedH2d, EnsureHit, EnsureMiss
  <2> QED BY <1>1, <2>2, <2>3, <2>4 DEF Turn, Quits
<1>4. CASE WritebackSkipped(k) \/ StartD2h(k) \/ D2hDone(k)
  <2>1. AtKey("writeback", k) \/ AtKey("writebackIfDirty", k) \/ AtKey("d2h", k)
    BY <1>4 DEF WritebackSkipped, StartD2h, D2hDone, AtWriteback
  <2>2. call.todo # << >> /\ Head(call.todo).do \in {"writeback", "writebackIfDirty", "d2h"}
    BY <1>0, <2>1
  <2>3. dma' \subseteq dma
          \/ (Head(call.todo).do \in {"writeback", "writebackIfDirty"} /\ \E d : dma' = dma \union {d})
    BY <1>0, <1>4 DEF WritebackSkipped, StartD2h, D2hDone, AtWriteback
  <2>4. rt' \in {rt, [rt EXCEPT !.blocked = TRUE]} \/ \E status : Fail(status)
    BY <1>4 DEF WritebackSkipped, StartD2h, D2hDone
  <2>5. rt' \in {rt, [rt EXCEPT !.blocked = TRUE]} => rt'.asyncQ = rt.asyncQ
    BY KeepsAsync
  <2> QED BY <1>1, <2>2, <2>3, <2>4, <2>5 DEF Turn, Quits, Copier
<1>5. CASE UnmapSkipped(k) \/ Unmap(k) \/ DropDirty(k)
  <2>1. AtKey("unmap", k) \/ AtKey("unmapIfClean", k) \/ AtKey("dropDirty", k)
    BY <1>5 DEF UnmapSkipped, Unmap, DropDirty, AtUnmap
  <2>2. call.todo # << >> /\ Head(call.todo).do # "forEach"
    BY <1>0, <2>1
  <2>3. dma' \subseteq dma /\ Steps
    BY <1>5 DEF UnmapSkipped, Unmap, DropDirty, TakeDownFails, Steps
  <2>4. rt' \in {rt, Poisoned}
    BY <1>5 DEF UnmapSkipped, Unmap, DropDirty, TakeDownFails
  <2> QED BY <2>2, <2>3, <2>4, KeepsAsync DEF Turn
<1>6. CASE PrepareUse(k) \/ Pin(k) \/ GetHost(k) \/ Invalidate(k) \/ PutHost(k)
  <2>1. AtKey("prepare", k) \/ AtKey("pin", k) \/ AtKey("get", k) \/ AtKey("invalidate", k) \/ AtKey("put", k)
    BY <1>6 DEF PrepareUse, Pin, GetHost, Invalidate, PutHost
  <2>2. call.todo # << >> /\ Head(call.todo).do # "forEach"
    BY <1>0, <2>1
  <2>3. dma' \subseteq dma
    BY <1>6 DEF PrepareUse, Pin, GetHost, Invalidate, PutHost
  <2>4. rt' \in {rt, [rt EXCEPT !.blocked = TRUE]}
    BY <1>6 DEF PrepareUse, Pin, GetHost, Invalidate, PutHost
  <2>5. Head(call.todo).do \in BusyDo \/ Steps
    <3>1. CASE PrepareUse(k)
      BY <1>0, <1>1, <3>1 DEF PrepareUse
    <3>2. CASE Pin(k) \/ GetHost(k) \/ Invalidate(k) \/ PutHost(k)
      BY <3>2 DEF Pin, GetHost, Invalidate, PutHost, Steps
    <3> QED BY <1>6, <3>1, <3>2
  <2> QED BY <2>2, <2>3, <2>4, <2>5, KeepsAsync DEF Turn
<1> QED BY <1>2, <1>3, <1>4, <1>5, <1>6

LEMMA OtherTurns ==
  ASSUME TypeInv,
         \/ \E f \in Frame : \/ CreateHandle(f) \/ CreateHandleFails(f)
                             \/ DropMapping(f) \/ ReleaseTailHandle(f) \/ CloseFrame(f) \/ CloseCheck(f)
         \/ \E observed \in 0..MaxFrames :
              RefreshShrinks(observed) \/ RefreshKeeps(observed) \/ SetCapacity(observed)
         \/ RefreshSkipped \/ RefreshFails \/ CheckCapacity \/ EnsureWorkspace
         \/ FailTask \/ Catching \/ Arm \/ Rollback \/ DropSpills
         \/ PollNotReady \/ RetireUnknown \/ Retire \/ FinishLease
         \/ CheckSources \/ Abandon
         \/ \E a \in Alloc : EraseAllocation(a)
         \/ \E FA, FF : CloseEnd(FA, FF)
  PROVE  Turn
<1>0. \A do : (\E f : AtFrame(do, f)) \/ At(do) => call.todo # << >> /\ Head(call.todo).do = do
  BY DEF AtFrame, At
<1>1. {"create", "createRetry", "dropFrame", "refresh", "forceRefresh", "workspace"} \subseteq BusyDo
  BY DEF BusyDo, CopyingDo
<1>2. ASSUME NEW f \in Frame, \/ CreateHandle(f) \/ CreateHandleFails(f)
                              \/ DropMapping(f) \/ ReleaseTailHandle(f)
      PROVE  Turn
  <2>1. AtFrame("create", f) \/ AtFrame("createRetry", f) \/ AtFrame("dropFrame", f)
    BY <1>2 DEF CreateHandle, CreateHandleFails, DropMapping, ReleaseTailHandle
  <2>2. call.todo # << >> /\ Head(call.todo).do \in {"create", "createRetry", "dropFrame"}
    BY <1>0, <2>1
  <2>3. dma' = dma /\ rt' = rt
    BY <1>2 DEF CreateHandle, CreateHandleFails, DropMapping, ReleaseTailHandle
  <2> QED BY <1>1, <2>2, <2>3 DEF Turn
<1>3. ASSUME NEW f \in Frame, CloseFrame(f) \/ CloseCheck(f) PROVE Turn
  <2>1. AtFrame("closeFrame", f) \/ AtFrame("closeCheck", f)
    BY <1>3 DEF CloseFrame, CloseCheck
  <2>2. call.todo # << >> /\ Head(call.todo).do \in {"closeFrame", "closeCheck"}
    BY <1>0, <2>1
  <2>3. dma' = dma /\ rt' \in {rt, [rt EXCEPT !.closeOk = FALSE], [Poisoned EXCEPT !.closeOk = FALSE]}
    BY <1>3 DEF CloseFrame, CloseCheck
  <2>4. Ending \/ Steps
    BY <1>3 DEF CloseCheck, Ending, Steps
  <2>5. rt'.asyncQ = rt.asyncQ
    BY <2>3, KeepsAsync
  <2> QED BY <2>2, <2>3, <2>4, <2>5 DEF Turn
<1>4. ASSUME NEW observed \in 0..MaxFrames,
             RefreshShrinks(observed) \/ RefreshKeeps(observed) \/ SetCapacity(observed)
      PROVE  Turn
  <2>1. \/ At("refresh") \/ At("forceRefresh")
        \/ AtFrame("setCapacity", observed) \/ AtFrame("setCapacityFor", observed)
    BY <1>4 DEF RefreshShrinks, RefreshKeeps, SetCapacity, AtRefresh
  <2>2. /\ call.todo # << >>
        /\ Head(call.todo).do \in {"refresh", "forceRefresh", "setCapacity", "setCapacityFor"}
    BY <1>0, <2>1
  <2>3. dma' = dma /\ rt' = rt
    BY <1>4 DEF RefreshShrinks, RefreshKeeps, SetCapacity
  <2>4. Head(call.todo).do \in BusyDo \/ Steps
    BY <1>0, <1>1, <1>4 DEF RefreshShrinks, RefreshKeeps, SetCapacity, Steps, AtRefresh
  <2> QED BY <2>2, <2>3, <2>4 DEF Turn
<1>5. ASSUME \/ RefreshSkipped \/ RefreshFails \/ CheckCapacity \/ FailTask \/ Catching
             \/ PollNotReady \/ CheckSources \/ FinishLease
      PROVE  Turn
  <2>1. \/ At("refresh") \/ At("forceRefresh") \/ At("checkCapacity") \/ At("fail") \/ At("catch")
        \/ At("poll") \/ At("checkSources") \/ At("finishLease")
    BY <1>5 DEF RefreshSkipped, RefreshFails, CheckCapacity, FailTask, Catching, PollNotReady,
       CheckSources, FinishLease, AtRefresh
  <2>2. call.todo # << >> /\ Head(call.todo).do # "forEach"
    BY <1>0, <2>1
  <2>3. dma' = dma /\ Steps
    BY <1>5 DEF RefreshSkipped, RefreshFails, CheckCapacity, FailTask, Catching, PollNotReady,
       CheckSources, FinishLease, Steps
  <2>4. rt' \in {rt, Poisoned, [rt EXCEPT !.blocked = TRUE]}
    BY <1>5 DEF RefreshSkipped, RefreshFails, CheckCapacity, FailTask, Catching, PollNotReady,
       CheckSources, FinishLease
  <2> QED BY <2>2, <2>3, <2>4, KeepsAsync DEF Turn
<1>6. ASSUME EnsureWorkspace \/ Rollback \/ DropSpills \/ Retire PROVE Turn
  <2>1. At("workspace") \/ At("rollback") \/ At("dropSpills") \/ At("poll") \/ At("wait")
    BY <1>6 DEF EnsureWorkspace, Rollback, DropSpills, Retire, AtRetire
  <2>2. call.todo # << >> /\ Head(call.todo).do # "forEach"
    BY <1>0, <2>1
  <2>4. Head(call.todo).do \in BusyDo \/ Ending
    BY <1>0, <1>1, <1>6 DEF EnsureWorkspace, Ending
  <2>3. dma' = dma /\ rt' \in {rt, Poisoned}
    BY <1>6 DEF EnsureWorkspace, Rollback, DropSpills, Retire
  <2> QED BY <2>2, <2>3, <2>4, KeepsAsync DEF Turn
<1>7. ASSUME Arm \/ RetireUnknown PROVE Turn
  <2>1. At("arm") \/ At("poll") \/ At("wait")
    BY <1>7 DEF Arm, RetireUnknown, AtRetire
  <2>2. call.todo # << >> /\ Head(call.todo).do \in {"arm", "poll", "wait"}
    BY <1>0, <2>1
  <2>3. dma' = dma /\ (Goto(<< >>) \/ \E status : Fail(status))
    BY <1>7 DEF Arm, RetireUnknown
  <2> QED BY <2>2, <2>3 DEF Turn, Quits, Steps
<1>8. ASSUME Abandon PROVE Turn
  <2>1. At("abandon") /\ Continue /\ dma' = dma
    BY <1>8 DEF Abandon
  <2>2. call.todo # << >> /\ Head(call.todo).do = "abandon"
    BY <1>0, <2>1
  <2> QED BY <2>1, <2>2 DEF Turn, Quits, Steps
<1>9. ASSUME NEW a \in Alloc, EraseAllocation(a) PROVE Turn
  <2>1. At("erase") /\ dma' = dma /\ rt' = rt /\ Steps
    BY <1>9 DEF EraseAllocation, Steps
  <2>2. call.todo # << >> /\ Head(call.todo).do = "erase"
    BY <1>0, <2>1
  <2> QED BY <2>1, <2>2 DEF Turn
<1>10. ASSUME NEW FA, NEW FF, CloseEnd(FA, FF) PROVE Turn
  <2>1. At("closeEnd") /\ dma' = dma /\ Goto(<< >>)
    BY <1>10 DEF CloseEnd
  <2>2. call.todo # << >> /\ Head(call.todo).do = "closeEnd"
    BY <1>0, <2>1
  <2> QED BY <2>1, <2>2 DEF Turn, Quits
<1> QED BY <1>2, <1>3, <1>4, <1>5, <1>6, <1>7, <1>8, <1>9, <1>10

LEMMA WorkerTurns ==
  ASSUME TypeInv, Worker
  PROVE  Turn
<1>1. CASE \E k \in Key :
             \/ \E f \in Frame : \/ MapRefused(k, f) \/ MapFails(k, f) \/ MapRollbackFails(k, f)
                                 \/ MapAndSubmit(k, f) \/ MapAndSubmitFails(k, f)
                                 \/ MapWithoutSource(k, f)
             \/ H2dDone(k) \/ TransferStuck(k) \/ RetireFailedH2d(k)
             \/ EnsureHit(k) \/ EnsureMiss(k)
             \/ WritebackSkipped(k) \/ StartD2h(k) \/ D2hDone(k)
             \/ UnmapSkipped(k) \/ Unmap(k) \/ DropDirty(k)
             \/ PrepareUse(k) \/ Pin(k)
             \/ PutHost(k) \/ GetHost(k) \/ Invalidate(k)
  BY <1>1, KeyTurns
<1> QED BY <1>1, OtherTurns DEF Worker

LEMMA HaltedWorker ==
  ASSUME TypeInv, CallInv, NoneStuck, Halted, Worker
  PROVE  Halted'
<1> SUFFICES ASSUME rt'.asyncQ, NEW w \in Work(call'.todo), w.do \in BusyDo
             PROVE  FALSE
  BY DEF Halted
<1>1. Turn
  BY WorkerTurns
<1>2. call.todo # << >> /\ Head(call.todo).do # "forEach" /\ call \in CallRecord
  BY <1>1 DEF Turn, TypeInv, CallOK
<1>3. ListOK(call.op, Touched, call.todo)
  BY DEF CallInv, Proper
<1>4. /\ Head(call.todo) \in Tasks
      /\ Work(call.todo) = WorkOf(Head(call.todo)) \union Work(Tail(call.todo))
      /\ \A v \in WorkOf(Head(call.todo)), u \in Work(Tail(call.todo)) : InOrder(call.op, v, u)
  BY <1>2, <1>3, TailOK
<1>5. PICK v \in WorkOf(Head(call.todo)) : v.do = Head(call.todo).do
  BY <1>2, <1>4, HeadWork
<1>6. Continue => w \in Work(Tail(call.todo))
  <2> SUFFICES ASSUME Continue PROVE w \in Work(Tail(call.todo))
    OBVIOUS
  <2>1. Leads(Tail(call.todo))
    BY <1>2, Continues
  <2> QED BY <1>2, <2>1, Behind
<1>7. \A status : Fail(status) => w \in Work(Tail(call.todo)) /\ Head(call.todo).do = "unmapIfClean"
  <2> SUFFICES ASSUME NEW status, Fail(status)
               PROVE  w \in Work(Tail(call.todo)) /\ Head(call.todo).do = "unmapIfClean"
    OBVIOUS
  <2>1. Fails
    BY <1>2, FailOK
  <2>2. call' # NoCall
    BY IdleProper
  <2> QED BY <2>1, <2>2 DEF Fails, BusyDo
<1>8. ~Goto(<< >>)
  BY IdleProper DEF Goto
<1>9. ~Quits
  <2>1. ASSUME At("abandon"), Continue PROVE FALSE
    <3>1. v.do = "abandon" /\ w \in Work(Tail(call.todo)) /\ InOrder(call.op, v, w)
      BY <1>4, <1>5, <1>6, <2>1 DEF At
    <3> QED BY <3>1 DEF InOrder, Catch, BusyDo
  <2> QED BY <1>7, <1>8, <2>1 DEF Quits
<1>10. rt.asyncQ /\ rt.poisoned /\ \A u \in Work(call.todo) : u.do \notin BusyDo
  BY <1>1, <1>9 DEF Turn, Halted, NoneStuck
<1>11. Head(call.todo).do \notin BusyDo /\ \A u \in Work(Tail(call.todo)) : u.do \notin BusyDo
  BY <1>4, <1>5, <1>10
<1>12. Ending
  BY <1>1, <1>6, <1>7, <1>8, <1>11 DEF Turn, Steps
<1>13. CASE Rollback
  BY <1>13, RollbackCall DEF BusyDo, CopyingDo
<1>14. CASE DropSpills
  BY <1>8, <1>10, <1>14 DEF DropSpills
<1>15. CASE Retire
  BY <1>7, <1>11, <1>15, RetireCall, IdleProper DEF BusyDo, CopyingDo, Fails
<1>16. CASE \E f \in Frame : CloseFrame(f)
  BY <1>6, <1>10, <1>11, <1>16 DEF CloseFrame
<1> QED BY <1>12, <1>13, <1>14, <1>15, <1>16 DEF Ending

(* A client of a runtime that lost track of a copy may only close it, or   *)
(* finish its lease.                                                       *)
LEMMA HaltedClient ==
  ASSUME TypeInv, CallInv, NoneStuck, LateCalls \subseteq {"poll", "wait"}, Client
  PROVE  Halted'
<1> SUFFICES ASSUME rt'.asyncQ, NEW w \in Work(call'.todo), w.do \in BusyDo
             PROVE  FALSE
  BY DEF Halted
<1>1. call.todo = << >> /\ Work(call.todo) = {}
  BY Idle DEF Client
<1>2. call' # call
  BY <1>1
<1>3. \/ \E a \in Alloc :
           \/ Release(a)
           \/ \E plan \in RangePlans(a, {"full"}) : DiscardDead(a, plan)
           \/ \E plan \in RangePlans(a, {"full", "part"}), v \in Val : Write(a, plan, v)
           \/ \E plan \in RangePlans(a, {"part"}) : Read(a, plan)
      \/ \E plan \in Plans(LiveKeys, PrefetchModes) : Prefetch(plan)
      \/ \E plan \in Plans(LiveKeys, Mode) : AcquireExternal(plan)
      \/ Poll \/ Wait \/ (\E r \in BOOLEAN : Drain(r)) \/ Close
  BY <1>2 DEF Client, Allocate, Seal, Launch
<1>4. rt' = rt
  BY <1>3 DEF Begin, Release, DiscardDead, Write, Read, Prefetch, AcquireExternal, Poll, Wait,
     Drain, Close
<1>5. rt.poisoned
  BY <1>4 DEF NoneStuck
<1>6. Poll \/ Wait \/ Close
  <2>1. ~Ready /\ \A op \in {"write", "read", "prefetch", "drain"} : ~MayCall(op)
    BY <1>5 DEF Ready, MayCall
  <2> QED BY <1>3, <2>1 DEF Release, DiscardDead, Write, Read, Prefetch, AcquireExternal, Drain
<1>7. w.do \in {"poll", "wait"} \union CloseDo
  BY <1>6, PollWaitCall, CloseCall
<1> QED BY <1>7 DEF BusyDo, CopyingDo, CloseDo

LEMMA HaltedStep ==
  ASSUME TypeInv, CallInv, NoneStuck, LateCalls \subseteq {"poll", "wait"}, Halted, [Next]_vars
  PROVE  Halted'
<1>1. Kernel \/ UNCHANGED vars => call' = call /\ rt' = rt
  BY DEF Kernel, KernelWrites, KernelFinishes, vars
<1>2. Kernel \/ UNCHANGED vars => Halted'
  BY <1>1 DEF Halted
<1> QED BY <1>2, HaltedWorker, HaltedClient DEF Next

(* A copy begins only after the one before it is known to be over. *)
LEMMA OneCopyStep ==
  ASSUME TypeInv, CallInv, CacheInv, Halted, OneCopy, [Next]_vars
  PROVE  OneCopy'
<1>1. Client \/ Kernel \/ UNCHANGED vars => dma' = dma
  BY DEF Client, Kernel, KernelWrites, KernelFinishes, vars, Begin, Allocate, Release, DiscardDead,
     Write, Read, Prefetch, AcquireExternal, Seal, Poll, Wait, Drain, Close, Launch
<1>2. CASE dma' \subseteq dma
  BY <1>2 DEF OneCopy
<1>3. CASE Worker /\ ~(dma' \subseteq dma)
  <2>1. /\ call.todo # << >> /\ Head(call.todo).do # "forEach"
        /\ Head(call.todo).do \in Copier /\ \E d : dma' = dma \union {d}
    BY <1>3, WorkerTurns DEF Turn
  <2>2. /\ Head(call.todo) \in Tasks
        /\ Work(call.todo) = WorkOf(Head(call.todo)) \union Work(Tail(call.todo))
    BY <2>1, TailOK DEF CallInv, Proper
  <2>3. \E v \in Work(call.todo) : v.do = Head(call.todo).do
    BY <2>1, <2>2, HeadWork
  <2>4. ~rt.asyncQ
    BY <2>1, <2>3 DEF Halted, Copier, BusyDo, CopyingDo
  <2>5. dma = {}
    BY <2>1, <2>4 DEF CacheInv, Copies, AtKey, At, Copier
  <2> QED BY <2>1, <2>5 DEF OneCopy
<1> QED BY <1>1, <1>2, <1>3 DEF Next

-----------------------------------------------------------------------------
(* Copies and kernels. *)

(* What a kernel uses is pinned, and a pinned chunk is not in flight. *)
LEMMA OpenKernel ==
  ASSUME TypeInv, CacheInv, UseInv, ~rt.closed
  PROVE  NoCopyUnderKernel
<1> SUFFICES ASSUME gpu.phase = "running", NEW d \in dma, d.key \in gpu.keys PROVE FALSE
  BY DEF NoCopyUnderKernel
<1>1. chunk[d.key].pin > 0 /\ chunk[d.key].state \in InFlight
  BY DEF CacheInv, Copies, UseInv, KernelHolds
<1>2. d.key \in Key
  BY DEF TypeInv, DataInv, TypeOK
<1>3. IsResident(chunk[d.key])
  BY <1>1, <1>2 DEF CacheInv, Mappings, RecordOK
<1> QED BY <1>1, <1>3 DEF IsResident, InFlight

(* A closed runtime begins neither a copy nor a kernel. *)
LEMMA KernelStep ==
  ASSUME TypeInv, CallInv, CacheInv, UseInv, NoCopyUnderKernel, [Next]_vars
  PROVE  NoCopyUnderKernel'
<1>1. TypeInv' /\ CacheInv' /\ UseInv'
  BY StepType, StepMapping
<1>2. CASE ~rt'.closed
  <2>1. (TypeInv /\ CacheInv /\ UseInv /\ ~rt.closed => NoCopyUnderKernel)'
    BY OpenKernel, PTL
  <2> QED BY <1>1, <1>2, <2>1
<1>3. CASE \E FA, FF : CloseEnd(FA, FF)
  <2>1. gpu' = gpu /\ dma' = dma
    BY <1>3 DEF CloseEnd
  <2> QED BY <2>1 DEF NoCopyUnderKernel
<1>4. CASE rt.closed
  <2>1. call.todo = << >>
    BY <1>4 DEF UseInv, Closing
  <2>2. ~Client /\ ~Worker
    <3>1. ~Worker
      BY <2>1, WorkerTurns DEF Turn
    <3> QED BY <1>4, <3>1 DEF Client
  <2>3. gpu \in [phase: {"idle", "running", "finished"}, keys: SUBSET Key,
                 writes: SUBSET Key, unwritten: SUBSET Key]
    BY DEF TypeInv, DataInv, TypeOK
  <2>4. dma' = dma /\ (gpu' = gpu \/ (\E u : gpu' = [gpu EXCEPT !.unwritten = u])
                      \/ gpu' = [gpu EXCEPT !.phase = "finished"])
    BY <2>2 DEF Next, Kernel, KernelWrites, KernelFinishes, vars
  <2>5. gpu'.phase = "running" => gpu.phase = "running" /\ gpu'.keys = gpu.keys
    BY <2>3, <2>4
  <2> QED BY <2>4, <2>5 DEF NoCopyUnderKernel
<1> QED BY <1>2, <1>3, <1>4, StaysOpen

LEMMA InitTransfers == Init => Halted /\ OneCopy /\ NoCopyUnderKernel
<1> SUFFICES ASSUME Init PROVE Halted /\ OneCopy /\ NoCopyUnderKernel
  OBVIOUS
<1>1. ~rt.asyncQ /\ dma = {}
  BY DEF Init
<1> QED BY <1>1 DEF Halted, OneCopy, NoCopyUnderKernel

(* Whatever fails, a staging slot serves one unfinished copy at a time and *)
(* no copy touches a chunk of a running kernel, as long as clients of a    *)
(* poisoned runtime only finish their lease and close it (runtime.cpp,     *)
(* map_and_fill, writeback, wait_event).  With a late prefetch the first   *)
(* half is false: the run ResidencySlotAfterPoison shows it.               *)
THEOREM TransfersStayExclusive ==
  LateCalls \subseteq {"poll", "wait"} => (Spec => []TransfersExclusive)
<1> SUFFICES ASSUME LateCalls \subseteq {"poll", "wait"} PROVE Spec => []TransfersExclusive
  OBVIOUS
<1> DEFINE Inv == /\ TypeInv /\ CallInv /\ CacheInv /\ UseInv
                  /\ Halted /\ OneCopy /\ NoCopyUnderKernel
<1>1. Init => Inv
  BY InitType, InitCall, InitOK, InitTransfers
<1>2. ASSUME Inv, [Next]_vars PROVE Inv'
  <2>1. TypeInv' /\ CallInv' /\ CacheInv' /\ UseInv'
    BY <1>2, StepType, StepCall, StepMapping
  <2>2. Halted'
    BY <1>2, HaltedStep DEF CacheInv
  <2>3. OneCopy' /\ NoCopyUnderKernel'
    BY <1>2, OneCopyStep, KernelStep
  <2> QED BY <2>1, <2>2, <2>3
<1>3. Inv => TransfersExclusive
  BY DEF TransfersExclusive, StagingExclusive, OneCopy
<1> HIDE DEF Inv
<1> QED BY <1>1, <1>2, <1>3, PTL DEF Spec

-----------------------------------------------------------------------------
(* The capacity. *)

(* What is left to do of a shrink: the frames to be emptied and the        *)
(* capacity to be set.                                                     *)
Waiting(s) == {t \in {s[i] : i \in DOMAIN s} : t.do \in ShrinkEnd}

LEMMA WaitingParts ==
  ASSUME NEW p \in Seq(Tasks), NEW s \in Seq(Tasks)
  PROVE  Waiting(p \o s) = Waiting(p) \union Waiting(s)
<1> DEFINE u == p \o s
           All(z) == {z[i] : i \in DOMAIN z}
<1>1. /\ u \in Seq(Tasks) /\ Len(u) = Len(p) + Len(s)
      /\ \A i \in 1..Len(p) + Len(s) : u[i] = IF i <= Len(p) THEN p[i] ELSE s[i - Len(p)]
  BY ConcatProperties
<1> HIDE DEF u
<1>2. /\ DOMAIN p = 1..Len(p) /\ DOMAIN s = 1..Len(s) /\ DOMAIN u = 1..(Len(p) + Len(s))
      /\ Len(p) \in Nat /\ Len(s) \in Nat
  BY <1>1
<1>3. \A i \in DOMAIN u : (i \in DOMAIN p /\ u[i] = p[i])
                          \/ (i - Len(p) \in DOMAIN s /\ u[i] = s[i - Len(p)])
  BY <1>1, <1>2
<1>4. \A i \in DOMAIN p : i \in DOMAIN u /\ u[i] = p[i]
  BY <1>1, <1>2
<1>5. \A i \in DOMAIN s : i + Len(p) \in DOMAIN u /\ u[i + Len(p)] = s[i]
  BY <1>1, <1>2
<1>6. All(u) = All(p) \union All(s)
  BY <1>3, <1>4, <1>5
<1>7. Waiting(u) = Waiting(p) \union Waiting(s)
  BY <1>6 DEF Waiting
<1> QED BY <1>7 DEF u

LEMMA WaitingTail ==
  ASSUME NEW s \in Seq(Tasks), s # << >>
  PROVE  Waiting(s) = {t \in {Head(s)} : t.do \in ShrinkEnd} \union Waiting(Tail(s))
<1>1. /\ Len(s) \in Nat \ {0} /\ DOMAIN s = 1..Len(s) /\ Head(s) = s[1]
      /\ Tail(s) \in Seq(Tasks) /\ Len(Tail(s)) = Len(s) - 1
      /\ \A i \in 1..(Len(s) - 1) : Tail(s)[i] = s[i + 1]
  BY EmptySeq, HeadTailProperties
<1> DEFINE u == Tail(s)
           All(z) == {z[i] : i \in DOMAIN z}
<1>2. DOMAIN u = 1..(Len(s) - 1) /\ \A i \in DOMAIN u : i + 1 \in DOMAIN s /\ u[i] = s[i + 1]
  BY <1>1
<1> HIDE DEF u
<1>3. \A i \in DOMAIN s : i = 1 \/ (i - 1 \in DOMAIN u /\ u[i - 1] = s[i])
  BY <1>1, <1>2
<1>4. 1 \in DOMAIN s
  BY <1>1
<1>5. All(s) = {Head(s)} \union All(u)
  BY <1>1, <1>2, <1>3, <1>4
<1> QED BY <1>5 DEF Waiting, u

LEMMA WaitingEmpty == Waiting(<< >>) = {}
BY DEF Waiting

LEMMA WaitingWork ==
  ASSUME NEW s \in Seq(Tasks), NEW t \in Waiting(s)
  PROVE  \E w \in Work(s) : w.do = t.do
<1>1. PICK i \in DOMAIN s : t = s[i] /\ t.do \in ShrinkEnd
  BY DEF Waiting
<1>2. t \in Tasks /\ t.do # "forEach"
  BY <1>1, ElementOfSeq DEF ShrinkEnd
<1> QED BY <1>1, <1>2, HeadWork, InWork

(* Unrolling a loop leaves them alone. *)
LEMMA WaitingUnrolled ==
  ASSUME NEW op, NEW K, NEW s, ListOK(op, K, s), s # << >>
  PROVE  Waiting(Unrolled(s)) = Waiting(s)
<1>1. CASE Head(s).do # "forEach"
  BY <1>1 DEF Unrolled
<1>2. CASE Head(s).do = "forEach"
  <2> DEFINE loop == Head(s)
             p == Iteration(loop)
             t == Tail(s)
  <2>1. s \in Seq(Tasks) /\ t \in Seq(Tasks) /\ loop \in Tasks /\ ListOK(op, K, t)
    BY TailOK DEF ListOK
  <2>2. loop \in Loops /\ \A w \in WorkOf(loop) : w.do \in LoopDo /\ Permitted(op, K, w)
    BY <1>2, <2>1, TailOK, WorkOfTask DEF ListOK
  <2>3. loop.steps \in LoopForms
    <3>1. 1 \in DOMAIN s /\ loop = s[1]
      BY EmptySeq DEF ListOK
    <3> QED BY <1>2, <3>1 DEF ListOK, KnownLoops
  <2> HIDE DEF loop
  <2>4. ListOK(op, K, p) /\ Work(p) = WorkOf(loop)
    BY <2>2, <2>3, IterationOK
  <2>5. p \in Seq(Tasks)
    BY <2>4 DEF ListOK
  <2>6. Waiting(p) = {}
    <3> SUFFICES ASSUME NEW v \in Waiting(p) PROVE FALSE
      OBVIOUS
    <3> HIDE DEF p
    <3>1. \E w \in Work(p) : w.do = v.do
      BY <2>5, WaitingWork
    <3>2. v.do \in ShrinkEnd
      BY DEF Waiting
    <3> QED BY <2>2, <2>4, <3>1, <3>2 DEF ShrinkEnd, LoopDo
  <2>7. Unrolled(s) = p \o t
    BY <1>2 DEF Unrolled, loop
  <2>8. loop.do = "forEach"
    BY <1>2 DEF loop
  <2> HIDE DEF p, t
  <2>9. Waiting(s) = {v \in {loop} : v.do \in ShrinkEnd} \union Waiting(t)
    BY <2>1, WaitingTail DEF t, loop
  <2>10. Waiting(p \o t) = Waiting(p) \union Waiting(t)
    BY <2>1, <2>5, WaitingParts
  <2>11. {v \in {loop} : v.do \in ShrinkEnd} = {}
    BY <2>8 DEF ShrinkEnd
  <2> QED BY <2>6, <2>7, <2>9, <2>10, <2>11
<1> QED BY <1>1, <1>2

LEMMA WaitingGoto ==
  ASSUME call \in CallRecord, NEW s, ListOK(call.op, Touched, s), Goto(s)
  PROVE  Waiting(call'.todo) = Waiting(s)
<1>1. CASE s = << >>
  <2>1. call'.todo = << >>
    BY <1>1, IdleProper DEF Goto
  <2> QED BY <1>1, <2>1
<1>2. CASE s # << >>
  <2>1. call' = [call EXCEPT !.todo = Unrolled(s)]
    BY <1>2 DEF Goto
  <2>2. call'.todo = Unrolled(s)
    BY <2>1 DEF CallRecord
  <2> QED BY <1>2, <2>2, WaitingUnrolled
<1> QED BY <1>1, <1>2

(* What is put in front of the list comes next. *)
LEMMA PushedFirst ==
  ASSUME call \in CallRecord, NEW p \in Seq(Tasks), NEW s \in Seq(Tasks), p # << >>,
         Head(p).do # "forEach", Goto(p \o s)
  PROVE  /\ call'.todo = p \o s /\ call'.todo # << >> /\ Head(call'.todo) = Head(p)
         /\ Waiting(call'.todo) = Waiting(p) \union Waiting(s)
<1> DEFINE u == p \o s
<1>1. /\ u \in Seq(Tasks) /\ Len(u) = Len(p) + Len(s)
      /\ Len(p) \in Nat \ {0} /\ Len(s) \in Nat /\ u[1] = p[1]
  BY ConcatProperties, EmptySeq
<1>2. Waiting(u) = Waiting(p) \union Waiting(s)
  BY WaitingParts
<1>3. Goto(u)
  OBVIOUS
<1> HIDE DEF u
<1>4. u # << >> /\ Head(u) = Head(p)
  BY <1>1
<1>5. call' = [call EXCEPT !.todo = u]
  BY <1>3, <1>4 DEF Goto, Unrolled
<1>6. call'.todo = u
  BY <1>5 DEF CallRecord
<1> QED BY <1>2, <1>4, <1>6 DEF u

(* No handle is made for it and nothing is mapped on it. *)
Bare(f) == ~Mapped(f) /\ ~frame[f].handle

(* A shrink sets the capacity when the frames it takes away are bare. *)
EmptiesFirst == \A t \in Waiting(call.todo) : t.do # "dropFrame" =>
  \A f \in Frame : f >= t.frame => Bare(f) \/ FrameTask("dropFrame", f) \in Waiting(call.todo)
CreatesWithin == \A f \in Frame : AtFrame("create", f) => f < capacity
CapacityKept == CapacityBoundsResidency /\ CreatesWithin /\ EmptiesFirst

(* Nothing of a shrink waits, and no handle is made next. *)
Drifts ==
  /\ \A w \in Work(call'.todo) : w.do \notin ShrinkEnd
  /\ call'.todo # << >> => Head(call'.todo).do # "create"

LEMMA DriftsKeep ==
  ASSUME TypeInv', Drifts
  PROVE  (CreatesWithin /\ EmptiesFirst)'
<1>1. call'.todo \in Seq(Tasks)
  BY DEF TypeInv, CallOK, CallRecord
<1>2. \A t \in Waiting(call'.todo) : t.do \in ShrinkEnd /\ \E w \in Work(call'.todo) : w.do = t.do
  BY <1>1, WaitingWork DEF Waiting
<1>3. Waiting(call'.todo) = {}
  BY <1>2 DEF Drifts
<1> QED BY <1>3 DEF Drifts, CreatesWithin, EmptiesFirst, AtFrame, At

LEMMA NoCreate ==
  ASSUME CallInv', call'.todo # << >>, \A w \in Work(call'.todo) : w.do # "create"
  PROVE  Head(call'.todo).do # "create"
<1> SUFFICES ASSUME Head(call'.todo).do = "create" PROVE FALSE
  OBVIOUS
<1>1. ListOK(call'.op, Touched', call'.todo)
  BY DEF CallInv, Proper
<1>2. \E v \in Work(call'.todo) : v.do = "create"
  BY <1>1, HeadInWork
<1> QED BY <1>2

LEMMA WorkDrifts ==
  ASSUME CallInv', \A w \in Work(call'.todo) : w.do \notin ShrinkEnd \union {"create"}
  PROVE  Drifts
BY NoCreate DEF Drifts

(* Only tasks of the shrink itself may wait in front of its last task. *)
LEMMA RestDrifts ==
  ASSUME call \in CallRecord, CallInv, call.todo # << >>, Head(call.todo).do # "forEach"
  PROVE  /\ \A w \in Work(Tail(call.todo)) : w.do # "create"
         /\ Head(call.todo).do \notin ShrinkDo =>
              /\ \A w \in Work(Tail(call.todo)) : w.do \notin ShrinkEnd
              /\ \A w \in Work(call.todo) : w.do \in ShrinkEnd => w.do = Head(call.todo).do
<1> DEFINE h == Head(call.todo)
<1>1. ListOK(call.op, Touched, call.todo)
  BY DEF CallInv, Proper
<1>2. /\ h \in Tasks /\ Work(call.todo) = WorkOf(h) \union Work(Tail(call.todo))
      /\ \A v \in WorkOf(h), w \in Work(Tail(call.todo)) : InOrder(call.op, v, w)
  BY <1>1, TailOK
<1>3. \A v \in WorkOf(h) : v.do = h.do
  BY <1>2, WorkOfTask
<1>4. \E v \in WorkOf(h) : v.do = h.do
  BY <1>2, HeadWork
<1> HIDE DEF h
<1>5. \A w \in Work(Tail(call.todo)) : w.do # "create" /\ (w.do \in ShrinkEnd => h.do \in ShrinkDo)
  BY <1>2, <1>4 DEF InOrder, FirstDo
<1> QED BY <1>2, <1>3, <1>5 DEF h

LEMMA FailDrifts ==
  ASSUME call \in CallRecord, CallInv, CallInv', call.todo # << >>, Head(call.todo).do # "forEach",
         Fails \/ \E status : Fail(status)
  PROVE  Drifts
<1>1. Fails
  BY FailOK
<1>2. \A w \in Work(Tail(call.todo)) : w.do # "create"
  BY RestDrifts
<1>3. \A w \in Work(call'.todo) : w.do \notin ShrinkEnd \union {"create"}
  BY <1>1, <1>2, IdleProper DEF Fails
<1> QED BY <1>3, WorkDrifts

(* What may become of the list after any other task. *)
Passes ==
  \/ Steps \/ Goto(<< >>) \/ Fails \/ Leads(Tail(call.todo))
  \/ Detour /\ Head(call.todo).do \notin {"ensure", "refresh", "forceRefresh"} \union ShrinkEnd
  \/ \E t : Awaiting(t)
  \/ /\ call'.todo # << >>
     /\ \A w \in Work(call'.todo) : w \in Work(Tail(call.todo)) \/ w.do \notin ShrinkEnd \union {"create"}

LEMMA PassDrifts ==
  ASSUME TypeInv, CallInv, CallInv', call.todo # << >>,
         Head(call.todo).do \notin ShrinkDo \union {"forEach"},
         Passes
  PROVE  Drifts
<1>1. call \in CallRecord
  BY DEF TypeInv, CallOK
<1>2. /\ \A w \in Work(Tail(call.todo)) : w.do \notin ShrinkEnd \union {"create"}
      /\ \A w \in Work(call.todo) : w.do \in ShrinkEnd => w.do = Head(call.todo).do
  BY <1>1, RestDrifts
<1>3. CASE Leads(Tail(call.todo)) \/ Continue
  <2>1. Leads(Tail(call.todo))
    BY <1>1, <1>3, Continues
  <2>2. Work(call'.todo) \subseteq Work(Tail(call.todo))
    BY <2>1, IdleProper DEF Leads
  <2> QED BY <1>2, <2>2, WorkDrifts
<1>4. CASE Fails \/ \E status : Fail(status)
  BY <1>1, <1>4, FailDrifts
<1>5. CASE Goto(<< >>)
  BY <1>5, IdleProper, WorkDrifts DEF Goto
<1>6. CASE Detour /\ Head(call.todo).do \notin {"ensure", "refresh", "forceRefresh"} \union ShrinkEnd
  BY <1>2, <1>6 DEF Detour, Drifts, AtRefresh, At
<1>7. CASE \E t : Awaiting(t)
  BY <1>2, <1>7, WorkDrifts DEF Awaiting, CopyDo, ShrinkEnd
<1>8. CASE \A w \in Work(call'.todo) : w \in Work(Tail(call.todo)) \/ w.do \notin ShrinkEnd \union {"create"}
  BY <1>2, <1>8, WorkDrifts
<1> QED BY <1>3, <1>4, <1>5, <1>6, <1>7, <1>8 DEF Passes, Steps

(* Steps that take no frame out of the spare ones beyond the capacity. *)
LEMMA PassKeeps ==
  ASSUME TypeInv, TypeInv', CallInv, CallInv', CapacityKept, call.todo # << >>,
         Head(call.todo).do \notin ShrinkDo \union {"forEach"}, Passes,
         capacity' = capacity, \A f \in Frame : Bare(f) => Bare(f)' \/ f < capacity
  PROVE  CapacityKept'
<1>1. (CreatesWithin /\ EmptiesFirst)'
  BY PassDrifts, DriftsKeep
<1>2. \A f \in Frame : f < capacity => ~(f >= capacity)
  BY FrameTypes, RuntimeAssumption DEF TypeInv, DataInv, TypeOK
<1>3. CapacityBoundsResidency'
  BY <1>2 DEF CapacityKept, CapacityBoundsResidency, Bare, Mapped
<1> QED BY <1>1, <1>3 DEF CapacityKept

(* Steps of a shrink, up to its last one. *)
LEMMA SinkKeeps ==
  ASSUME TypeInv, TypeInv', CallInv, CallInv', CapacityKept, call.todo # << >>,
         Head(call.todo).do \in ShrinkDo,
         \/ \E status : Fail(status)
         \/ Continue /\ \A f \in Frame : AtFrame("dropFrame", f) => Bare(f)'
         \/ /\ Waiting(call'.todo) = Waiting(call.todo)
            /\ call'.todo # << >> => Head(call'.todo).do # "create",
         capacity' = capacity, \A f \in Frame : Bare(f) => Bare(f)'
  PROVE  CapacityKept'
<1>1. call \in CallRecord /\ Head(call.todo).do # "forEach"
  BY DEF TypeInv, CallOK, ShrinkDo
<1>2. CapacityBoundsResidency'
  BY DEF CapacityKept, CapacityBoundsResidency, Bare, Mapped
<1>3. CASE \E status : Fail(status)
  <2>1. (CreatesWithin /\ EmptiesFirst)'
    BY <1>1, <1>3, FailDrifts, DriftsKeep
  <2> QED BY <1>2, <2>1 DEF CapacityKept
<1>4. CASE Continue /\ \A f \in Frame : AtFrame("dropFrame", f) => Bare(f)'
  <2>1. ListOK(call.op, Touched, call.todo) /\ call.todo \in Seq(Tasks)
    BY DEF CallInv, Proper, ListOK
  <2>2. ListOK(call.op, Touched, Tail(call.todo)) /\ Goto(Tail(call.todo))
    BY <1>4, <2>1, TailOK DEF Continue
  <2>3. Waiting(call'.todo) = Waiting(Tail(call.todo))
    BY <1>1, <2>2, WaitingGoto
  <2>4. Waiting(call.todo) = {t \in {Head(call.todo)} : t.do \in ShrinkEnd} \union Waiting(Tail(call.todo))
    BY <2>1, WaitingTail
  <2>5. \A f \in Frame : FrameTask("dropFrame", f) = Head(call.todo) => Bare(f)'
    <3> SUFFICES ASSUME NEW f \in Frame, FrameTask("dropFrame", f) = Head(call.todo) PROVE Bare(f)'
      OBVIOUS
    <3>1. FrameTask("dropFrame", f).do = "dropFrame" /\ FrameTask("dropFrame", f).frame = f
      BY DEF FrameTask
    <3>2. AtFrame("dropFrame", f)
      BY <3>1 DEF AtFrame, At
    <3> QED BY <1>4, <3>2
  <2>6. EmptiesFirst'
    <3> SUFFICES ASSUME NEW t \in Waiting(Tail(call.todo)), t.do # "dropFrame", NEW f \in Frame, f >= t.frame
                 PROVE  Bare(f)' \/ FrameTask("dropFrame", f) \in Waiting(Tail(call.todo))
      BY <2>3 DEF EmptiesFirst
    <3>1. Bare(f) \/ FrameTask("dropFrame", f) \in Waiting(call.todo)
      BY <2>4 DEF CapacityKept, EmptiesFirst
    <3> QED BY <2>4, <2>5, <3>1
  <2>7. CreatesWithin'
    <3>1. Leads(Tail(call.todo))
      BY <1>1, <1>4, Continues
    <3>2. \A w \in Work(call'.todo) : w.do # "create"
      BY <1>1, <3>1, RestDrifts, IdleProper DEF Leads
    <3> QED BY <3>2, NoCreate DEF CreatesWithin, AtFrame, At
  <2> QED BY <1>2, <2>6, <2>7 DEF CapacityKept
<1>5. CASE /\ Waiting(call'.todo) = Waiting(call.todo)
           /\ call'.todo # << >> => Head(call'.todo).do # "create"
  <2>1. EmptiesFirst'
    BY <1>5 DEF CapacityKept, EmptiesFirst
  <2>2. CreatesWithin'
    BY <1>5 DEF CreatesWithin, AtFrame, At
  <2> QED BY <1>2, <2>1, <2>2 DEF CapacityKept
<1> QED BY <1>3, <1>4, <1>5

LEMMA FrameChange ==
  ASSUME TypeInv, NEW g, NEW r, frame' = [frame EXCEPT ![g] = r],
         g \in Frame /\ Bare(g) => r.key = None /\ ~r.handle
  PROVE  \A f \in Frame : Bare(f) => Bare(f)'
<1>1. frame = [f \in Frame |-> frame[f]]
  BY DEF TypeInv, DataInv, TypeOK
<1>2. \A f \in Frame : frame'[f] = IF f = g THEN r ELSE frame[f]
  BY <1>1
<1> QED BY <1>2 DEF Bare, Mapped

LEMMA QuarantineChange ==
  ASSUME TypeInv, NEW g, frame' = [frame EXCEPT ![g].quarantined = TRUE]
  PROVE  \A f \in Frame : Bare(f) => Bare(f)'
<1> DEFINE r == [frame[g] EXCEPT !.quarantined = TRUE]
<1>1. frame' = [frame EXCEPT ![g] = r]
  OBVIOUS
<1>2. g \in Frame => r.key = frame[g].key /\ r.handle = frame[g].handle
  BY FrameKeys
<1> HIDE DEF r
<1> QED BY <1>1, <1>2, FrameChange DEF Bare, Mapped

LEMMA TakeDownChange ==
  ASSUME TypeInv, CacheInv, UseInv, call.todo # << >>, NEW k \in Key, TakeDown(k) \/ TakeDownFails(k)
  PROVE  \A f \in Frame : Bare(f) => Bare(f)'
<1> DEFINE g == chunk[k].frame
<1>1. CASE TakeDown(k)
  <2> DEFINE r == [frame[g] EXCEPT !.key = None, !.quarantined = FALSE]
  <2>1. frame' = [frame EXCEPT ![g] = r]
    BY <1>1 DEF TakeDown
  <2>2. g \in Frame => r.key = None /\ r.handle = frame[g].handle
    BY FrameKeys
  <2> HIDE DEF r, g
  <2> QED BY <2>1, <2>2, FrameChange DEF Bare
<1>2. CASE TakeDownFails(k)
  <2>1. PICK kept \in BOOLEAN : frame' = [frame EXCEPT ![g] = [@ EXCEPT !.handle = kept, !.quarantined = TRUE]]
    BY <1>2 DEF TakeDownFails
  <2> DEFINE r == [frame[g] EXCEPT !.handle = kept, !.quarantined = TRUE]
  <2>2. frame' = [frame EXCEPT ![g] = r]
    BY <2>1
  <2>3. g \in Frame => frame[g].key = k
    BY InCall DEF CacheInv, Mappings, Links
  <2>4. g \in Frame => ~Bare(g)
    BY <2>3, FrameKeys DEF Bare, Mapped
  <2> HIDE DEF r, g
  <2> QED BY <2>2, <2>4, FrameChange
<1> QED BY <1>1, <1>2

LEMMA StepsKeep ==
  ASSUME TypeInv, TypeInv', CallInv, CallInv', CapacityKept, call.todo # << >>, Steps,
         Head(call.todo).do \notin {"forEach", "dropFrame"},
         capacity' = capacity, \A f \in Frame : Bare(f) => Bare(f)'
  PROVE  CapacityKept'
<1>1. \A f \in Frame : ~AtFrame("dropFrame", f)
  BY DEF AtFrame, At
<1>2. CASE Head(call.todo).do \in ShrinkDo
  BY <1>1, <1>2, SinkKeeps DEF Steps
<1>3. CASE Head(call.todo).do \notin ShrinkDo
  BY <1>3, PassKeeps DEF Passes
<1> QED BY <1>2, <1>3

LEMMA MapKeeps ==
  ASSUME TypeInv, TypeInv', CallInv, CallInv', CapacityKept, NEW k \in Key, NEW f \in Frame,
         \/ MapRefused(k, f) \/ MapFails(k, f) \/ MapRollbackFails(k, f)
         \/ MapAndSubmit(k, f) \/ MapAndSubmitFails(k, f) \/ MapWithoutSource(k, f)
  PROVE  CapacityKept'
<1>1. AtKey("map", k) /\ capacity' = capacity
  BY DEF MapRefused, MapFails, MapRollbackFails, MapAndSubmit, MapAndSubmitFails, MapWithoutSource,
     MapFrame
<1>2. call.todo # << >> /\ Head(call.todo).do = "map"
  BY <1>1 DEF AtKey, At
<1>3. Passes
  <2>1. \/ \E status : Fail(status)
        \/ Push(<<KeyTask("h2d", k)>>)
        \/ Push(<<KeyTask("retireH2d", k), KeyTask("unmap", k), Task("fail")>>)
    BY DEF MapRefused, MapFails, MapRollbackFails, MapAndSubmit, MapAndSubmitFails, MapWithoutSource
  <2> QED BY <1>1, <2>1, MapCalls DEF Passes, Steps
<1>4. \/ frame' = frame
      \/ /\ frame[f].handle
         /\ \E r : frame' = [frame EXCEPT ![f] = r]
  <2>1. MapRefused(k, f) \/ MapFails(k, f) => frame' = frame
    BY DEF MapRefused, MapFails
  <2>2. MapRollbackFails(k, f) => frame[f].handle /\ \E r : frame' = [frame EXCEPT ![f] = r]
    BY DEF MapRollbackFails, CanMap
  <2>3. MapAndSubmit(k, f) \/ MapWithoutSource(k, f) => frame[f].handle /\ \E r : frame' = [frame EXCEPT ![f] = r]
    <3> SUFFICES ASSUME MapAndSubmit(k, f) \/ MapWithoutSource(k, f)
                 PROVE  frame[f].handle /\ \E r : frame' = [frame EXCEPT ![f] = r]
      OBVIOUS
    <3>1. frame[f].handle /\ frame' = [frame EXCEPT ![f] = [frame[f] EXCEPT !.key = k]]
      BY DEF MapAndSubmit, MapWithoutSource, CanMap
    <3> QED BY <3>1
  <2>4. MapAndSubmitFails(k, f) => frame[f].handle /\ \E r : frame' = [frame EXCEPT ![f] = r]
    <3> SUFFICES ASSUME MapAndSubmitFails(k, f)
                 PROVE  frame[f].handle /\ \E r : frame' = [frame EXCEPT ![f] = r]
      OBVIOUS
    <3>1. frame[f].handle /\ frame' = [frame EXCEPT ![f] = [frame[f] EXCEPT !.key = k, !.quarantined = TRUE]]
      BY DEF MapAndSubmitFails, CanMap
    <3> QED BY <3>1
  <2> QED BY <2>1, <2>2, <2>3, <2>4
<1>5. \A g \in Frame : Bare(g) => Bare(g)'
  <2>1. CASE frame' = frame
    BY <2>1 DEF Bare, Mapped
  <2>2. CASE frame[f].handle /\ \E r : frame' = [frame EXCEPT ![f] = r]
    <3>1. ~Bare(f)
      BY <2>2 DEF Bare
    <3> QED BY <2>2, <3>1, FrameChange
  <2> QED BY <1>4, <2>1, <2>2
<1> QED BY <1>1, <1>2, <1>3, <1>5, PassKeeps DEF ShrinkDo

LEMMA EnsureMissKeeps ==
  ASSUME TypeInv, TypeInv', CallInv, CallInv', CapacityKept, NEW k \in Key, EnsureMiss(k)
  PROVE  CapacityKept'
<1>1. /\ call \in CallRecord /\ call.todo # << >> /\ Head(call.todo).do = "ensure"
      /\ frame' = frame /\ capacity' = capacity
  BY DEF EnsureMiss, AtKey, At, TypeInv, CallOK
<1>2. \A w \in Work(call'.todo) : w.do \notin ShrinkEnd
  <2>1. \A w \in Work(call.todo) : w.do \notin ShrinkEnd
    BY <1>1, RestDrifts DEF ShrinkDo, ShrinkEnd
  <2>2. CASE Detour
    BY <1>1, <2>1, <2>2 DEF Detour, AtRefresh, At
  <2>3. CASE Fails
    BY <2>3, IdleProper DEF Fails
  <2> QED BY <2>2, <2>3, EnsureMissCall
<1>3. ASSUME Head(call'.todo).do = "create", call'.todo # << >>, ~Fail("pressure")
      PROVE  \E f \in Creatable : Head(call'.todo) = FrameTask("create", f)
  <2>1. Tail(call.todo) \in Seq(Tasks)
    BY <1>1, TailOK DEF CallInv, Proper, ListOK
  <2>2. ASSUME NEW a \in Tasks, NEW p \in Seq(Tasks), p # << >>, Head(p) = a, a.do # "forEach", Push(p)
        PROVE  Head(call'.todo) = a
    BY <1>1, <2>1, <2>2, PushedFirst DEF Push
  <2>3. CASE Reusable # {}
    <3> DEFINE t == MapTask(k, Least(Reusable))
    <3>1. t \in Tasks /\ t.do = "map" /\ Push(<<t>>)
      <4>1. Reusable \in SUBSET Nat /\ Reusable \subseteq Frame
        BY FrameTypes DEF Reusable, Active
      <4>2. Least(Reusable) \in Frame
        BY <2>3, <4>1, LeastElement
      <4> QED BY <2>3, <4>2, TaskTypes DEF EnsureMiss, Tasks, MapTask
    <3> HIDE DEF t
    <3>2. <<t>> \in Seq(Tasks) /\ <<t>> # << >> /\ Head(<<t>>) = t
      BY <3>1
    <3>3. Head(call'.todo) = t
      BY <2>2, <3>1, <3>2
    <3> QED BY <1>3, <3>1, <3>3
  <2>4. CASE Reusable = {} /\ Creatable # {}
    <3> DEFINE f == Least(Creatable)
               a == FrameTask("create", f)
               t == MapTask(k, f)
    <3>1. f \in Creatable /\ f \in Frame
      <4>1. Creatable \in SUBSET Nat /\ Creatable \subseteq Frame
        BY FrameTypes DEF Creatable, Active
      <4> QED BY <2>4, <4>1, LeastElement
    <3>2. a \in Tasks /\ a.do = "create" /\ t \in Tasks /\ Push(<<a, t>>)
      <4>1. f \in Nat
        BY <3>1, FrameTypes
      <4>2. Push(<<a, t>>)
        BY <2>4 DEF EnsureMiss
      <4> HIDE DEF f
      <4> QED BY <3>1, <4>1, <4>2, TaskTypes DEF Tasks, FrameTask, FrameDo
    <3> HIDE DEF a, t
    <3>3. <<a, t>> \in Seq(Tasks) /\ <<a, t>> # << >> /\ Head(<<a, t>>) = a
      BY <3>2
    <3>4. Head(call'.todo) = a
      BY <2>2, <3>2, <3>3
    <3> QED BY <3>1, <3>4 DEF a
  <2>5. CASE Reusable = {} /\ Creatable = {}
    <3>1. PICK f \in Victims :
            Push((IF chunk[frame[f].key].state = "resident_dirty"
                  THEN <<KeyTask("writeback", frame[f].key)>> ELSE << >>)
                 \o <<KeyTask("unmap", frame[f].key), MapTask(k, f)>>)
      BY <1>3, <2>5 DEF EnsureMiss
    <3> DEFINE v == frame[f].key
               c == MapTask(k, f)
               b == KeyTask("unmap", v)
               a == KeyTask("writeback", v)
    <3>2. f \in Frame /\ v \in Key
      BY DEF Victims, Active, Mapped, TypeInv, DataInv, TypeOK
    <3>3. PICK p \in {<<b, c>>, <<a, b, c>>} : Push(p)
      <4>1. << >> \o <<b, c>> = <<b, c>> /\ <<a>> \o <<b, c>> = <<a, b, c>>
        BY PutTogether
      <4>2. PICK q \in {<< >>, <<a>>} : Push(q \o <<b, c>>)
        BY <3>1
      <4> QED BY <4>1, <4>2
    <3>4. /\ a \in Tasks /\ a.do = "writeback" /\ b \in Tasks /\ b.do = "unmap" /\ c \in Tasks
      BY <3>2, TaskTypes, WorkFields DEF Tasks, KeyDo
    <3> HIDE DEF a, b, c
    <3>5. p \in Seq(Tasks) /\ p # << >> /\ Head(p) \in {a, b}
      <4>1. CASE p = <<b, c>>
        BY <3>4, <4>1
      <4>2. CASE p = <<a, b, c>>
        BY <3>4, <4>2
      <4> QED BY <3>3, <4>1, <4>2
    <3>6. Head(call'.todo) \in {a, b}
      BY <2>2, <3>3, <3>4, <3>5
    <3> QED BY <1>3, <3>4, <3>6
  <2> QED BY <2>3, <2>4, <2>5
<1>4. CASE Fail("pressure")
  <2>1. Drifts
    BY <1>1, <1>4, FailDrifts
  <2>2. (CreatesWithin /\ EmptiesFirst)'
    BY <2>1, DriftsKeep
  <2> QED BY <1>1, <2>2 DEF CapacityKept, CapacityBoundsResidency, Mapped
<1>5. CASE ~Fail("pressure")
  <2>1. CreatesWithin'
    <3> SUFFICES ASSUME NEW f \in Frame, AtFrame("create", f)' PROVE f < capacity
      BY <1>1 DEF CreatesWithin
    <3>1. call'.todo # << >> /\ Head(call'.todo).do = "create" /\ Head(call'.todo).frame = f
      BY DEF AtFrame, At
    <3>2. PICK g \in Creatable : Head(call'.todo) = FrameTask("create", g)
      BY <1>3, <1>5, <3>1
    <3> QED BY <3>1, <3>2 DEF FrameTask, Creatable, Active
  <2>2. EmptiesFirst'
    <3>1. call'.todo \in Seq(Tasks)
      BY DEF TypeInv, CallOK, CallRecord
    <3>2. \A t \in Waiting(call'.todo) : t.do \in ShrinkEnd /\ \E w \in Work(call'.todo) : w.do = t.do
      BY <3>1, WaitingWork DEF Waiting
    <3> QED BY <1>2, <3>2 DEF EmptiesFirst
  <2> QED BY <1>1, <2>1, <2>2 DEF CapacityKept, CapacityBoundsResidency, Mapped
<1> QED BY <1>4, <1>5

(* The frames to be taken away are emptied before the capacity is set. *)
LEMMA RefreshShrinksKeeps ==
  ASSUME TypeInv, TypeInv', CallInv, CallInv', CapacityKept,
         NEW observed \in 0..MaxFrames, RefreshShrinks(observed)
  PROVE  CapacityKept'
<1> DEFINE do == IF At("refresh") THEN "setCapacityFor" ELSE "setCapacity"
           p == DropTail(observed)
           last == FrameTask(do, observed)
           s == p \o <<last>>
           n == capacity - observed
<1>1. /\ call \in CallRecord /\ call.todo # << >>
      /\ Head(call.todo).do \in {"refresh", "forceRefresh"}
      /\ frame' = frame /\ capacity' = capacity
  BY DEF RefreshShrinks, AtRefresh, At, TypeInv, CallOK
<1>2. capacity \in Nat /\ observed \in Nat /\ observed < capacity /\ n \in Nat \ {0}
  BY RuntimeAssumption DEF RefreshShrinks, TypeInv, DataInv, TypeOK
<1>3. CapacityBoundsResidency'
  BY <1>1 DEF CapacityKept, CapacityBoundsResidency, Mapped
<1>4. CASE Fail("pressure")
  <2>1. Drifts
    BY <1>1, <1>4, FailDrifts
  <2> QED BY <1>3, <2>1, DriftsKeep DEF CapacityKept
<1>5. CASE Push(s)
  <2>1. \A i \in 1..n : FrameTask("dropFrame", observed + i - 1) \in Tasks
    BY <1>2, TaskTypes DEF FrameDo, Tasks
  <2>2. last \in Tasks /\ last.do = do /\ last.frame = observed /\ do # "dropFrame" /\ do \in ShrinkEnd
    BY <1>2, TaskTypes DEF FrameDo, Tasks, FrameTask, ShrinkEnd
  <2>3. p \in Seq(Tasks) /\ Len(p) = n /\ \A i \in 1..n : p[i] = FrameTask("dropFrame", observed + i - 1)
    <3>1. p = [i \in 1..n |-> FrameTask("dropFrame", observed + i - 1)]
      BY DEF DropTail
    <3>2. p \in [1..n -> Tasks]
      BY <2>1, <3>1
    <3> HIDE DEF p, n
    <3>3. p \in Seq(Tasks) /\ Len(p) = n
      BY <1>2, <3>2, SeqDef
    <3>4. \A i \in 1..n : p[i] = FrameTask("dropFrame", observed + i - 1)
      BY <3>1
    <3> QED BY <3>3, <3>4
  <2>4. Tail(call.todo) \in Seq(Tasks) /\ Waiting(Tail(call.todo)) = {}
    <3>1. Tail(call.todo) \in Seq(Tasks)
      BY <1>1, TailOK DEF CallInv, Proper, ListOK
    <3>2. \A w \in Work(Tail(call.todo)) : w.do \notin ShrinkEnd
      BY <1>1, RestDrifts DEF ShrinkDo
    <3>3. ASSUME NEW t \in Waiting(Tail(call.todo)) PROVE FALSE
      BY <3>1, <3>2, WaitingWork DEF Waiting
    <3> QED BY <3>1, <3>3
  <2> DEFINE z == <<last>>
  <2>5. z \in Seq(Tasks) /\ Len(z) = 1 /\ z[1] = last /\ DOMAIN z = {1}
    BY <2>2
  <2>6. Waiting(z) = {last}
    BY <2>2, <2>5 DEF Waiting
  <2> HIDE DEF z, last, do, p, n
  <2>7. p # << >> /\ 1 \in DOMAIN p /\ Head(p) = p[1] /\ p[1] = FrameTask("dropFrame", observed + 1 - 1)
        /\ DOMAIN p = 1..n
    BY <1>2, <2>3, EmptySeq
  <2>8. Head(p).do = "dropFrame"
    BY <2>7 DEF FrameTask
  <2>9. s \in Seq(Tasks) /\ s # << >> /\ Head(s) = Head(p) /\ Waiting(s) = Waiting(p) \union {last}
    <3>1. /\ s \in Seq(Tasks) /\ Len(s) = Len(p) + Len(z) /\ s[1] = p[1]
          /\ Len(p) \in Nat \ {0}
      BY <1>2, <2>3, <2>5, <2>7, ConcatProperties DEF z
    <3>2. Waiting(p \o z) = Waiting(p) \union Waiting(z)
      BY <2>3, <2>5, WaitingParts
    <3>3. s = p \o z
      BY DEF z
    <3> HIDE DEF s
    <3> QED BY <2>5, <2>6, <2>7, <3>1, <3>2, <3>3
  <2>10. Goto(s \o Tail(call.todo))
    BY <1>5 DEF Push
  <2> HIDE DEF s
  <2>11. /\ Head(call'.todo) = Head(p)
         /\ Waiting(call'.todo) = Waiting(p) \union {last}
    BY <1>1, <2>4, <2>8, <2>9, <2>10, PushedFirst
  <2>12. CreatesWithin'
    BY <2>8, <2>11 DEF CreatesWithin, AtFrame, At
  <2>13. ASSUME NEW t \in Waiting(p), t.do # "dropFrame" PROVE FALSE
    <3>1. PICK i \in DOMAIN p : t = p[i]
      BY DEF Waiting
    <3>2. t = FrameTask("dropFrame", observed + i - 1)
      BY <2>3, <2>7, <3>1
    <3> QED BY <2>13, <3>2 DEF FrameTask
  <2>14. ASSUME NEW f \in Frame, f >= observed, ~Bare(f)
         PROVE  FrameTask("dropFrame", f) \in Waiting(p)
    <3>1. f \in Nat /\ f < capacity
      BY <1>2, <2>14, FrameTypes DEF CapacityKept, CapacityBoundsResidency, Bare
    <3> DEFINE i == f - observed + 1
    <3>2. i \in 1..n /\ observed + i - 1 = f
      BY <1>2, <2>14, <3>1 DEF n
    <3> HIDE DEF i
    <3>3. i \in DOMAIN p /\ p[i] = FrameTask("dropFrame", f)
      BY <2>3, <2>7, <3>2
    <3>4. FrameTask("dropFrame", f).do \in ShrinkEnd
      BY DEF FrameTask, ShrinkEnd
    <3> QED BY <3>3, <3>4 DEF Waiting
  <2>15. EmptiesFirst'
    <3> SUFFICES ASSUME NEW t \in Waiting(call'.todo), t.do # "dropFrame", NEW f \in Frame, f >= t.frame
                 PROVE  Bare(f)' \/ FrameTask("dropFrame", f) \in Waiting(call'.todo)
      BY DEF EmptiesFirst
    <3>1. t.frame = observed
      BY <2>2, <2>11, <2>13
    <3>2. Bare(f) => Bare(f)'
      BY <1>1 DEF Bare, Mapped
    <3> QED BY <2>11, <2>14, <3>1, <3>2
  <2> QED BY <1>3, <2>12, <2>15 DEF CapacityKept
<1>6. Push(s) \/ Fail("pressure")
  BY DEF RefreshShrinks
<1> QED BY <1>4, <1>5, <1>6

LEMMA RefreshKeepsKeeps ==
  ASSUME TypeInv, TypeInv', CallInv, CallInv', CapacityKept,
         NEW observed \in 0..MaxFrames, RefreshKeeps(observed)
  PROVE  CapacityKept'
<1>1. /\ call.todo # << >> /\ Head(call.todo).do \in {"refresh", "forceRefresh"}
      /\ frame' = frame /\ Steps
  BY DEF RefreshKeeps, AtRefresh, At, Steps
<1>2. capacity' = capacity \/ capacity' = capacity + 2
  BY DEF RefreshKeeps
<1>3. capacity \in Nat /\ Frame \subseteq Nat
  BY FrameTypes, RuntimeAssumption DEF TypeInv, DataInv, TypeOK
<1>4. CapacityBoundsResidency'
  BY <1>1, <1>2, <1>3 DEF CapacityKept, CapacityBoundsResidency, Mapped
<1>5. Drifts
  BY <1>1, PassDrifts DEF Passes, ShrinkDo
<1> QED BY <1>4, <1>5, DriftsKeep DEF CapacityKept

LEMMA SetCapacityKeeps ==
  ASSUME TypeInv, TypeInv', CallInv, CallInv', CapacityKept,
         NEW observed \in 0..MaxFrames, SetCapacity(observed)
  PROVE  CapacityKept'
<1>1. /\ call \in CallRecord /\ call.todo # << >>
      /\ Head(call.todo).do \in {"setCapacity", "setCapacityFor"} /\ Head(call.todo).frame = observed
      /\ frame' = frame /\ capacity' = observed /\ Steps
  BY DEF SetCapacity, AtFrame, At, Steps, TypeInv, CallOK
<1>2. Head(call.todo).do \notin ShrinkDo \union {"forEach", "dropFrame"} /\ Head(call.todo).do \in ShrinkEnd
  BY <1>1 DEF ShrinkDo, ShrinkEnd
<1>3. call.todo \in Seq(Tasks) /\ Tail(call.todo) \in Seq(Tasks)
  BY <1>1, TailOK DEF CallInv, Proper, ListOK
<1>4. Waiting(Tail(call.todo)) = {}
  <2>1. \A w \in Work(Tail(call.todo)) : w.do \notin ShrinkEnd
    BY <1>1, <1>2, RestDrifts
  <2>2. ASSUME NEW t \in Waiting(Tail(call.todo)) PROVE FALSE
    BY <1>3, <2>1, WaitingWork DEF Waiting
  <2> QED BY <2>2
<1>5. Waiting(call.todo) = {Head(call.todo)}
  BY <1>1, <1>2, <1>3, <1>4, WaitingTail
<1>6. \A f \in Frame : f >= observed => Bare(f)
  <2>1. \A f : FrameTask("dropFrame", f).do = "dropFrame"
    BY DEF FrameTask
  <2> QED BY <1>1, <1>2, <1>5, <2>1 DEF CapacityKept, EmptiesFirst
<1>7. CapacityBoundsResidency'
  BY <1>1, <1>6 DEF CapacityBoundsResidency, Bare, Mapped
<1>8. Drifts
  BY <1>1, <1>2, PassDrifts DEF Passes
<1> QED BY <1>7, <1>8, DriftsKeep DEF CapacityKept

LEMMA KeyKeeps ==
  ASSUME TypeInv, TypeInv', CallInv, CallInv', CacheInv, UseInv, CapacityKept, NEW k \in Key,
         \/ H2dDone(k) \/ TransferStuck(k) \/ RetireFailedH2d(k)
         \/ EnsureHit(k) \/ EnsureMiss(k)
         \/ WritebackSkipped(k) \/ StartD2h(k) \/ D2hDone(k)
         \/ UnmapSkipped(k) \/ Unmap(k) \/ DropDirty(k)
         \/ PrepareUse(k) \/ Pin(k)
         \/ PutHost(k) \/ GetHost(k) \/ Invalidate(k)
  PROVE  CapacityKept'
<1>0. \A do : AtKey(do, k) => call.todo # << >> /\ Head(call.todo).do = do
  BY DEF AtKey, At
<1>1. CASE H2dDone(k) \/ TransferStuck(k) \/ EnsureHit(k) \/ WritebackSkipped(k) \/ D2hDone(k)
  <2>1. \/ AtKey("h2d", k) \/ AtKey("d2h", k) \/ AtKey("ensure", k) \/ AtKey("writebackIfDirty", k)
    BY <1>1 DEF H2dDone, TransferStuck, EnsureHit, WritebackSkipped, D2hDone
  <2>2. Steps /\ frame' = frame /\ capacity' = capacity
    BY <1>1 DEF H2dDone, TransferStuck, EnsureHit, WritebackSkipped, D2hDone, Steps
  <2> QED BY <1>0, <2>1, <2>2, StepsKeep DEF Bare, Mapped
<1>2. CASE UnmapSkipped(k) \/ Pin(k) \/ PutHost(k) \/ GetHost(k) \/ Invalidate(k)
  <2>1. \/ AtKey("unmapIfClean", k) \/ AtKey("pin", k) \/ AtKey("put", k) \/ AtKey("get", k)
        \/ AtKey("invalidate", k)
    BY <1>2 DEF UnmapSkipped, Pin, PutHost, GetHost, Invalidate
  <2>2. Steps /\ frame' = frame /\ capacity' = capacity
    BY <1>2 DEF UnmapSkipped, Pin, PutHost, GetHost, Invalidate, Steps
  <2> QED BY <1>0, <2>1, <2>2, StepsKeep DEF Bare, Mapped
<1>3. CASE RetireFailedH2d(k)
  <2>1. call.todo # << >> /\ Head(call.todo).do = "retireH2d" /\ Steps /\ capacity' = capacity
    BY <1>0, <1>3 DEF RetireFailedH2d, Steps
  <2>2. frame' = frame \/ frame' = [frame EXCEPT ![chunk[k].frame].quarantined = TRUE]
    BY <1>3 DEF RetireFailedH2d
  <2>3. \A f \in Frame : Bare(f) => Bare(f)'
    BY <2>2, QuarantineChange DEF Bare, Mapped
  <2> QED BY <2>1, <2>3, StepsKeep
<1>4. CASE Unmap(k) \/ DropDirty(k)
  <2>1. AtKey("unmap", k) \/ AtKey("unmapIfClean", k) \/ AtKey("dropDirty", k)
    BY <1>4 DEF Unmap, DropDirty, AtUnmap
  <2>2. Steps /\ capacity' = capacity
    BY <1>4 DEF Unmap, DropDirty, TakeDownFails, Steps
  <2>3. TakeDown(k) \/ TakeDownFails(k) \/ frame' = frame
    BY <1>4 DEF Unmap, DropDirty
  <2>4. \A f \in Frame : Bare(f) => Bare(f)'
    <3>1. CASE frame' = frame
      BY <3>1 DEF Bare, Mapped
    <3>2. CASE TakeDown(k) \/ TakeDownFails(k)
      BY <1>0, <2>1, <3>2, TakeDownChange
    <3> QED BY <2>3, <3>1, <3>2
  <2> QED BY <1>0, <2>1, <2>2, <2>4, StepsKeep
<1>5. CASE StartD2h(k)
  <2>1. AtWriteback(k) /\ capacity' = capacity /\ call.todo # << >>
        /\ Head(call.todo).do \in {"writeback", "writebackIfDirty"}
    BY <1>5 DEF StartD2h, AtWriteback, AtKey, At
  <2>2. \/ Push(<<KeyTask("d2h", k)>>) /\ frame' = frame
        \/ Steps /\ frame' = [frame EXCEPT ![chunk[k].frame].quarantined = TRUE]
    BY <1>5 DEF StartD2h, Steps
  <2>3. \A f \in Frame : Bare(f) => Bare(f)'
    BY <2>2, QuarantineChange DEF Bare, Mapped
  <2>4. CASE Steps
    BY <2>1, <2>3, <2>4, StepsKeep
  <2>5. CASE Push(<<KeyTask("d2h", k)>>) /\ Head(call.todo).do = "writeback"
    BY <2>1, <2>3, <2>5, StartD2hCall, PassKeeps DEF Passes, ShrinkDo
  <2>6. CASE Push(<<KeyTask("d2h", k)>>) /\ Head(call.todo).do = "writebackIfDirty"
    <3> DEFINE t == KeyTask("d2h", k)
    <3>1. t \in Tasks /\ t.do = "d2h"
      BY TaskTypes, WorkFields
    <3>2. call.todo \in Seq(Tasks) /\ Tail(call.todo) \in Seq(Tasks) /\ call \in CallRecord
      BY <2>1, TailOK DEF CallInv, Proper, ListOK, TypeInv, CallOK
    <3>3. Push(<<t>>)
      BY <2>6
    <3> HIDE DEF t
    <3> DEFINE p == <<t>>
    <3>4. p \in Seq(Tasks) /\ p # << >> /\ Head(p) = t /\ DOMAIN p = {1} /\ p[1] = t
      BY <3>1
    <3>5. Goto(p \o Tail(call.todo))
      BY <3>3 DEF Push
    <3> HIDE DEF p
    <3>6. /\ Head(call'.todo) = t
          /\ Waiting(call'.todo) = Waiting(p) \union Waiting(Tail(call.todo))
      BY <3>1, <3>2, <3>4, <3>5, PushedFirst
    <3>7. Waiting(p) = {}
      BY <3>1, <3>4 DEF Waiting, ShrinkEnd
    <3>8. Waiting(call.todo) = Waiting(Tail(call.todo))
      BY <2>1, <2>6, <3>2, WaitingTail DEF ShrinkEnd
    <3> QED BY <2>1, <2>3, <2>6, <3>1, <3>6, <3>7, <3>8, SinkKeeps DEF ShrinkDo
  <2> QED BY <2>1, <2>2, <2>4, <2>5, <2>6
<1>6. CASE PrepareUse(k)
  <2>1. /\ At("prepare") /\ call.todo # << >> /\ Head(call.todo).do = "prepare"
        /\ frame' = frame /\ capacity' = capacity
    BY <1>6 DEF PrepareUse, AtKey, At
  <2>2. CASE Steps
    BY <2>1, <2>2, StepsKeep DEF Bare, Mapped
  <2>3. CASE ~Steps
    <3>1. SpillVictims # {} /\ Goto(<<KeyTask("writeback", Least(SpillVictims))>> \o call.todo)
      BY <1>6, <2>3 DEF PrepareUse, Steps
    <3>2. Least(SpillVictims) \in Key
      <4>1. SpillVictims \in SUBSET Nat /\ SpillVictims \subseteq Key
        BY RuntimeAssumption DEF SpillVictims, SpillHolders, Key
      <4> QED BY <3>1, <4>1, LeastElement
    <3>3. Detour
      BY <2>1, <3>1, <3>2, SpillWritebackCall
    <3> QED BY <2>1, <3>3, PassKeeps DEF Passes, ShrinkDo, ShrinkEnd, Bare, Mapped
  <2> QED BY <2>2, <2>3
<1> QED BY <1>1, <1>2, <1>3, <1>4, <1>5, <1>6, EnsureMissKeeps

LEMMA FrameKeeps ==
  ASSUME TypeInv, TypeInv', CallInv, CallInv', CacheInv, UseInv, CapacityKept, NEW f \in Frame,
         \/ CreateHandle(f) \/ CreateHandleFails(f)
         \/ DropMapping(f) \/ ReleaseTailHandle(f) \/ CloseFrame(f) \/ CloseCheck(f)
  PROVE  CapacityKept'
<1>0. \A do : AtFrame(do, f) => call.todo # << >> /\ Head(call.todo).do = do
  BY DEF AtFrame, At
<1>1. CASE CreateHandle(f)
  <2>1. /\ AtFrame("create", f) \/ (AtFrame("createRetry", f) /\ f < capacity)
        /\ frame' = [frame EXCEPT ![f].handle = TRUE] /\ capacity' = capacity /\ Steps
    BY <1>1 DEF CreateHandle, AtFrame, At, Steps
  <2>2. f < capacity
    BY <2>1 DEF CapacityKept, CreatesWithin
  <2>3. \A g \in Frame : g # f => frame'[g] = frame[g]
    BY <2>1 DEF TypeInv, DataInv, TypeOK
  <2> QED BY <1>0, <2>1, <2>2, <2>3, PassKeeps DEF Passes, ShrinkDo, Bare, Mapped
<1>2. CASE CreateHandleFails(f)
  <2>1. /\ AtFrame("create", f) \/ AtFrame("createRetry", f)
        /\ frame' = frame /\ capacity' = capacity
    BY <1>2 DEF CreateHandleFails
  <2> QED BY <1>0, <1>2, <2>1, CreateFailsCall, PassKeeps DEF Passes, ShrinkDo, ShrinkEnd, Bare, Mapped
<1>3. CASE DropMapping(f)
  <2> DEFINE v == frame[f].key
             a == KeyTask("writebackIfDirty", v)
             b == KeyTask("unmap", v)
             p == <<a, b>>
  <2>1. /\ AtFrame("dropFrame", f) /\ Mapped(f) /\ frame' = frame /\ capacity' = capacity
        /\ Goto(p \o call.todo)
    BY <1>3 DEF DropMapping
  <2>2. v \in Key
    BY <2>1, FrameKeys
  <2>3. a \in Tasks /\ a.do = "writebackIfDirty" /\ b \in Tasks /\ b.do = "unmap"
    BY <2>2, TaskTypes, WorkFields DEF Tasks, KeyDo, LoopDo
  <2> HIDE DEF a, b
  <2>4. p \in Seq(Tasks) /\ p # << >> /\ Head(p) = a /\ DOMAIN p = {1, 2} /\ p[1] = a /\ p[2] = b
    BY <2>3
  <2> HIDE DEF p
  <2>5. call.todo \in Seq(Tasks) /\ call \in CallRecord
    BY DEF CallInv, Proper, ListOK, TypeInv, CallOK
  <2>6. /\ Head(call'.todo) = a
        /\ Waiting(call'.todo) = Waiting(p) \union Waiting(call.todo)
    BY <2>1, <2>3, <2>4, <2>5, PushedFirst
  <2>7. Waiting(p) = {}
    BY <2>3, <2>4 DEF Waiting, ShrinkEnd
  <2> QED BY <1>0, <2>1, <2>3, <2>6, <2>7, SinkKeeps DEF ShrinkDo, Bare, Mapped
<1>4. CASE ReleaseTailHandle(f)
  <2>1. AtFrame("dropFrame", f) /\ ~Mapped(f) /\ capacity' = capacity
    BY <1>4 DEF ReleaseTailHandle
  <2>2. CASE \E status : Fail(status) /\ frame' = frame
    BY <1>0, <2>1, <2>2, SinkKeeps DEF ShrinkDo, Bare, Mapped
  <2>3. CASE Continue /\ frame' = [frame EXCEPT ![f].handle = FALSE]
    <3> DEFINE r == [frame[f] EXCEPT !.handle = FALSE]
    <3>1. frame' = [frame EXCEPT ![f] = r]
      BY <2>3
    <3>2. r.key = None /\ ~r.handle
      BY <2>1, FrameKeys DEF Mapped
    <3> HIDE DEF r
    <3>3. frame'[f] = r
      BY <3>1 DEF TypeInv, DataInv, TypeOK
    <3>4. Bare(f)'
      BY <3>2, <3>3 DEF Bare, Mapped
    <3>5. \A g \in Frame : Bare(g) => Bare(g)'
      BY <3>1, <3>2, FrameChange
    <3>6. \A g \in Frame : AtFrame("dropFrame", g) => Bare(g)'
      BY <2>1, <3>4 DEF AtFrame
    <3> QED BY <1>0, <2>1, <2>3, <3>5, <3>6, SinkKeeps DEF ShrinkDo
  <2> QED BY <1>4, <2>2, <2>3 DEF ReleaseTailHandle
<1>5. CASE CloseFrame(f)
  <2>1. /\ call.todo # << >> /\ Head(call.todo).do = "closeFrame" /\ capacity' = capacity
        /\ frame' = frame \/ frame' = [frame EXCEPT ![f].quarantined = TRUE]
    BY <1>0, <1>5 DEF CloseFrame
  <2>2. \A g \in Frame : Bare(g) => Bare(g)'
    BY <2>1, QuarantineChange DEF Bare, Mapped
  <2>3. Passes
    BY <1>5, <2>1, CloseFrameCall DEF Passes, ShrinkEnd
  <2> QED BY <2>1, <2>2, <2>3, PassKeeps DEF ShrinkDo
<1>6. CASE CloseCheck(f)
  <2>1. /\ call.todo # << >> /\ Head(call.todo).do = "closeCheck"
        /\ capacity' = capacity /\ frame' = frame /\ Steps
    BY <1>0, <1>6 DEF CloseCheck, Steps
  <2> QED BY <2>1, StepsKeep DEF Bare, Mapped
<1> QED BY <1>1, <1>2, <1>3, <1>4, <1>5, <1>6

LEMMA OtherKeeps ==
  ASSUME TypeInv, TypeInv', CallInv, CallInv', CacheInv, UseInv, CapacityKept,
         \/ RefreshSkipped \/ RefreshFails \/ CheckCapacity \/ EnsureWorkspace
         \/ FailTask \/ Catching \/ Arm \/ Rollback \/ DropSpills
         \/ PollNotReady \/ RetireUnknown \/ Retire \/ FinishLease
         \/ CheckSources \/ Abandon
         \/ \E a \in Alloc : EraseAllocation(a)
  PROVE  CapacityKept'
<1>0. \A do : At(do) => call.todo # << >> /\ Head(call.todo).do = do
  BY DEF At
<1>1. frame' = frame /\ capacity' = capacity
  BY DEF RefreshSkipped, RefreshFails, CheckCapacity, EnsureWorkspace, FailTask, Catching, Arm,
     Rollback, DropSpills, PollNotReady, RetireUnknown, Retire, FinishLease, CheckSources, Abandon,
     EraseAllocation
<1>2. \A f \in Frame : Bare(f) => Bare(f)'
  BY <1>1 DEF Bare, Mapped
<1>3. CASE \/ RefreshSkipped \/ RefreshFails \/ CheckCapacity \/ FailTask \/ Catching
           \/ PollNotReady \/ RetireUnknown \/ FinishLease \/ CheckSources \/ Abandon
           \/ \E a \in Alloc : EraseAllocation(a)
  <2>1. /\ Steps
        /\ \E do \in {"refresh", "forceRefresh", "checkCapacity", "fail", "catch", "poll", "wait",
                      "finishLease", "checkSources", "abandon", "erase"} : At(do)
    BY <1>3 DEF RefreshSkipped, RefreshFails, AtRefresh, CheckCapacity, FailTask, Catching,
       PollNotReady, RetireUnknown, AtRetire, FinishLease, CheckSources, Abandon, EraseAllocation, Steps
  <2> QED BY <1>0, <1>1, <1>2, <2>1, StepsKeep
<1>4. CASE Arm
  <2>1. At("arm") /\ (Goto(<< >>) \/ \E status : Fail(status))
    BY <1>4 DEF Arm
  <2>2. Passes
    BY <2>1 DEF Passes, Steps
  <2> QED BY <1>0, <1>1, <1>2, <2>1, <2>2, PassKeeps DEF ShrinkDo
<1>5. CASE EnsureWorkspace
  <2>1. At("workspace")
    BY <1>5 DEF EnsureWorkspace
  <2>2. CASE call' = NoCall
    <3>1. Goto(<< >>)
      BY <2>2 DEF Goto
    <3> QED BY <1>0, <1>1, <1>2, <2>1, <3>1, PassKeeps DEF Passes, ShrinkDo
  <2>3. CASE call' # NoCall
    <3> DEFINE steps == <<"prepare", "ensure", "pin">>
    <3>1. /\ call'.todo # << >>
          /\ Work(call'.todo) = LoopWork(Touched, steps)
               \union {KeyTask("arm", None), KeyTask("rollback", None)}
      BY <1>5, <2>3, EnsureWorkspaceCall
    <3>2. \A i \in DOMAIN steps : steps[i] \in {"prepare", "ensure", "pin"}
      OBVIOUS
    <3> HIDE DEF steps
    <3>3. \A do, k : KeyTask(do, k).do = do
      BY DEF KeyTask
    <3>4. \A w \in Work(call'.todo) : w.do \notin ShrinkEnd \union {"create"}
      BY <3>1, <3>2, <3>3 DEF LoopWork, ShrinkEnd
    <3>5. Passes
      BY <3>1, <3>4 DEF Passes
    <3> QED BY <1>0, <1>1, <1>2, <2>1, <3>5, PassKeeps DEF ShrinkDo
  <2> QED BY <2>2, <2>3
<1>6. CASE Rollback
  <2>1. At("rollback")
    BY <1>6 DEF Rollback
  <2>2. Passes
    BY <1>6, RollbackCall DEF Passes, ShrinkEnd
  <2> QED BY <1>0, <1>1, <1>2, <2>1, <2>2, PassKeeps DEF ShrinkDo
<1>7. CASE DropSpills
  <2>1. At("dropSpills")
    BY <1>7 DEF DropSpills
  <2>2. KeyTask("forceRefresh", None).do = "forceRefresh"
    BY DEF KeyTask
  <2>3. call' = NoCall => Goto(<< >>)
    BY DEF Goto
  <2>4. Passes
    BY <1>7, <2>2, <2>3, DropSpillsCall DEF Passes, ShrinkEnd
  <2> QED BY <1>0, <1>1, <1>2, <2>1, <2>4, PassKeeps DEF ShrinkDo
<1>8. CASE Retire
  <2>1. At("poll") \/ At("wait")
    BY <1>8 DEF Retire, AtRetire
  <2>2. Passes
    BY <1>8, RetireCall DEF Passes, ShrinkEnd
  <2> QED BY <1>0, <1>1, <1>2, <2>1, <2>2, PassKeeps DEF ShrinkDo
<1> QED BY <1>3, <1>4, <1>5, <1>6, <1>7, <1>8

LEMMA CloseEndKeeps ==
  ASSUME TypeInv, TypeInv', CallInv, CallInv', CapacityKept, NEW FA, NEW FF, CloseEnd(FA, FF)
  PROVE  CapacityKept'
<1>1. call.todo # << >> /\ Head(call.todo).do = "closeEnd" /\ capacity' = capacity /\ Goto(<< >>)
  BY DEF CloseEnd, At
<1>2. \A f \in Frame : Bare(f) => Bare(f)'
  <2> SUFFICES ASSUME NEW f \in Frame, Bare(f) PROVE Bare(f)'
    OBVIOUS
  <2> DEFINE r == [frame[f] EXCEPT !.handle = @ /\ (Kept(f) \/ f \in FF)]
  <2>1. frame'[f] = r
    BY DEF CloseEnd
  <2>2. r.key = frame[f].key /\ (r.handle => frame[f].handle)
    BY FrameKeys
  <2> HIDE DEF r
  <2> QED BY <2>1, <2>2 DEF Bare, Mapped
<1> QED BY <1>1, <1>2, PassKeeps DEF Passes, ShrinkDo

LEMMA WorkerKeeps ==
  ASSUME TypeInv, TypeInv', CallInv, CallInv', CacheInv, UseInv, CapacityKept, Worker
  PROVE  CapacityKept'
<1>1. ASSUME NEW k \in Key, NEW f \in Frame,
             \/ MapRefused(k, f) \/ MapFails(k, f) \/ MapRollbackFails(k, f)
             \/ MapAndSubmit(k, f) \/ MapAndSubmitFails(k, f) \/ MapWithoutSource(k, f)
      PROVE  CapacityKept'
  BY <1>1, MapKeeps
<1>2. ASSUME NEW k \in Key,
             \/ H2dDone(k) \/ TransferStuck(k) \/ RetireFailedH2d(k)
             \/ EnsureHit(k) \/ EnsureMiss(k)
             \/ WritebackSkipped(k) \/ StartD2h(k) \/ D2hDone(k)
             \/ UnmapSkipped(k) \/ Unmap(k) \/ DropDirty(k)
             \/ PrepareUse(k) \/ Pin(k)
             \/ PutHost(k) \/ GetHost(k) \/ Invalidate(k)
      PROVE  CapacityKept'
  BY <1>2, KeyKeeps
<1>3. ASSUME NEW f \in Frame,
             \/ CreateHandle(f) \/ CreateHandleFails(f)
             \/ DropMapping(f) \/ ReleaseTailHandle(f) \/ CloseFrame(f) \/ CloseCheck(f)
      PROVE  CapacityKept'
  BY <1>3, FrameKeeps
<1>4. ASSUME NEW observed \in 0..MaxFrames,
             RefreshShrinks(observed) \/ RefreshKeeps(observed) \/ SetCapacity(observed)
      PROVE  CapacityKept'
  BY <1>4, RefreshShrinksKeeps, RefreshKeepsKeeps, SetCapacityKeeps
<1>5. ASSUME \/ RefreshSkipped \/ RefreshFails \/ CheckCapacity \/ EnsureWorkspace
             \/ FailTask \/ Catching \/ Arm \/ Rollback \/ DropSpills
             \/ PollNotReady \/ RetireUnknown \/ Retire \/ FinishLease
             \/ CheckSources \/ Abandon
             \/ \E a \in Alloc : EraseAllocation(a)
      PROVE  CapacityKept'
  BY <1>5, OtherKeeps
<1>6. ASSUME NEW FA, NEW FF, CloseEnd(FA, FF) PROVE CapacityKept'
  BY <1>6, CloseEndKeeps
<1> QED BY <1>1, <1>2, <1>3, <1>4, <1>5, <1>6 DEF Worker

LEMMA ClientKeeps ==
  ASSUME TypeInv, TypeInv', CallInv, CapacityKept, Client
  PROVE  CapacityKept'
<1>1. frame' = frame /\ capacity' = capacity
  BY DEF Client, Allocate, Release, DiscardDead, Write, Read, Prefetch, AcquireExternal, Seal, Poll,
     Wait, Drain, Close, Launch, Begin
<1>2. ASSUME call' = call PROVE CapacityKept'
  BY <1>1, <1>2 DEF CapacityKept, CapacityBoundsResidency, CreatesWithin, EmptiesFirst, Bare, Mapped,
     AtFrame, At
<1>3. ASSUME NEW op, NEW plan, Opens(op, plan), CallInv' PROVE CapacityKept'
  <2>1. \A w \in Work(call'.todo) : w.do \notin ShrinkEnd \union {"create"}
    BY <1>3 DEF Opens, LateDo
  <2>2. (CreatesWithin /\ EmptiesFirst)'
    BY <1>3, <2>1, WorkDrifts, DriftsKeep
  <2> QED BY <1>1, <2>2 DEF CapacityKept, CapacityBoundsResidency, Mapped
<1>4. ASSUME NEW a \in Alloc,
             \/ Allocate(a) \/ Release(a)
             \/ \E plan \in RangePlans(a, {"full"}) : DiscardDead(a, plan)
             \/ \E plan \in RangePlans(a, {"full", "part"}), v \in Val : Write(a, plan, v)
             \/ \E plan \in RangePlans(a, {"part"}) : Read(a, plan)
      PROVE  CapacityKept'
  <2>1. CASE Allocate(a)
    BY <1>2, <2>1 DEF Allocate
  <2> QED BY <1>3, <1>4, <2>1, ReleaseCall, DiscardCall, WriteCall, ReadCall
<1>5. ASSUME NEW plan \in Plans(LiveKeys, PrefetchModes), Prefetch(plan) PROVE CapacityKept'
  BY <1>3, <1>5, PrefetchCall
<1>6. ASSUME NEW plan \in Plans(LiveKeys, Mode), AcquireExternal(plan) PROVE CapacityKept'
  BY <1>3, <1>6, AcquireCall
<1>7. ASSUME NEW mode \in {"success", "cancelled", "failed"}, Seal(mode) PROVE CapacityKept'
  BY <1>2, <1>7 DEF Seal
<1>8. ASSUME Poll \/ Wait \/ (\E r \in BOOLEAN : Drain(r)) \/ Close PROVE CapacityKept'
  BY <1>3, <1>8, PollWaitCall, DrainCall, CloseCall
<1>9. ASSUME Launch PROVE CapacityKept'
  BY <1>2, <1>9 DEF Launch
<1> QED BY <1>4, <1>5, <1>6, <1>7, <1>8, <1>9 DEF Client

LEMMA CapacityStep ==
  TypeInv /\ CallInv /\ CacheInv /\ UseInv /\ CapacityKept /\ TypeInv' /\ CallInv' /\ [Next]_vars
    => CapacityKept'
<1> SUFFICES ASSUME TypeInv, CallInv, CacheInv, UseInv, CapacityKept, TypeInv', CallInv', [Next]_vars
             PROVE  CapacityKept'
  OBVIOUS
<1>1. ASSUME frame' = frame, capacity' = capacity, call' = call PROVE CapacityKept'
  BY <1>1 DEF CapacityKept, CapacityBoundsResidency, CreatesWithin, EmptiesFirst, Bare, Mapped,
     AtFrame, At
<1>2. CASE Worker
  BY <1>2, WorkerKeeps
<1>3. CASE Client
  BY <1>3, ClientKeeps
<1>4. CASE Kernel
  BY <1>1, <1>4 DEF Kernel, KernelWrites, KernelFinishes
<1>5. CASE UNCHANGED vars
  BY <1>1, <1>5 DEF vars
<1> QED BY <1>2, <1>3, <1>4, <1>5 DEF Next

LEMMA InitCapacity == Init => CapacityKept
<1> SUFFICES ASSUME Init PROVE CapacityKept
  OBVIOUS
<1>1. call.todo = << >> /\ \A f \in Frame : frame[f].key = None
  BY IdleProper DEF Init
<1>2. CapacityBoundsResidency
  <2>1. capacity = MaxFrames /\ \A f \in Frame : ~frame[f].handle
    BY DEF Init
  <2>2. \A f \in Frame : ~(f >= MaxFrames)
    BY FrameTypes, RuntimeAssumption DEF Frame
  <2> QED BY <2>1, <2>2 DEF CapacityBoundsResidency
<1>3. Waiting(call.todo) = {}
  BY <1>1 DEF Waiting
<1> QED BY <1>1, <1>2, <1>3 DEF CapacityKept, CreatesWithin, EmptiesFirst, AtFrame, At

(* No frame beyond the capacity keeps a mapping or a handle: the capacity   *)
(* shrinks to a smaller target only after refresh_budget has drained every  *)
(* frame it takes away, and no handle is created beyond it.                 *)
THEOREM CapacityHolds == Spec => []CapacityBoundsResidency
<1> DEFINE Inv == TypeInv /\ CallInv /\ CacheInv /\ UseInv /\ CapacityKept
<1>1. Init => Inv
  BY InitType, InitCall, InitOK, InitCapacity
<1>2. ASSUME Inv, [Next]_vars PROVE Inv'
  BY <1>2, StepType, StepCall, StepMapping, CapacityStep
<1>3. Inv => CapacityBoundsResidency
  BY DEF CapacityKept
<1> HIDE DEF Inv
<1> QED BY <1>1, <1>2, <1>3, PTL DEF Spec

=============================================================================
