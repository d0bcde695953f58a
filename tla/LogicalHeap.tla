---------------------------- MODULE LogicalHeap ----------------------------
(***************************************************************************)
(* What the runtime promises its clients: a flat memory.  The content of a *)
(* chunk changes when the host writes it, when a kernel holding a lease    *)
(* for writing writes it, and when the client declares it dead or releases *)
(* its allocation; never because a chunk moved between host and device,    *)
(* a budget shrank, a transfer failed or a lease was cancelled.            *)
(***************************************************************************)
CONSTANTS Key, Alloc, AllocOf, Val, Zero, Undefined

VARIABLES
  mem,      (* Content of each chunk.                                        *)
  live,     (* Allocations that exist.                                       *)
  granted,  (* Chunks leased for writing.                                    *)
  writing,  (* The chunks a host write has still to replace, and with what.  *)
  dying     (* Chunks the client is discarding.                              *)

hvars == <<mem, live, granted, writing, dying>>

KeysOf(a) == {k \in Key : AllocOf[k] = a}
Nothing == [k \in {} |-> Zero]

Init ==
  /\ mem = [k \in Key |-> Zero]
  /\ live = {} /\ granted = {} /\ writing = Nothing /\ dying = {}

Allocate(a) ==
  /\ a \notin live /\ live' = live \union {a}
  /\ UNCHANGED <<mem, granted, writing, dying>>

Release(a) ==
  /\ a \in live /\ KeysOf(a) \intersect granted = {}
  /\ live' = live \ {a}
  /\ mem' = [k \in Key |-> IF AllocOf[k] = a THEN Zero ELSE mem[k]]
  /\ UNCHANGED <<granted, writing, dying>>

BeginWrite(a, v) ==
  /\ writing = Nothing /\ a \in live
  /\ DOMAIN writing' \subseteq KeysOf(a) \ granted
  /\ writing' = [k \in DOMAIN writing' |-> v]
  /\ UNCHANGED <<mem, live, granted, dying>>

(* One chunk is replaced; the write may fail right after it, *)
HostWrite(k) ==
  /\ k \in DOMAIN writing
  /\ mem' = [mem EXCEPT ![k] = writing[k]]
  /\ writing' \in {[j \in DOMAIN writing \ {k} |-> writing[j]], Nothing}
  /\ UNCHANGED <<live, granted, dying>>

(* or before it. *)
AbortWrite ==
  /\ writing' = Nothing
  /\ UNCHANGED <<mem, live, granted, dying>>

Grant ==
  /\ granted = {} /\ granted' \subseteq {k \in Key : AllocOf[k] \in live}
  /\ UNCHANGED <<mem, live, writing, dying>>

Revoke ==
  /\ granted' = {}
  /\ UNCHANGED <<mem, live, writing, dying>>

(* While a chunk is granted its content is whatever the kernel left so far. *)
KernelWrite ==
  /\ granted # {}
  /\ mem' \in [Key -> Val \union {Undefined}]
  /\ \A k \in Key \ granted : mem'[k] = mem[k]
  /\ UNCHANGED <<live, granted, writing, dying>>

BeginDiscard ==
  /\ dying = {} /\ dying' \subseteq Key \ granted
  /\ UNCHANGED <<mem, live, granted, writing>>

Decay(k) ==
  /\ k \in dying
  /\ \E c \in Val \union {Undefined} : mem' = [mem EXCEPT ![k] = c]
  /\ dying' \in {dying, {}}
  /\ UNCHANGED <<live, granted, writing>>

EndDiscard ==
  /\ dying' = {}
  /\ UNCHANGED <<mem, live, granted, writing>>

Close ==
  /\ live' = {} /\ mem' = [k \in Key |-> Zero]
  /\ UNCHANGED <<granted, writing, dying>>

Next ==
  \/ \E a \in Alloc : Allocate(a) \/ Release(a)
  \/ \E a \in Alloc, v \in Val : BeginWrite(a, v)
  \/ \E k \in Key : HostWrite(k) \/ Decay(k)
  \/ Grant \/ KernelWrite \/ Revoke
  \/ BeginDiscard \/ EndDiscard \/ AbortWrite \/ Close

Spec == Init /\ [][Next]_hvars
=============================================================================
