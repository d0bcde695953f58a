---------------------------- MODULE VictimPolicy ----------------------------
(***************************************************************************)
(* The two eviction policies (src/residency/policy.cpp) under the calls    *)
(* the residency managers make: a chunk is inserted when its upload        *)
(* retires, touched by every use, erased when it is unmapped, and a victim *)
(* is selected among the mapped chunks, whose states the manager knows.    *)
(* Both policies are driven by the same calls; Policies says which of them *)
(* a run keeps.                                                            *)
(***************************************************************************)
EXTENDS Integers, Sequences, FiniteSets, SequencesExt

CONSTANTS Keys,      \* chunks, numbered in the order of ChunkKey
          Hot,       \* chunks of allocations hinted hot
          Policies,  \* subset of {"clock", "lru"}
          Calls,     \* calls that advance the LRU sequence (bound)
          None

PolicyAssumption ==
  /\ Keys \subseteq Nat /\ Hot \subseteq Keys /\ Policies \subseteq {"clock", "lru"}
  /\ Calls \in Nat /\ None \notin Keys

VARIABLES chunk,  \* what the manager knows of each chunk
          clock,  \* CLOCK: the ring of entries and the hand
          lru,    \* LRU: its entries
          now,    \* the sequence number of the last call
          used    \* LRU: the inserted chunks, the least recently used first

vars == <<chunk, clock, lru, now, used>>

(* A candidate is free to go when it is resident, unpinned, at rest and    *)
(* outside the working set; "busy" stands for every reason not to be.      *)
Eligible(k) == chunk[k] \in {"clean", "dirty"}

-----------------------------------------------------------------------------
(* CLOCK.                                                                  *)

IndexOf(s, k) == CHOOSE i \in DOMAIN s : s[i].key = k
Holds(s, k) == \E i \in DOMAIN s : s[i].key = k

(* clock_cost: dirty and hot entries are dearer, one-touch ones cheapest.  *)
Cost(e) ==
  (IF chunk[e.key] = "dirty" THEN 3 ELSE 0) + (IF e.key \in Hot THEN 4 ELSE 0)
    + (IF e.once THEN 0 ELSE IF e.spec THEN 1 ELSE 2)

ClockInsert(c, k, spec, once) ==
  IF Holds(c.ring, k)
  THEN LET i == IndexOf(c.ring, k) IN
       [c EXCEPT !.ring[i] = [key |-> k, ref |-> c.ring[i].ref \/ ~spec, spec |-> spec,
                              once |-> once]]
  ELSE [c EXCEPT !.ring = Append(@, [key |-> k, ref |-> ~spec, spec |-> spec, once |-> once])]

ClockTouch(c, k, once) ==
  IF Holds(c.ring, k)
  THEN [c EXCEPT !.ring[IndexOf(c.ring, k)] =
          [key |-> k, ref |-> TRUE, spec |-> FALSE, once |-> once]]
  ELSE ClockInsert(c, k, FALSE, once)

(* The hand is an index from 0; it keeps pointing at the same entry, or at *)
(* the one after the entry that is gone.                                   *)
ClockErase(c, k) ==
  IF ~Holds(c.ring, k) THEN c
  ELSE LET i == IndexOf(c.ring, k)
           ring == RemoveAt(c.ring, i)
           hand == IF ring # <<>> /\ i - 1 < c.hand THEN c.hand - 1 ELSE c.hand
       IN [ring |-> ring, hand |-> IF hand >= Len(ring) THEN 0 ELSE hand]

(* select_victim: the cheapest class is scanned twice from the hand; the   *)
(* first pass takes the reference bits away.                               *)
Scan(c, class) ==
  LET n == Len(c.ring)
      at(i) == ((c.hand + i - 1) % n) + 1
      step[i \in 0 .. 2 * n] ==
        IF i = 0 THEN [c |-> c, victim |-> None]
        ELSE LET p == step[i - 1]
                 e == p.c.ring[at(i)] IN
             IF p.victim # None \/ e.key \notin class THEN p
             ELSE IF e.ref THEN [p EXCEPT !.c.ring[at(i)].ref = FALSE]
             ELSE [c |-> [p.c EXCEPT !.hand = at(i) % n], victim |-> e.key]
  IN step[2 * n]

Cheapest(c) ==
  LET open == {e \in {c.ring[i] : i \in DOMAIN c.ring} : Eligible(e.key)}
  IN {e.key : e \in {x \in open : \A y \in open : Cost(x) <= Cost(y)}}

ClockSelect(c) ==
  IF Cheapest(c) = {} THEN [c |-> c, victim |-> None] ELSE Scan(c, Cheapest(c))

-----------------------------------------------------------------------------
(* LRU.                                                                    *)

LruUse(l, k, seq) ==
  IF Holds(l, k) THEN [l EXCEPT ![IndexOf(l, k)].last = seq]
  ELSE Append(l, [key |-> k, last |-> seq])

LruErase(l, k) == SelectSeq(l, LAMBDA e : e.key # k)

(* e goes before s: cold entries first, then the oldest, then by key.      *)
LruBefore(e, s) ==
  \/ s.key \in Hot /\ e.key \notin Hot
  \/ /\ (s.key \in Hot) = (e.key \in Hot)
     /\ \/ e.last < s.last
        \/ e.last = s.last /\ e.key < s.key

(* One pass keeps the best entry so far. *)
LruSelect(l) ==
  LET best[i \in 0 .. Len(l)] ==
        IF i = 0 THEN None
        ELSE LET b == best[i - 1] IN
             IF ~Eligible(l[i].key) THEN b
             ELSE IF b = None THEN l[i].key
             ELSE IF LruBefore(l[i], l[IndexOf(l, b)]) THEN l[i].key ELSE b
  IN best[Len(l)]

-----------------------------------------------------------------------------
(* What a manager does.                                                    *)

WithClock(c) == clock' = IF "clock" \in Policies THEN c ELSE clock
WithLru(l) == lru' = IF "lru" \in Policies THEN l ELSE lru
Advance == now < Calls /\ now' = IF "lru" \in Policies THEN now + 1 ELSE now
Unused(k) == SelectSeq(used, LAMBDA x : x # k)
WithUsed(u) == used' = IF "lru" \in Policies THEN u ELSE used
Used(k) == WithUsed(Append(Unused(k), k))

(* finish_h2d: the upload has retired. *)
Insert(k, spec, once) ==
  /\ chunk[k] = "out" /\ Advance
  /\ chunk' = [chunk EXCEPT ![k] = "clean"]
  /\ WithClock(ClockInsert(clock, k, spec, once))
  /\ WithLru(LruUse(lru, k, now'))
  /\ Used(k)

(* ensure_resident and finish_compute; a use may leave the chunk dirty,    *)
(* pinned or in flight.                                                    *)
Touch(k, once) ==
  /\ chunk[k] # "out" /\ Advance
  /\ \E st \in {"clean", "dirty", "busy"} : chunk' = [chunk EXCEPT ![k] = st]
  /\ WithClock(ClockTouch(clock, k, once))
  /\ WithLru(LruUse(lru, k, now'))
  /\ Used(k)

(* A write-back or a kernel ends: the chunk is at rest again. *)
Rest(k) ==
  /\ chunk[k] \in {"busy", "dirty"}
  /\ chunk' = [chunk EXCEPT ![k] = "clean"]
  /\ UNCHANGED <<clock, lru, now, used>>

(* unmap_clean. *)
Erase(k) ==
  /\ chunk[k] = "clean"
  /\ chunk' = [chunk EXCEPT ![k] = "out"]
  /\ WithClock(ClockErase(clock, k)) /\ WithLru(LruErase(lru, k))
  /\ WithUsed(Unused(k))
  /\ UNCHANGED now

(* select_victim; what it chose may survive, when the eviction fails.      *)
Select ==
  /\ WithClock(ClockSelect(clock).c)
  /\ UNCHANGED <<chunk, lru, now, used>>

Init ==
  /\ chunk = [k \in Keys |-> "out"]
  /\ clock = [ring |-> <<>>, hand |-> 0] /\ lru = <<>> /\ now = 0 /\ used = <<>>

Next ==
  \/ \E k \in Keys, spec, once \in BOOLEAN : Insert(k, spec, once)
  \/ \E k \in Keys, once \in BOOLEAN : Touch(k, once)
  \/ \E k \in Keys : Rest(k) \/ Erase(k)
  \/ Select

Spec == Init /\ [][Next]_vars

-----------------------------------------------------------------------------
Ring == {clock.ring[i].key : i \in DOMAIN clock.ring}
Open == {k \in Keys : Eligible(k)}
(* The keys in the order in which the hand comes by them.                  *)
Turn(c) ==
  [i \in 1 .. Len(c.ring) |-> c.ring[((c.hand + i - 1) % Len(c.ring)) + 1].key]
Entry(k) == clock.ring[IndexOf(clock.ring, k)]

TypeOK ==
  /\ chunk \in [Keys -> {"out", "clean", "dirty", "busy"}]
  /\ clock.ring \in Seq([key : Keys, ref : BOOLEAN, spec : BOOLEAN, once : BOOLEAN])
  /\ clock.hand \in Nat /\ clock.hand <= Len(clock.ring)
  /\ clock.hand = Len(clock.ring) => clock.hand = 0
  /\ lru \in Seq([key : Keys, last : Nat]) /\ now \in Nat

(* Both policies know exactly the mapped chunks, each once: a manager that *)
(* evicts finds an entry for every chunk it may unmap (policy.cpp, insert, *)
(* touch and erase).                                                       *)
EntriesAreTheMapped ==
  LET mapped == {k \in Keys : chunk[k] # "out"} IN
    /\ "clock" \in Policies => Ring = mapped /\ Len(clock.ring) = Cardinality(mapped)
    /\ "lru" \in Policies => {lru[i].key : i \in DOMAIN lru} = mapped
                               /\ Len(lru) = Cardinality(mapped)

(* A victim is found whenever a chunk may go, and it is one that may: the  *)
(* hand, two passes and the reference bits never make CLOCK give up.       *)
VictimWhenever ==
  /\ "clock" \in Policies =>
       LET v == ClockSelect(clock).victim IN IF Open = {} THEN v = None ELSE v \in Open
  /\ "lru" \in Policies =>
       LET v == LruSelect(lru) IN IF Open = {} THEN v = None ELSE v \in Open

(* "clean candidates are preferred to dirty candidates" among equally hot  *)
(* ones, and cold to hot among equally dirty ones (clock_cost).            *)
CleanBeforeDirty ==
  LET v == ClockSelect(clock).victim IN
    v # None =>
      \A k \in Open :
        /\ (k \in Hot) = (v \in Hot) /\ chunk[k] = "clean" => chunk[v] = "clean"
        /\ chunk[k] = chunk[v] /\ k \notin Hot => v \notin Hot

(* Second chance: a referenced entry goes only when every entry of its     *)
(* cost is referenced, and then it is the next one the hand comes by.      *)
SecondChance ==
  LET v == ClockSelect(clock).victim IN
    v # None /\ Entry(v).ref =>
      LET turn == SelectSeq(Turn(clock), LAMBDA k : Eligible(k)
                                            /\ Cost(Entry(k)) = Cost(Entry(v)))
      IN /\ Head(turn) = v
         /\ \A i \in DOMAIN turn : Entry(turn[i]).ref

(* Erasing a chunk, also one the hand has passed, leaves the turn of the   *)
(* others as it was (ClockPolicy::erase).                                  *)
EraseKeepsTheTurn ==
  \A k \in Keys : chunk[k] # "out" /\ chunk'[k] = "out" =>
    Turn(clock') = SelectSeq(Turn(clock), LAMBDA x : x # k)

(* The LRU victim is the least recently used chunk that may go, a hot one  *)
(* only when no other may.                                                 *)
LeastRecentlyUsed ==
  "lru" \in Policies /\ Open # {} =>
    LET cold == SelectSeq(used, LAMBDA k : Eligible(k) /\ k \notin Hot)
        hot == SelectSeq(used, LAMBDA k : Eligible(k) /\ k \in Hot)
    IN LruSelect(lru) = Head(cold \o hot)
=============================================================================
