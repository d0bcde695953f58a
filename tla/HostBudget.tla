----------------------------- MODULE HostBudget -----------------------------
(***************************************************************************)
(* The ledger of host memory (HostBudgetLedger in                          *)
(* src/residency/compression.cpp).  A reservation is a plain value its     *)
(* holder can copy and keep: what protects the counters is that the ledger *)
(* knows the reservations it has given out.                                *)
(***************************************************************************)
EXTENDS Integers, FiniteSets

CONSTANTS
  Limit,        (* limit_bytes, UINT64_MAX when the configuration says 0.    *)
  Bytes,        (* The sizes reserved.                                       *)
  MaxReserves   (* Bound on next_id.                                         *)

ASSUME BudgetAssumption == Limit \in Nat /\ Bytes \subseteq Nat /\ MaxReserves \in Nat

VARIABLES
  counters,     (* total_bytes and the bytes of each category.               *)
  reserved,     (* reservations: the live ones, by identifier.               *)
  next_id

ledgerVars == <<counters, reserved, next_id>>

Category == {"authoritative", "conversion_scratch", "pinned_staging", "spill"}
Convertible == {"conversion_scratch", "spill"}
Handle == [id : Nat, category : Category, bytes : Nat]
Nothing == [id |-> 0, category |-> "conversion_scratch", bytes |-> 0]

Live == DOMAIN reserved
Known(r) == r.id \in Live /\ reserved[r.id] = [category |-> r.category, bytes |-> r.bytes]

LedgerInit ==
  /\ counters = [c \in Category \union {"total"} |-> 0]
  /\ reserved = [i \in {} |-> Nothing]
  /\ next_id = 1

-----------------------------------------------------------------------------
Fits(category, bytes) == bytes <= Limit - counters["total"]

FollowingId == next_id + 1

(* reserve, with the handle its caller gets. A reservation of nothing is    *)
(* not recorded.                                                            *)
Reserve(category, bytes, r) ==
  IF bytes = 0
  THEN /\ r = [id |-> 0, category |-> category, bytes |-> 0]
       /\ UNCHANGED ledgerVars
  ELSE /\ Fits(category, bytes) /\ next_id <= MaxReserves
       /\ r = [id |-> next_id, category |-> category, bytes |-> bytes]
       /\ next_id' = FollowingId
       /\ reserved' = [i \in Live \union {next_id} |->
                         IF i = next_id THEN [category |-> category, bytes |-> bytes]
                         ELSE reserved[i]]
       /\ counters' = [counters EXCEPT !["total"] = @ + bytes, ![category] = @ + bytes]

(* The identifier is spent even when the map cannot grow. *)
ReserveThrows(category, bytes) ==
  /\ bytes # 0 /\ Fits(category, bytes) /\ next_id <= MaxReserves
  /\ next_id' = next_id + 1
  /\ UNCHANGED <<counters, reserved>>

Refused(category, bytes) == bytes # 0 /\ ~Fits(category, bytes)

RecognisedById(r) == r.id \in Live  \* mutant
Releasable(r) == Known(r)

(* release, where it succeeds: the caller's handle becomes Nothing. *)
Release(r) ==
  \/ r.bytes = 0 /\ UNCHANGED ledgerVars
  \/ /\ r.bytes # 0 /\ Releasable(r)
     /\ reserved' = [i \in Live \ {r.id} |-> reserved[i]]
     /\ counters' = [counters EXCEPT !["total"] = @ - r.bytes, ![r.category] = @ - r.bytes]
     /\ UNCHANGED next_id

Unused(unused) == unused

(* commit_authoritative: what r holds becomes the charge of an image that   *)
(* replaces one charged `previous`.                                         *)
MayCommit(r, previous, replacement) ==
  /\ r.category \in Convertible /\ r.bytes >= replacement
  /\ previous <= counters["authoritative"]
  /\ r.bytes # 0 => Known(r)
Commit(r, previous, replacement) ==
  /\ MayCommit(r, previous, replacement)
  /\ reserved' = IF r.bytes = 0 THEN reserved ELSE [i \in Live \ {r.id} |-> reserved[i]]
  /\ counters' = [c \in Category \union {"total"} |->
       CASE c = r.category -> counters[c] - r.bytes
         [] c = "authoritative" -> counters[c] - previous + replacement
         [] c = "total" -> counters[c] - previous - Unused(r.bytes - replacement)
         [] OTHER -> counters[c]]
  /\ UNCHANGED next_id

ReleaseAuthoritative(bytes) ==
  /\ bytes <= counters["authoritative"] /\ bytes <= counters["total"]
  /\ counters' = [counters EXCEPT !["total"] = @ - bytes, !["authoritative"] = @ - bytes]
  /\ UNCHANGED <<reserved, next_id>>

(* Any handle, a stale or a forged one included. *)
LedgerNext ==
  \/ \E c \in Category \ {"authoritative"}, b \in Bytes :
       ReserveThrows(c, b) \/ \E id \in {0, next_id} :
                                Reserve(c, b, [id |-> id, category |-> c, bytes |-> b])
  \/ \E id \in 0..MaxReserves, c \in Category \ {"authoritative"}, b \in Bytes :
       LET r == [id |-> id, category |-> c, bytes |-> b] IN
         Release(r) \/ \E old, new \in Bytes : Commit(r, old, new)
  \/ \E b \in Bytes : ReleaseAuthoritative(b)

LedgerSpec == LedgerInit /\ [][LedgerNext]_ledgerVars

-----------------------------------------------------------------------------
(* The bytes of the members of S, one by one. Their number is the sum of    *)
(* the sizes, in a form that does not need induction to reason about.       *)
BytesOf(size, S) == UNION {{x} \X (1..size[x]) : x \in S}

Reserved(c) ==
  BytesOf([i \in Live |-> reserved[i].bytes], {i \in Live : reserved[i].category = c})

(* The types of the ledger. *)
LedgerTypeOK ==
  /\ counters \in [Category \union {"total"} -> Int]
  /\ next_id \in Nat \ {0}
  /\ Live \subseteq 1..(next_id - 1)
  /\ \A i \in Live : reserved[i] \in [category : Category \ {"authoritative"}, bytes : Nat]

(* What is charged never exceeds the limit, so the subtraction in reserve   *)
(* never wraps around.                                                      *)
WithinLimit == counters["total"] <= Limit

(* The total is the sum of the categories: moving a reservation to the      *)
(* authoritative charge neither creates nor loses bytes.                    *)
Balanced ==
  counters["total"] = counters["authoritative"] + counters["conversion_scratch"]
                      + counters["pinned_staging"] + counters["spill"]

(* Each category holds what its live reservations hold, whatever handles    *)
(* were released twice or presented after they were spent.                  *)
CountersMatchReservations ==
  \A c \in Category \ {"authoritative"} : counters[c] = Cardinality(Reserved(c))

(* The promises of the ledger alone. *)
LedgerHolds == LedgerTypeOK /\ WithinLimit /\ Balanced /\ CountersMatchReservations
=============================================================================
