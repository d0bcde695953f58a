------------------------- MODULE HostBackingProofs -------------------------
(***************************************************************************)
(* The host budget is respected and balanced, for every limit and whatever *)
(* handles its callers present.  No update of the host store is lost, and  *)
(* every byte of it has an owner, for any number of threads, chunks and    *)
(* blocks and any limit.                                                   *)
(***************************************************************************)
EXTENDS HostBacking, FiniteSetTheorems, TLAPS

-----------------------------------------------------------------------------
(* The host budget: sums of sizes as numbers of bytes. *)

LEMMA OneHolder ==
  ASSUME NEW x, NEW n \in Nat
  PROVE  IsFiniteSet({x} \X (1..n)) /\ Cardinality({x} \X (1..n)) = n
<1>1. IsFiniteSet({x}) /\ Cardinality({x}) = 1
    BY FS_Singleton
<1>2. IsFiniteSet(1..n) /\ Cardinality(1..n) = n
    BY FS_Interval
<1>3. /\ IsFiniteSet({x} \X (1..n))
      /\ Cardinality({x} \X (1..n)) = Cardinality({x}) * Cardinality(1..n)
    BY <1>1, <1>2, FS_Product
<1> QED BY <1>1, <1>2, <1>3

LEMMA SameBytes ==
  ASSUME NEW size, NEW other, NEW S, \A y \in S : other[y] = size[y]
  PROVE  BytesOf(other, S) = BytesOf(size, S)
BY DEF BytesOf

(* A holder that joins brings its size. *)
LEMMA HolderJoins ==
  ASSUME NEW size, NEW S, NEW x, x \notin S, size[x] \in Nat, IsFiniteSet(BytesOf(size, S))
  PROVE  /\ IsFiniteSet(BytesOf(size, S \union {x}))
         /\ Cardinality(BytesOf(size, S \union {x})) = Cardinality(BytesOf(size, S)) + size[x]
<1> DEFINE A == BytesOf(size, S)
           B == {x} \X (1..size[x])
<1>1. BytesOf(size, S \union {x}) = A \union B
    BY DEF BytesOf
<1>2. A \cap B = {}
    BY DEF BytesOf
<1>3. IsFiniteSet(B) /\ Cardinality(B) = size[x]
    BY OneHolder
<1>4. IsFiniteSet(A) /\ Cardinality(A) \in Nat
    BY FS_CardinalityType
<1>5. Cardinality(A \cap B) = 0
    BY <1>2, FS_EmptySet
<1> HIDE DEF A, B
<1>6. /\ IsFiniteSet(A \union B)
      /\ Cardinality(A \union B) = Cardinality(A) + Cardinality(B) - Cardinality(A \cap B)
    BY <1>3, <1>4, FS_Union
<1>7. Cardinality(A \union B) = Cardinality(A) + size[x]
    BY <1>3, <1>4, <1>5, <1>6
<1> QED BY <1>1, <1>6, <1>7 DEF A

(* One that leaves takes its size, which the sum has. *)
LEMMA HolderLeaves ==
  ASSUME NEW size, NEW S, NEW x \in S, size[x] \in Nat, IsFiniteSet(BytesOf(size, S))
  PROVE  /\ IsFiniteSet(BytesOf(size, S \ {x}))
         /\ Cardinality(BytesOf(size, S \ {x})) = Cardinality(BytesOf(size, S)) - size[x]
         /\ size[x] <= Cardinality(BytesOf(size, S))
<1> DEFINE R == S \ {x}
<1>1. IsFiniteSet(BytesOf(size, R))
  <2>1. BytesOf(size, R) \subseteq BytesOf(size, S)
      BY DEF BytesOf
  <2> QED BY <2>1, FS_Subset
<1>2. S = R \union {x} /\ x \notin R
    OBVIOUS
<1> HIDE DEF R
<1>3. Cardinality(BytesOf(size, S)) = Cardinality(BytesOf(size, R)) + size[x]
    BY <1>1, <1>2, HolderJoins
<1>4. Cardinality(BytesOf(size, R)) \in Nat
    BY <1>1, FS_CardinalityType
<1> QED BY <1>1, <1>3, <1>4 DEF R

-----------------------------------------------------------------------------
(* Each counter is the number of bytes that are reserved in its category. *)
Backed ==
  \A c \in Category \ {"authoritative"} :
    IsFiniteSet(Reserved(c)) /\ counters[c] = Cardinality(Reserved(c))

(* What the proof carries: the types, the limit, the balance, and that the  *)
(* counters match the reservations. A reservation is checked against the    *)
(* total; a release or a commit lowers it by what the ledger recorded.      *)
LedgerInv == LedgerTypeOK /\ WithinLimit /\ Balanced /\ Backed

Places == Category \union {"total"}

Recorded == [i \in Live |-> reserved[i].bytes]
Those(c) == {i \in Live : reserved[i].category = c}

LEMMA ReservedIs == \A c : Reserved(c) = BytesOf(Recorded, Those(c))
BY DEF Reserved, Recorded, Those

LEMMA ReservationEnters ==
  ASSUME LedgerTypeOK, Backed, NEW c \in Category \ {"authoritative"}, NEW b \in Nat, NEW n,
         n \notin Live,
         reserved' = [i \in Live \union {n} |->
                        IF i = n THEN [category |-> c, bytes |-> b] ELSE reserved[i]],
         counters'[c] = counters[c] + b,
         \A d \in Category \ {"authoritative", c} : counters'[d] = counters[d]
  PROVE  Backed'
<1>1. /\ Live' = Live \union {n} /\ reserved'[n] = [category |-> c, bytes |-> b]
      /\ \A i \in Live : reserved'[i] = reserved[i]
    BY DEF Live
<1>2. \A i \in Live : Recorded'[i] = Recorded[i]
    BY <1>1 DEF Recorded
<1>3. Recorded'[n] = b
    BY <1>1 DEF Recorded
<1>4. ASSUME NEW d \in Category \ {"authoritative"}
      PROVE  IsFiniteSet(Reserved(d)') /\ counters'[d] = Cardinality(Reserved(d)')
  <2>1. IsFiniteSet(Reserved(d)) /\ counters[d] = Cardinality(Reserved(d))
      BY DEF Backed
  <2>2. BytesOf(Recorded', Those(d)) = Reserved(d)
    <3>1. \A i \in Those(d) : Recorded'[i] = Recorded[i]
        BY <1>2 DEF Those
    <3> QED BY <3>1, SameBytes, ReservedIs
  <2>3. Reserved(d)' = BytesOf(Recorded', Those(d)')
      BY DEF Reserved, Recorded, Those
  <2>4. CASE d # c
    <3>1. Those(d)' = Those(d)
        BY <1>1, <2>4 DEF Those
    <3> QED BY <2>1, <2>2, <2>3, <2>4, <3>1
  <2>5. CASE d = c
    <3>1. Those(d)' = Those(d) \union {n} /\ n \notin Those(d)
        BY <1>1, <2>5 DEF Those
    <3>2. /\ IsFiniteSet(BytesOf(Recorded', Those(d) \union {n}))
          /\ Cardinality(BytesOf(Recorded', Those(d) \union {n})) = Cardinality(Reserved(d)) + b
        BY <1>3, <2>1, <2>2, <3>1, HolderJoins
    <3> QED BY <2>1, <2>3, <2>5, <3>1, <3>2
  <2> QED BY <2>4, <2>5
<1> QED BY <1>4 DEF Backed

LEMMA ReservationLeaves ==
  ASSUME LedgerTypeOK, Backed, NEW n \in Live, NEW c, c = reserved[n].category,
         reserved' = [i \in Live \ {n} |-> reserved[i]],
         counters'[c] = counters[c] - reserved[n].bytes,
         \A d \in Category \ {"authoritative", c} : counters'[d] = counters[d]
  PROVE  Backed'
<1>1. Live' = Live \ {n} /\ \A i \in Live \ {n} : reserved'[i] = reserved[i]
    BY DEF Live
<1>2. \A i \in Live \ {n} : Recorded'[i] = Recorded[i]
    BY <1>1 DEF Recorded
<1>3. Recorded[n] = reserved[n].bytes /\ reserved[n].bytes \in Nat
    BY DEF Recorded, LedgerTypeOK
<1>4. ASSUME NEW d \in Category \ {"authoritative"}
      PROVE  IsFiniteSet(Reserved(d)') /\ counters'[d] = Cardinality(Reserved(d)')
  <2>1. IsFiniteSet(Reserved(d)) /\ counters[d] = Cardinality(Reserved(d))
      BY DEF Backed
  <2>2. Those(d)' = Those(d) \ {n}
      BY <1>1 DEF Those
  <2>3. Reserved(d)' = BytesOf(Recorded, Those(d) \ {n})
    <3>1. Reserved(d)' = BytesOf(Recorded', Those(d) \ {n})
        BY <2>2 DEF Reserved, Recorded, Those
    <3>2. \A i \in Those(d) \ {n} : Recorded'[i] = Recorded[i]
        BY <1>2 DEF Those
    <3> QED BY <3>1, <3>2, SameBytes
  <2>4. CASE d # c
    <3>1. Those(d) \ {n} = Those(d)
        BY <2>4 DEF Those
    <3> QED BY <2>1, <2>3, <2>4, <3>1, ReservedIs
  <2>5. CASE d = c
    <3>1. n \in Those(d) /\ IsFiniteSet(BytesOf(Recorded, Those(d)))
        BY <2>1, <2>5, ReservedIs DEF Those
    <3>2. /\ IsFiniteSet(BytesOf(Recorded, Those(d) \ {n}))
          /\ Cardinality(BytesOf(Recorded, Those(d) \ {n}))
               = Cardinality(BytesOf(Recorded, Those(d))) - Recorded[n]
        BY <1>3, <3>1, HolderLeaves
    <3> QED BY <1>3, <2>1, <2>3, <2>5, <3>2, ReservedIs
  <2> QED BY <2>4, <2>5
<1> QED BY <1>4 DEF Backed

LEMMA SameReservations ==
  ASSUME Backed, reserved' = reserved,
         \A d \in Category \ {"authoritative"} : counters'[d] = counters[d]
  PROVE  Backed'
BY DEF Backed, Reserved, Live

LEMMA InitLedger == LedgerInit => LedgerInv
<1> SUFFICES ASSUME LedgerInit PROVE LedgerInv
    OBVIOUS
<1>1. /\ counters = [c \in Places |-> 0] /\ next_id = 1 /\ Live = {}
    BY DEF LedgerInit, Live, Places
<1>2. LedgerTypeOK
    BY <1>1 DEF LedgerTypeOK, Places
<1>3. WithinLimit /\ Balanced
    BY <1>1, BudgetAssumption DEF WithinLimit, Balanced, Places, Category
<1>4. Backed
  <2>1. \A c : Reserved(c) = {}
      BY <1>1 DEF Reserved, BytesOf
  <2> QED BY <1>1, <2>1, FS_EmptySet DEF Backed, Places
<1> QED BY <1>2, <1>3, <1>4 DEF LedgerInv

LEMMA UnchangedKeeps == ASSUME LedgerInv, UNCHANGED ledgerVars PROVE LedgerInv'
BY SameReservations DEF ledgerVars, LedgerInv, LedgerTypeOK, WithinLimit, Balanced, Live

(* A reservation adds the same bytes to its category and to the total. *)
LEMMA ReservePreserves ==
  ASSUME LedgerInv, NEW c \in Category \ {"authoritative"}, NEW b \in Nat, NEW r,
         Reserve(c, b, r)
  PROVE  LedgerInv'
<1>1. CASE b = 0
    BY <1>1, UnchangedKeeps DEF Reserve
<1>2. CASE b # 0
  <2>1. /\ b <= Limit - counters["total"]
        /\ next_id' = next_id + 1
        /\ reserved' = [i \in Live \union {next_id} |->
                          IF i = next_id THEN [category |-> c, bytes |-> b] ELSE reserved[i]]
        /\ counters' = [counters EXCEPT !["total"] = @ + b, ![c] = @ + b]
      BY <1>2 DEF Reserve, Fits, FollowingId
  <2>2. counters \in [Places -> Int] /\ next_id \in Nat \ {0} /\ Live \subseteq 1..(next_id - 1)
      BY DEF LedgerInv, LedgerTypeOK, Places
  <2>3. c \in Places /\ c # "total" /\ "total" \in Places /\ c # "authoritative"
      BY DEF Places, Category
  <2>4. counters' \in [Places -> Int]
      BY <2>1, <2>2, <2>3
  <2>5. /\ counters'["total"] = counters["total"] + b
        /\ counters'[c] = counters[c] + b
        /\ \A d \in Places \ {"total", c} : counters'[d] = counters[d]
      BY <2>1, <2>2, <2>3
  <2>6. WithinLimit'
      BY <2>1, <2>2, <2>3, <2>5, BudgetAssumption DEF WithinLimit
  <2>7. Balanced'
    <3>1. \A d \in Category : d \in Places /\ counters[d] \in Int
        BY <2>2 DEF Places
    <3>2. c \in {"conversion_scratch", "pinned_staging", "spill"}
        BY DEF Category
    <3>3. Balanced
        BY DEF LedgerInv
    <3> QED BY <2>2, <2>3, <2>5, <3>1, <3>2, <3>3 DEF Balanced, Places, Category
  <2>8. LedgerTypeOK'
    <3>1. Live' = Live \union {next_id}
        BY <2>1 DEF Live
    <3>2. Live' \subseteq 1..(next_id' - 1) /\ next_id' \in Nat \ {0}
        BY <2>1, <2>2, <3>1
    <3>3. ASSUME NEW i \in Live'
          PROVE  reserved'[i] \in [category : Category \ {"authoritative"}, bytes : Nat]
      <4>1. CASE i = next_id
          BY <2>1, <3>1, <4>1
      <4>2. CASE i # next_id
          BY <2>1, <3>1, <4>2 DEF LedgerInv, LedgerTypeOK
      <4> QED BY <4>1, <4>2
    <3> QED BY <2>4, <3>2, <3>3 DEF LedgerTypeOK, Places
  <2>9. Backed'
    <3>1. next_id \notin Live
        BY <2>2
    <3>2. \A d \in Category \ {"authoritative", c} : counters'[d] = counters[d]
        BY <2>5 DEF Places, Category
    <3> QED BY <2>1, <2>5, <3>1, <3>2, ReservationEnters DEF LedgerInv
  <2> QED BY <2>6, <2>7, <2>8, <2>9 DEF LedgerInv
<1> QED BY <1>1, <1>2

(* An identifier may be spent in vain. *)
LEMMA ReserveThrowsPreserves ==
  ASSUME LedgerInv, NEW c, NEW b, ReserveThrows(c, b)
  PROVE  LedgerInv'
<1>1. counters' = counters /\ reserved' = reserved /\ next_id' = next_id + 1
    BY DEF ReserveThrows, FollowingId
<1>2. Live' = Live
    BY <1>1 DEF Live
<1>3. Live \subseteq 1..(next_id - 1) /\ next_id \in Nat \ {0}
    BY DEF LedgerInv, LedgerTypeOK
<1>4. Live' \subseteq 1..(next_id' - 1) /\ next_id' \in Nat \ {0}
    BY <1>1, <1>2, <1>3
<1>5. LedgerTypeOK'
    BY <1>1, <1>2, <1>4 DEF LedgerInv, LedgerTypeOK
<1> QED BY <1>1, <1>5, SameReservations DEF LedgerInv, WithinLimit, Balanced

(* Reservations only leave: the types of those that stay are kept. *)
LEMMA FewerReservations ==
  ASSUME LedgerInv, NEW S, reserved' = [i \in Live \ S |-> reserved[i]], next_id' = next_id,
         counters' \in [Places -> Int]
  PROVE  LedgerTypeOK'
<1>1. Live' = Live \ S /\ \A i \in Live' : reserved'[i] = reserved[i]
    BY DEF Live
<1>2. Live \subseteq 1..(next_id - 1) /\ next_id \in Nat \ {0}
    BY DEF LedgerInv, LedgerTypeOK
<1> QED BY <1>1, <1>2 DEF LedgerInv, LedgerTypeOK, Places

(* A release takes the bytes the ledger recorded for the handle. *)
LEMMA ReleasePreserves ==
  ASSUME LedgerInv, NEW r \in Handle, Release(r)
  PROVE  LedgerInv'
<1>1. CASE r.bytes = 0
    BY <1>1, UnchangedKeeps DEF Release
<1>2. CASE r.bytes # 0
  <2>1. /\ Known(r)
        /\ reserved' = [i \in Live \ {r.id} |-> reserved[i]]
        /\ counters' = [counters EXCEPT !["total"] = @ - r.bytes, ![r.category] = @ - r.bytes]
        /\ next_id' = next_id
      BY <1>2 DEF Release, Releasable
  <2>2. counters \in [Places -> Int]
      BY DEF LedgerInv, LedgerTypeOK, Places
  <2>3. r.bytes \in Nat /\ r.category \in Category \ {"authoritative"}
    <3>1. reserved[r.id] \in [category : Category \ {"authoritative"}, bytes : Nat]
        BY <2>1 DEF Known, LedgerInv, LedgerTypeOK
    <3>2. reserved[r.id].category = r.category /\ reserved[r.id].bytes = r.bytes
        BY <2>1 DEF Known
    <3> QED BY <3>1, <3>2
  <2>4. r.category \in Places /\ r.category # "total" /\ "total" \in Places
      BY <2>3 DEF Places, Category
  <2>5. counters' \in [Places -> Int]
      BY <2>1, <2>2, <2>3, <2>4
  <2>6. /\ counters'["total"] = counters["total"] - r.bytes
        /\ counters'[r.category] = counters[r.category] - r.bytes
        /\ \A d \in Places \ {"total", r.category} : counters'[d] = counters[d]
      BY <2>1, <2>2, <2>3, <2>4
  <2>7. WithinLimit'
      BY <2>2, <2>3, <2>4, <2>6, BudgetAssumption DEF LedgerInv, WithinLimit
  <2>8. Balanced'
    <3>1. \A d \in Category : d \in Places /\ counters[d] \in Int
        BY <2>2 DEF Places
    <3>2. r.category \in {"conversion_scratch", "pinned_staging", "spill"}
        BY <2>3 DEF Category
    <3>3. Balanced
        BY DEF LedgerInv
    <3> QED BY <2>2, <2>3, <2>4, <2>6, <3>1, <3>2, <3>3 DEF Balanced, Places, Category
  <2>9. LedgerTypeOK'
      BY <2>1, <2>5, FewerReservations
  <2>10. Backed'
    <3>1. r.id \in Live /\ reserved[r.id].category = r.category /\ reserved[r.id].bytes = r.bytes
        BY <2>1 DEF Known
    <3>2. \A d \in Category \ {"authoritative", r.category} : counters'[d] = counters[d]
        BY <2>6 DEF Places, Category
    <3>3. counters'[r.category] = counters[r.category] - reserved[r.id].bytes
        BY <2>6, <3>1
    <3>4. LedgerTypeOK /\ Backed
        BY DEF LedgerInv
    <3>5. r.category = reserved[r.id].category
        BY <3>1
    <3>6. reserved' = [i \in Live \ {r.id} |-> reserved[i]]
        BY <2>1
    <3>7. r.id \in Live
        BY <3>1
    <3> QED BY <3>2, <3>3, <3>4, <3>5, <3>6, <3>7, ReservationLeaves
  <2> QED BY <2>7, <2>8, <2>9, <2>10 DEF LedgerInv
<1> QED BY <1>1, <1>2

(* A commit moves `new` bytes to the authoritative charge, and gives back   *)
(* what the reservation held beyond them and what the old image held.       *)
LEMMA CommitPreserves ==
  ASSUME LedgerInv, NEW r \in Handle, NEW old \in Nat, NEW new \in Nat, Commit(r, old, new)
  PROVE  LedgerInv'
<1>1. /\ r.category \in {"conversion_scratch", "spill"} /\ r.bytes \in Nat /\ r.bytes >= new
      /\ reserved' = IF r.bytes = 0 THEN reserved ELSE [i \in Live \ {r.id} |-> reserved[i]]
      /\ next_id' = next_id
    BY DEF Commit, MayCommit, Convertible, Handle
<1>2. counters \in [Places -> Int]
    BY DEF LedgerInv, LedgerTypeOK, Places
<1>3. counters' = [c \in Places |->
                     CASE c = r.category -> counters[c] - r.bytes
                       [] c = "authoritative" -> counters[c] - old + new
                       [] c = "total" -> counters[c] - old - (r.bytes - new)
                       [] OTHER -> counters[c]]
    BY DEF Commit, Unused, Places
<1>4. Places = {"authoritative", "conversion_scratch", "pinned_staging", "spill", "total"}
    BY DEF Places, Category
<1>5. /\ counters'[r.category] = counters[r.category] - r.bytes
      /\ counters'["authoritative"] = counters["authoritative"] - old + new
      /\ counters'["total"] = counters["total"] - old - (r.bytes - new)
      /\ \A d \in Places \ {r.category, "authoritative", "total"} : counters'[d] = counters[d]
    BY <1>1, <1>3, <1>4
<1>6. \A d \in Places : counters[d] \in Int
    BY <1>2
<1>7. counters' \in [Places -> Int]
  <2>1. \A d \in Places : counters'[d] \in Int
      BY <1>1, <1>4, <1>5, <1>6
  <2> QED BY <1>3, <2>1
<1>8. WithinLimit'
    BY <1>1, <1>4, <1>5, <1>6, BudgetAssumption DEF LedgerInv, WithinLimit
<1>9. Balanced'
  <2>1. Balanced
      BY DEF LedgerInv
  <2>2. CASE r.category = "spill"
    <3>1. /\ counters'["conversion_scratch"] = counters["conversion_scratch"]
          /\ counters'["pinned_staging"] = counters["pinned_staging"]
        BY <1>4, <1>5, <2>2
    <3> QED BY <1>1, <1>4, <1>5, <1>6, <2>1, <2>2, <3>1 DEF Balanced
  <2>3. CASE r.category = "conversion_scratch"
    <3>1. /\ counters'["spill"] = counters["spill"]
          /\ counters'["pinned_staging"] = counters["pinned_staging"]
        BY <1>4, <1>5, <2>3
    <3> QED BY <1>1, <1>4, <1>5, <1>6, <2>1, <2>3, <3>1 DEF Balanced
  <2> QED BY <1>1, <2>2, <2>3
<1>10. LedgerTypeOK'
  <2>1. CASE r.bytes = 0
    <3>1. reserved' = reserved /\ Live' = Live
        BY <1>1, <2>1 DEF Live
    <3> QED BY <1>1, <1>7, <3>1 DEF LedgerInv, LedgerTypeOK, Places
  <2>2. CASE r.bytes # 0
      BY <1>1, <1>7, <2>2, FewerReservations
  <2> QED BY <2>1, <2>2
<1>11. Backed'
  <2>1. \A d \in Category \ {"authoritative", r.category} : counters'[d] = counters[d]
      BY <1>4, <1>5 DEF Category
  <2>2. CASE r.bytes = 0
    <3>1. r.category \in Places /\ counters'[r.category] = counters[r.category]
        BY <1>1, <1>4, <1>5, <1>6, <2>2
    <3>2. reserved' = reserved
        BY <1>1, <2>2
    <3> QED BY <2>1, <3>1, <3>2, SameReservations DEF LedgerInv
  <2>3. CASE r.bytes # 0
    <3>1. /\ r.id \in Live /\ reserved[r.id].category = r.category
          /\ reserved[r.id].bytes = r.bytes
        BY <2>3 DEF Commit, MayCommit, Known
    <3>2. reserved' = [i \in Live \ {r.id} |-> reserved[i]]
        BY <1>1, <2>3
    <3> QED BY <1>5, <2>1, <3>1, <3>2, ReservationLeaves DEF LedgerInv
  <2> QED BY <2>2, <2>3
<1> QED BY <1>8, <1>9, <1>10, <1>11 DEF LedgerInv

(* Erasing a chunk lowers the authoritative charge and the total alike. *)
LEMMA ReleaseAuthoritativePreserves ==
  ASSUME LedgerInv, NEW b \in Nat, ReleaseAuthoritative(b)
  PROVE  LedgerInv'
<1>1. /\ counters' = [counters EXCEPT !["total"] = @ - b, !["authoritative"] = @ - b]
      /\ reserved' = reserved /\ next_id' = next_id
    BY DEF ReleaseAuthoritative
<1>2. counters \in [Places -> Int] /\ "total" \in Places /\ "authoritative" \in Places
    BY DEF LedgerInv, LedgerTypeOK, Places, Category
<1>3. counters' \in [Places -> Int]
    BY <1>1, <1>2
<1>4. /\ counters'["total"] = counters["total"] - b
      /\ counters'["authoritative"] = counters["authoritative"] - b
      /\ \A d \in Places \ {"total", "authoritative"} : counters'[d] = counters[d]
    BY <1>1, <1>2
<1>5. \A d \in Places : counters[d] \in Int
    BY <1>2
<1>6. WithinLimit'
    BY <1>2, <1>4, <1>5, BudgetAssumption DEF LedgerInv, WithinLimit
<1>7. Balanced'
    BY <1>4, <1>5 DEF LedgerInv, Balanced, Places, Category
<1>8. LedgerTypeOK'
    BY <1>1, <1>3 DEF LedgerInv, LedgerTypeOK, Live, Places
<1>9. Backed'
  <2>1. \A d \in Category \ {"authoritative"} : counters'[d] = counters[d]
      BY <1>4 DEF Places, Category
  <2> QED BY <1>1, <2>1, SameReservations DEF LedgerInv
<1> QED BY <1>6, <1>7, <1>8, <1>9 DEF LedgerInv

LEMMA LedgerStep == LedgerInv /\ [LedgerNext]_ledgerVars => LedgerInv'
<1> SUFFICES ASSUME LedgerInv, [LedgerNext]_ledgerVars PROVE LedgerInv'
    OBVIOUS
<1>1. ASSUME NEW c \in Category \ {"authoritative"}, NEW b \in Bytes, ReserveThrows(c, b)
      PROVE  LedgerInv'
    BY <1>1, ReserveThrowsPreserves
<1>2. ASSUME NEW c \in Category \ {"authoritative"}, NEW b \in Bytes, NEW r, Reserve(c, b, r)
      PROVE  LedgerInv'
    BY <1>2, ReservePreserves, BudgetAssumption
<1>3. ASSUME NEW id \in 0..MaxReserves, NEW c \in Category \ {"authoritative"}, NEW b \in Bytes,
             Release([id |-> id, category |-> c, bytes |-> b])
      PROVE  LedgerInv'
  <2>1. [id |-> id, category |-> c, bytes |-> b] \in Handle
      BY BudgetAssumption DEF Handle
  <2> QED BY <1>3, <2>1, ReleasePreserves
<1>4. ASSUME NEW id \in 0..MaxReserves, NEW c \in Category \ {"authoritative"}, NEW b \in Bytes,
             NEW old \in Bytes, NEW new \in Bytes,
             Commit([id |-> id, category |-> c, bytes |-> b], old, new)
      PROVE  LedgerInv'
  <2>1. [id |-> id, category |-> c, bytes |-> b] \in Handle
      BY BudgetAssumption DEF Handle
  <2>2. old \in Nat /\ new \in Nat
      BY BudgetAssumption
  <2> QED BY <1>4, <2>1, <2>2, CommitPreserves
<1>5. ASSUME NEW b \in Bytes, ReleaseAuthoritative(b)
      PROVE  LedgerInv'
    BY <1>5, ReleaseAuthoritativePreserves, BudgetAssumption
<1>6. ASSUME UNCHANGED ledgerVars
      PROVE  LedgerInv'
    BY <1>6, UnchangedKeeps
<1> QED BY <1>1, <1>2, <1>3, <1>4, <1>5, <1>6 DEF LedgerNext

(* The ledger's own promise: what it has charged is within the limit, is    *)
(* the sum of its categories, each of them is what its live reservations    *)
(* hold, and no identifier is live that was not given.                      *)
THEOREM LedgerSafe == LedgerSpec => []LedgerHolds
<1>1. LedgerSpec => []LedgerInv
    BY InitLedger, LedgerStep, PTL DEF LedgerSpec
<1>2. LedgerInv => LedgerHolds
    BY DEF LedgerInv, Backed, LedgerHolds, CountersMatchReservations
<1> QED BY <1>1, <1>2, PTL

-----------------------------------------------------------------------------
(* The host store. *)

Argument == Content \union Partial \union {NoContent}
OpRec == [pc : {"idle", "reserve", "build", "commit"}, kind : Kinds \union {"none", "register"},
          key : Key \union {NoKey}, prev : Image \union {NoImage}, new : Image \union {NoImage},
          arg : Argument, res : Handle]

(* The snapshot of an operation is no newer than the chunk, and if it has   *)
(* the same generation it is the same image: this is what makes comparing   *)
(* generations at the commit sufficient.                                    *)
FollowsChunk(o) ==
  o.key \in Registered =>
    /\ o.prev.generation <= chunks[o.key].generation
    /\ o.prev.generation = chunks[o.key].generation => o.prev = chunks[o.key]

Started(o) ==
  /\ o.kind \in Kinds /\ o.key \in Key
  /\ o.prev \in Image /\ Truthful(o.prev) /\ Allowed(o.kind, o.prev)
  /\ o.prev.generation < MaxGeneration

Built(o) ==
  /\ o.new \in Image /\ Truthful(o.new)
  /\ o.new.generation = o.prev.generation + 1
  /\ o.new.content = Effect(o.kind, o.arg, o.prev.content)

Entering(o) ==
  /\ o.key \in Key \ Registered
  /\ o.new \in Image /\ Truthful(o.new)
  /\ o.pc \in {"reserve", "commit"}

OpOK(o) ==
  /\ o.pc = "idle" => o = Idle
  /\ o.pc # "idle" /\ o.kind # "register" => Started(o) /\ FollowsChunk(o)
  /\ o.pc = "commit" /\ o.kind # "register" => Built(o)
  /\ o.kind = "register" => Entering(o)

(* Who registers a key has it to itself. *)
Alone(c) == op[c].kind = "register" => \A d \in Client \ {c} : op[d].key # op[c].key

ChunksOK ==
  /\ chunks \in [Registered -> Image] /\ Registered \subseteq Key
  /\ \A k \in Registered : Truthful(chunks[k])
OpsOK ==
  /\ op \in [Client -> OpRec]
  /\ \A c \in Client : OpOK(op[c]) /\ Alone(c)

StoreInv == LedgerInv /\ ChunksOK /\ OpsOK

-----------------------------------------------------------------------------
LEMMA Sizes == RawCharge \in Nat /\ Meta \in Nat \ {0} /\ RawCharge >= Meta
<1>1. Cardinality(Block) \in Nat
    BY BackingAssumption, FS_CardinalityType
<1> QED BY <1>1, BackingAssumption DEF RawCharge

LEMMA NothingIsHandle == Nothing \in Handle
BY DEF Nothing, Handle, Category

LEMMA IdleOK == Idle \in OpRec /\ OpOK(Idle)
<1>1. Idle \in OpRec
    BY NothingIsHandle DEF Idle, Operation, OpRec, Argument
<1> QED BY <1>1 DEF OpOK, Idle, Operation

LEMMA InitStore == Init => StoreInv
<1> SUFFICES ASSUME Init PROVE StoreInv
    OBVIOUS
<1>1. LedgerInv
    BY InitLedger DEF Init
<1>2. ChunksOK
    BY DEF Init, ChunksOK, Registered
<1>3. OpsOK
  <2>1. op = [c \in Client |-> Idle]
      BY DEF Init
  <2>2. \A c \in Client : OpOK(op[c]) /\ op[c].kind = "none"
      BY <2>1, IdleOK DEF Idle, Operation
  <2> QED BY <2>1, <2>2, IdleOK DEF OpsOK, Alone
<1> QED BY <1>1, <1>2, <1>3 DEF StoreInv

(* A step that changes the operation of one client and no chunk. *)
LEMMA OneOp ==
  ASSUME StoreInv, NEW c \in Client, NEW x \in OpRec, UNCHANGED chunks,
         op' = [op EXCEPT ![c] = x], OpOK(x),
         x.kind = "register" => \A d \in Client \ {c} : op[d].key # x.key,
         \A d \in Client \ {c} : op[d].kind = "register" => x.key # op[d].key
  PROVE  ChunksOK' /\ OpsOK'
<1>1. chunks' = chunks /\ Registered' = Registered
    BY DEF Registered
<1>2. ChunksOK'
    BY <1>1 DEF StoreInv, ChunksOK
<1>3. op' \in [Client -> OpRec] /\ op'[c] = x /\ \A d \in Client \ {c} : op'[d] = op[d]
    BY DEF StoreInv, OpsOK
<1>4. ASSUME NEW d \in Client
      PROVE  OpOK(op[d])'
  <2>1. OpOK(op'[d])
      BY <1>3 DEF StoreInv, OpsOK
  <2> QED BY <1>1, <2>1 DEF OpOK, Started, FollowsChunk, Built, Entering
<1>5. ASSUME NEW d \in Client
      PROVE  Alone(d)'
  <2>1. Alone(d)
      BY DEF StoreInv, OpsOK
  <2>2. CASE d = c
      BY <1>3, <2>2 DEF Alone
  <2>3. CASE d # c
      BY <1>3, <2>1, <2>3 DEF Alone
  <2> QED BY <2>2, <2>3
<1> QED BY <1>2, <1>3, <1>4, <1>5 DEF OpsOK

(* The operation ends without having changed a chunk. *)
LEMMA OpEnds ==
  ASSUME StoreInv, NEW c \in Client, UNCHANGED chunks, op' = [op EXCEPT ![c] = Idle]
  PROVE  ChunksOK' /\ OpsOK'
<1>1. \A d \in Client : op[d].kind = "register" => op[d].key # NoKey
    BY BackingAssumption DEF StoreInv, OpsOK, OpOK, Entering
<1>2. Idle.kind # "register" /\ Idle.key = NoKey
    BY DEF Idle, Operation
<1> QED BY <1>1, <1>2, IdleOK, OneOp

LEMMA UnchangedLedger ==
  ASSUME StoreInv, UNCHANGED ledgerVars
  PROVE  LedgerInv'
BY UnchangedKeeps DEF StoreInv

-----------------------------------------------------------------------------
LEMMA StartKeeps == ASSUME StoreInv, NEW c \in Client, Start(c) PROVE StoreInv'
<1>1. PICK k \in Registered, kind \in Kinds :
        /\ Allowed(kind, chunks[k]) /\ chunks[k].generation < MaxGeneration
        /\ op' = [op EXCEPT ![c] = Operation("reserve", kind, k, chunks[k], NoImage)]
    BY DEF Start
<1>2. UNCHANGED <<ledgerVars, chunks>>
    BY DEF Start
<1> DEFINE x == Operation("reserve", kind, k, chunks[k], NoImage)
<1>3. /\ x = [pc |-> "reserve", kind |-> kind, key |-> k, prev |-> chunks[k], new |-> NoImage,
              arg |-> NoContent, res |-> Nothing]
    BY DEF Operation
<1>10. kind # "register"
    BY DEF Kinds
<1>4. k \in Key /\ chunks[k] \in Image /\ Truthful(chunks[k]) /\ chunks[k].generation \in Nat
    BY BackingAssumption DEF StoreInv, ChunksOK, Image
<1>5. x \in OpRec
    BY <1>3, <1>4, NothingIsHandle DEF OpRec, Argument
<1>6. OpOK(x)
    BY <1>1, <1>3, <1>4, <1>10 DEF OpOK, Started, FollowsChunk
<1>7. \A d \in Client : op[d].kind = "register" => op[d].key # k
    BY DEF StoreInv, OpsOK, OpOK, Entering
<1>8. op' = [op EXCEPT ![c] = x] /\ x.kind # "register" /\ x.key = k
    BY <1>1, <1>3, <1>10
<1> HIDE DEF x
<1>9. ChunksOK' /\ OpsOK'
    BY <1>2, <1>5, <1>6, <1>7, <1>8, OneOp
<1> QED BY <1>2, <1>9, UnchangedLedger DEF StoreInv

(* The image a chunk is registered with is well formed. *)
LEMMA FirstImage ==
  ASSUME NEW r \in Representation \ {"lz4_blocks"},
         NEW i \in Images(r, 1, IF r = "invalid" THEN NoContent ELSE ZeroContent)
  PROVE  i \in Image /\ Truthful(i)
<1>1. ZeroContent \in Content /\ NoContent # ZeroContent
  <2>1. ZeroContent \in Content
    <3>1. Data # {}
        BY BackingAssumption
    <3> QED BY <3>1 DEF ZeroContent, Content, Zero
  <2> QED BY <2>1, BackingAssumption
<1>2. /\ i.generation = 1 /\ i.representation = r /\ i.charge \in ChargesOf(r)
      /\ i.content = IF r = "invalid" THEN NoContent ELSE ZeroContent
      /\ i = [representation |-> i.representation, generation |-> i.generation,
              content |-> i.content, charge |-> i.charge]
    BY DEF Images
<1>3. i.charge \in 0..RawCharge /\ (r # "invalid" => i.charge >= Meta)
    BY <1>2, Sizes DEF ChargesOf, Representation
<1>4. i.generation \in 1..MaxGeneration
    BY <1>2, BackingAssumption
<1> QED BY <1>1, <1>2, <1>3, <1>4 DEF Image, Truthful

LEMMA StartRegisterKeeps ==
  ASSUME StoreInv, NEW c \in Client, StartRegister(c)
  PROVE  StoreInv'
<1>0. PICK k \in Key \ Registered, r \in Representation \ {"lz4_blocks"} :
        /\ \A d \in Client : op[d].key # k
        /\ \E i \in Images(r, 1, IF r = "invalid" THEN NoContent ELSE ZeroContent) :
             op' = [op EXCEPT ![c] = Operation("reserve", "register", k, NoImage, i)]
    BY DEF StartRegister
<1>1. PICK i \in Images(r, 1, IF r = "invalid" THEN NoContent ELSE ZeroContent) :
        op' = [op EXCEPT ![c] = Operation("reserve", "register", k, NoImage, i)]
    BY <1>0
<1>2. UNCHANGED <<ledgerVars, chunks>>
    BY DEF StartRegister
<1> DEFINE x == Operation("reserve", "register", k, NoImage, i)
<1>3. x = [pc |-> "reserve", kind |-> "register", key |-> k, prev |-> NoImage, new |-> i,
           arg |-> NoContent, res |-> Nothing]
    BY DEF Operation
<1>4. i \in Image /\ Truthful(i)
    BY FirstImage
<1>5. x \in OpRec
    BY <1>3, <1>4, NothingIsHandle DEF OpRec, Argument
<1>6. OpOK(x)
    BY <1>3, <1>4 DEF OpOK, Entering
<1>7. op' = [op EXCEPT ![c] = x] /\ x.key = k
    BY <1>1, <1>3
<1> HIDE DEF x
<1>8. ChunksOK' /\ OpsOK'
    BY <1>0, <1>2, <1>5, <1>6, <1>7, OneOp
<1> QED BY <1>2, <1>8, UnchangedLedger DEF StoreInv

-----------------------------------------------------------------------------
(* What an operation of the store holds, unfolded once. *)
LEMMA AnOp ==
  ASSUME StoreInv, NEW c \in Client
  PROVE  op[c] \in OpRec /\ OpOK(op[c]) /\ Alone(c)
BY DEF StoreInv, OpsOK

LEMMA AmountIsNat ==
  ASSUME StoreInv, NEW c \in Client, op[c].pc = "reserve"
  PROVE  /\ Amount(c) \in Nat
         /\ CategoryOf(op[c].kind) \in {"spill", "conversion_scratch"}
<1>1. CASE op[c].kind = "register"
  <2>1. op[c].new \in Image
      BY <1>1, AnOp DEF OpOK, Entering
  <2>2. op[c].new.charge \in Nat
      BY <2>1, Sizes DEF Image
  <2> QED BY <1>1, <2>2 DEF Amount, CategoryOf
<1>2. CASE op[c].kind # "register"
    BY <1>2, Sizes DEF Amount, Need, CategoryOf
<1> QED BY <1>1, <1>2

Handed(c, id) == [id |-> id, category |-> CategoryOf(op[c].kind), bytes |-> Amount(c)]

(* The reservation is entered in the operation. *)
LEMMA ReserveFirstKeeps ==
  ASSUME StoreInv, NEW c \in Client, ReserveFirst(c)
  PROVE  StoreInv'
<1>1. PICK id \in {0, next_id} :
        /\ Reserve(Handed(c, id).category, Handed(c, id).bytes, Handed(c, id))
        /\ op' = [op EXCEPT ![c].pc = Next1(c), ![c].res = Handed(c, id)]
    BY DEF ReserveFirst, Handed
<1> DEFINE x == [op[c] EXCEPT !.pc = Next1(c), !.res = Handed(c, id)]
<1>2. chunks' = chunks /\ op[c].pc = "reserve"
    BY DEF ReserveFirst
<1>3. /\ Amount(c) \in Nat /\ CategoryOf(op[c].kind) \in Category \ {"authoritative"}
      /\ Handed(c, id).category = CategoryOf(op[c].kind) /\ Handed(c, id).bytes = Amount(c)
    BY <1>2, AmountIsNat DEF Category, Handed
<1>4. LedgerInv'
  <2>1. Reserve(CategoryOf(op[c].kind), Amount(c), Handed(c, id))
      BY <1>1, <1>3
  <2> QED BY <1>3, <2>1, ReservePreserves DEF StoreInv
<1>5. Handed(c, id) \in Handle
  <2>1. id \in Nat
      BY DEF StoreInv, LedgerInv, LedgerTypeOK
  <2> QED BY <1>3, <2>1 DEF Handle, Handed
<1>6. op' = [op EXCEPT ![c] = x]
  <2>1. op' = [op EXCEPT ![c].pc = Next1(c), ![c].res = Handed(c, id)]
      BY <1>1
  <2>2. op \in [Client -> OpRec]
      BY DEF StoreInv, OpsOK
  <2> QED BY <2>1, <2>2
<1>7. op[c] \in OpRec /\ OpOK(op[c]) /\ Alone(c)
    BY AnOp
<1>8. x \in OpRec /\ x.pc = Next1(c) /\ x.kind = op[c].kind /\ x.key = op[c].key
      /\ x.prev = op[c].prev /\ x.new = op[c].new
  <2>1. Next1(c) \in {"commit", "build"}
      BY DEF Next1
  <2> QED BY <1>5, <1>7, <2>1 DEF OpRec
<1> HIDE DEF x
<1>9. OpOK(x)
  <2>1. CASE op[c].kind = "register"
    <3>1. x.pc = "commit" /\ Entering(op[c])
        BY <1>7, <1>8, <2>1 DEF Next1, OpOK
    <3> QED BY <1>8, <2>1, <3>1 DEF OpOK, Entering
  <2>2. CASE op[c].kind # "register"
    <3>1. x.pc = "build" /\ Started(op[c]) /\ FollowsChunk(op[c])
        BY <1>2, <1>7, <1>8, <2>2 DEF Next1, OpOK
    <3> QED BY <1>8, <2>2, <3>1 DEF OpOK, Started, FollowsChunk
  <2> QED BY <2>1, <2>2
<1>10. /\ x.kind = "register" => \A d \in Client \ {c} : op[d].key # x.key
       /\ \A d \in Client \ {c} : op[d].kind = "register" => x.key # op[d].key
  <2>1. \A d \in Client \ {c} : Alone(d)
      BY AnOp
  <2> QED BY <1>7, <1>8, <2>1 DEF Alone
<1>11. ChunksOK' /\ OpsOK'
    BY <1>2, <1>6, <1>8, <1>9, <1>10, OneOp
<1> QED BY <1>4, <1>11 DEF StoreInv

LEMMA ReserveFailsKeeps ==
  ASSUME StoreInv, NEW c \in Client, ReserveFails(c)
  PROVE  StoreInv'
<1>1. ChunksOK' /\ OpsOK'
    BY OpEnds DEF ReserveFails
<1>2. LedgerInv'
  <2>1. CASE UNCHANGED ledgerVars
      BY <2>1, UnchangedLedger
  <2>2. CASE ReserveThrows(CategoryOf(op[c].kind), Amount(c))
      BY <2>2, ReserveThrowsPreserves DEF StoreInv
  <2> QED BY <2>1, <2>2 DEF ReserveFails
<1> QED BY <1>1, <1>2 DEF StoreInv

(* An operation that ends without a commit gives back what it reserved. *)
LEMMA GivingUpKeeps ==
  ASSUME StoreInv, NEW c \in Client, GiveBack(op[c].res), UNCHANGED chunks,
         op' = [op EXCEPT ![c] = Idle]
  PROVE  StoreInv'
<1>1. op[c].res \in Handle
    BY AnOp DEF OpRec
<1>2. LedgerInv'
    BY <1>1, ReleasePreserves DEF GiveBack, StoreInv
<1> QED BY <1>2, OpEnds DEF StoreInv

-----------------------------------------------------------------------------
(* What an operation makes of the content is again a content. *)
LEMMA EffectIsContent ==
  ASSUME NEW kind \in Kinds, NEW arg \in Args(kind), NEW image \in Image,
         Truthful(image), Allowed(kind, image)
  PROVE  IF kind = "invalidate" THEN Effect(kind, arg, image.content) = NoContent
         ELSE Effect(kind, arg, image.content) \in Content
<1>1. image.representation # "invalid" => image.content \in Content
    BY DEF Truthful, Image
<1>2. CASE kind \in {"replace", "prepared", "commit_lz4"}
    BY <1>2 DEF Effect, Args
<1>3. CASE kind = "write"
  <2>1. image.content \in Content /\ arg \in Partial
      BY <1>1, <1>3 DEF Allowed, Args
  <2>2. PICK B \in SUBSET Block \ {{}, Block} : arg \in [B -> Data]
      BY <2>1 DEF Partial
  <2>3. \A b \in Block : (IF b \in DOMAIN arg THEN arg[b] ELSE image.content[b]) \in Data
      BY <2>1, <2>2 DEF Content
  <2> QED BY <1>3, <2>3 DEF Effect, Content
<1>4. CASE kind = "zero"
  <2>1. ZeroContent \in Content
      BY BackingAssumption DEF ZeroContent, Content, Zero
  <2> QED BY <1>4, <2>1 DEF Effect
<1>5. CASE kind = "invalidate"
    BY <1>5 DEF Effect
<1>6. CASE kind \in {"compress", "materialize"}
  <2>1. image.representation # "invalid"
      BY <1>6 DEF Allowed
  <2> QED BY <1>1, <1>6, <2>1 DEF Effect
<1> QED BY <1>2, <1>3, <1>4, <1>5, <1>6 DEF Kinds

(* The image that is built: typed, truthful and one generation on. *)
LEMMA BuiltImage ==
  ASSUME NEW kind \in Kinds, NEW arg \in Args(kind), NEW image \in Image,
         Truthful(image), Allowed(kind, image), image.generation < MaxGeneration,
         NEW i \in Images(Made(kind, image.representation), image.generation + 1,
                          Effect(kind, arg, image.content))
  PROVE  /\ i \in Image /\ Truthful(i)
         /\ i.generation = image.generation + 1
         /\ i.content = Effect(kind, arg, image.content)
<1> DEFINE made == Made(kind, image.representation)
<1>1. /\ i.generation = image.generation + 1 /\ i.representation = made
      /\ i.content = Effect(kind, arg, image.content) /\ i.charge \in ChargesOf(made)
      /\ i = [representation |-> i.representation, generation |-> i.generation,
              content |-> i.content, charge |-> i.charge]
    BY DEF Images
<1>2. /\ made \in {"raw", "lz4_blocks", "implicit_zero", "invalid"}
      /\ made = "invalid" <=> kind = "invalidate"
      /\ made = "implicit_zero" => kind = "zero"
    BY DEF Made, WriteMakes, Kinds
<1>3. i.charge \in 0..RawCharge /\ (made # "invalid" => i.charge >= Meta)
    BY <1>1, <1>2, Sizes DEF ChargesOf
<1>4. i.generation \in 1..MaxGeneration
    BY <1>1, BackingAssumption DEF Image
<1>5. /\ i.content \in Content \union {NoContent}
      /\ made = "invalid" <=> i.content = NoContent
      /\ made = "implicit_zero" => i.content = ZeroContent
    BY <1>1, <1>2, EffectIsContent, BackingAssumption DEF Effect
<1> HIDE DEF made
<1>6. i \in Image
    BY <1>1, <1>2, <1>3, <1>4, <1>5 DEF Image, Representation
<1> QED BY <1>1, <1>2, <1>3, <1>5, <1>6 DEF Truthful

LEMMA BuildKeeps == ASSUME StoreInv, NEW c \in Client, Build(c) PROVE StoreInv'
<1>1. op[c] \in OpRec /\ OpOK(op[c]) /\ Alone(c) /\ op[c].pc = "build"
    BY AnOp DEF Build
<1>2. op[c].kind # "register" /\ Started(op[c]) /\ FollowsChunk(op[c])
    BY <1>1 DEF OpOK, Entering
<1> DEFINE kind == op[c].kind
           prev == op[c].prev
<1>3. PICK arg \in Args(kind) :
        \E i \in Images(Made(kind, prev.representation), prev.generation + 1,
                        Effect(kind, arg, prev.content)) :
          op' = [op EXCEPT ![c].pc = "commit", ![c].new = i, ![c].arg = arg]
    BY DEF Build
<1>4. PICK i \in Images(Made(kind, prev.representation), prev.generation + 1,
                        Effect(kind, arg, prev.content)) :
        op' = [op EXCEPT ![c].pc = "commit", ![c].new = i, ![c].arg = arg]
    BY <1>3
<1>5. /\ i \in Image /\ Truthful(i) /\ i.generation = prev.generation + 1
      /\ i.content = Effect(kind, arg, prev.content)
    BY <1>2, BuiltImage DEF Started
<1>6. arg \in Argument
    BY DEF Args, Argument
<1> DEFINE x == [op[c] EXCEPT !.pc = "commit", !.new = i, !.arg = arg]
<1>7. op' = [op EXCEPT ![c] = x]
    BY <1>4 DEF StoreInv, OpsOK
<1>8. /\ x \in OpRec /\ x.pc = "commit" /\ x.kind = kind /\ x.key = op[c].key /\ x.prev = prev
      /\ x.new = i /\ x.arg = arg
    BY <1>1, <1>5, <1>6 DEF OpRec
<1> HIDE DEF x
<1>9. OpOK(x)
    BY <1>2, <1>5, <1>8 DEF OpOK, Started, FollowsChunk, Built
<1>10. \A d \in Client \ {c} : op[d].kind = "register" => x.key # op[d].key
    BY <1>8, AnOp DEF Alone
<1>11. UNCHANGED <<ledgerVars, chunks>>
    BY DEF Build
<1>12. ChunksOK' /\ OpsOK'
    BY <1>2, <1>7, <1>8, <1>9, <1>10, <1>11, OneOp
<1> QED BY <1>11, <1>12, UnchangedLedger DEF StoreInv

(* What a commit finds: the very image its operation started from. *)
LEMMA SnapshotIsCurrent ==
  ASSUME StoreInv, NEW c \in Client, op[c].pc = "commit", op[c].kind # "register", Current(c)
  PROVE  /\ op[c].key \in Registered /\ op[c].prev = chunks[op[c].key]
         /\ Started(op[c]) /\ Built(op[c])
BY AnOp DEF Current, OpOK, FollowsChunk

LEMMA CommitExistingKeeps ==
  ASSUME StoreInv, NEW c \in Client, CommitExisting(c)
  PROVE  StoreInv'
<1> DEFINE k == op[c].key
           new == op[c].new
<1>1. /\ op[c].pc = "commit" /\ op[c].kind # "register" /\ Current(c)
      /\ Commit(op[c].res, chunks[k].charge, new.charge)
      /\ chunks' = [chunks EXCEPT ![k] = new]
      /\ op' = [op EXCEPT ![c] = Idle]
    BY DEF CommitExisting
<1>2. k \in Registered /\ op[c].prev = chunks[k] /\ Started(op[c]) /\ Built(op[c])
    BY <1>1, SnapshotIsCurrent
<1>3. new \in Image /\ Truthful(new) /\ new.generation = chunks[k].generation + 1
    BY <1>2 DEF Built
<1>4. chunks \in [Registered -> Image] /\ chunks[k] \in Image
    BY <1>2 DEF StoreInv, ChunksOK
<1>5. LedgerInv'
  <2>1. op[c].res \in Handle
      BY AnOp DEF OpRec
  <2>2. chunks[k].charge \in Nat /\ new.charge \in Nat
      BY <1>3, <1>4, Sizes DEF Image
  <2> QED BY <1>1, <2>1, <2>2, CommitPreserves DEF StoreInv
<1>6. /\ Registered' = Registered /\ chunks'[k] = new
      /\ \A j \in Registered \ {k} : chunks'[j] = chunks[j]
    BY <1>1, <1>2 DEF Registered
<1>7. ChunksOK'
  <2>1. chunks' \in [Registered -> Image]
      BY <1>1, <1>3, <1>4
  <2>2. ASSUME NEW j \in Registered
        PROVE  Truthful(chunks'[j])
    <3>1. CASE j = k
        BY <1>3, <1>6, <3>1
    <3>2. CASE j # k
        BY <1>6, <3>2 DEF StoreInv, ChunksOK
    <3> QED BY <3>1, <3>2
  <2> QED BY <1>6, <2>1, <2>2 DEF StoreInv, ChunksOK, Truthful
<1>8. OpsOK'
  <2>1. op' \in [Client -> OpRec] /\ op'[c] = Idle /\ \A d \in Client \ {c} : op'[d] = op[d]
      BY <1>1, IdleOK DEF StoreInv, OpsOK
  <2>2. Idle.kind # "register" /\ Idle.key = NoKey /\ Idle.pc = "idle"
      BY DEF Idle, Operation
  <2>3. ASSUME NEW d \in Client \ {c}
        PROVE  OpOK(op[d])'
    <3>1. OpOK(op[d]) /\ op[d] \in OpRec
        BY AnOp
    <3>2. FollowsChunk(op[d]) /\ Started(op[d]) => FollowsChunk(op[d])'
      <4>1. CASE op[d].key = k
        <5>1. chunks[k].generation \in Nat
            BY <1>4, BackingAssumption DEF Image
        <5>2. Started(op[d]) => op[d].prev.generation \in Nat
            BY BackingAssumption DEF Started, Image
        <5> QED BY <1>2, <1>3, <1>6, <2>1, <4>1, <5>1, <5>2 DEF FollowsChunk
      <4>2. CASE op[d].key # k
          BY <1>6, <2>1, <4>2 DEF FollowsChunk
      <4> QED BY <4>1, <4>2
    <3>3. op'[d] = op[d]
        BY <2>1
    <3> QED BY <1>6, <3>1, <3>2, <3>3 DEF OpOK, Started, Built, Entering, Truthful
  <2>4. OpOK(op[c])'
      BY <2>1, <2>2 DEF OpOK
  <2>5. ASSUME NEW d \in Client
        PROVE  Alone(d)'
    <3>1. Alone(d) /\ OpOK(op[d])
        BY AnOp
    <3>2. op[d].kind = "register" => op[d].key # NoKey
        BY <3>1, BackingAssumption DEF OpOK, Entering
    <3> QED BY <2>1, <2>2, <3>1, <3>2 DEF Alone
  <2> QED BY <2>1, <2>3, <2>4, <2>5 DEF OpsOK
<1> QED BY <1>5, <1>7, <1>8 DEF StoreInv

(* A new chunk: nobody else had its key. *)
LEMMA EnterKeeps == ASSUME StoreInv, NEW c \in Client, Enter(c) PROVE StoreInv'
<1> DEFINE k == op[c].key
           new == op[c].new
<1>1. /\ op[c].kind = "register" /\ Commit(op[c].res, 0, new.charge)
      /\ chunks' = [j \in Registered \union {k} |-> IF j = k THEN new ELSE chunks[j]]
      /\ op' = [op EXCEPT ![c] = Idle]
    BY DEF Enter
<1>2. /\ k \in Key \ Registered /\ new \in Image /\ Truthful(new)
      /\ \A d \in Client \ {c} : op[d].key # k
    BY <1>1, AnOp DEF OpOK, Entering, Alone
<1>3. LedgerInv'
  <2>1. op[c].res \in Handle
      BY AnOp DEF OpRec
  <2>2. 0 \in Nat /\ new.charge \in Nat
      BY <1>2, Sizes DEF Image
  <2> QED BY <1>1, <2>1, <2>2, CommitPreserves DEF StoreInv
<1>4. /\ Registered' = Registered \union {k} /\ chunks'[k] = new
      /\ \A j \in Registered : chunks'[j] = chunks[j]
    BY <1>1, <1>2 DEF Registered
<1>5. ChunksOK'
  <2>1. \A j \in Registered' : chunks'[j] \in Image /\ Truthful(chunks'[j])
      BY <1>2, <1>4 DEF StoreInv, ChunksOK
  <2>2. chunks' \in [Registered' -> Image]
      BY <1>1, <1>4, <2>1
  <2> QED BY <1>2, <1>4, <2>1, <2>2 DEF StoreInv, ChunksOK, Truthful
<1>6. OpsOK'
  <2>1. op' \in [Client -> OpRec] /\ op'[c] = Idle /\ \A d \in Client \ {c} : op'[d] = op[d]
      BY <1>1, IdleOK DEF StoreInv, OpsOK
  <2>2. Idle.kind # "register" /\ Idle.key = NoKey /\ Idle.pc = "idle"
      BY DEF Idle, Operation
  <2>3. ASSUME NEW d \in Client \ {c}
        PROVE  OpOK(op[d])'
    <3>1. OpOK(op[d]) /\ op[d].key # k /\ op'[d] = op[d]
        BY <1>2, <2>1, AnOp
    <3> QED BY <1>4, <3>1 DEF OpOK, Started, FollowsChunk, Built, Entering, Truthful
  <2>4. OpOK(op[c])'
      BY <2>1, <2>2 DEF OpOK
  <2>5. ASSUME NEW d \in Client
        PROVE  Alone(d)'
    <3>1. Alone(d) /\ OpOK(op[d])
        BY AnOp
    <3>2. op[d].kind = "register" => op[d].key # NoKey
        BY <3>1, BackingAssumption DEF OpOK, Entering
    <3> QED BY <2>1, <2>2, <3>1, <3>2 DEF Alone
  <2> QED BY <2>1, <2>3, <2>4, <2>5 DEF OpsOK
<1> QED BY <1>3, <1>5, <1>6 DEF StoreInv

LEMMA EraseKeeps == ASSUME StoreInv, NEW c \in Client, Erase(c) PROVE StoreInv'
<1>1. PICK k \in Registered :
        /\ ReleaseAuthoritative(ErasedCharge(chunks[k]))
        /\ chunks' = [j \in Registered \ {k} |-> chunks[j]]
    BY DEF Erase
<1>2. op' = op
    BY DEF Erase
<1>3. LedgerInv'
  <2>1. ErasedCharge(chunks[k]) \in Nat
      BY Sizes DEF StoreInv, ChunksOK, Image, ErasedCharge
  <2> QED BY <1>1, <2>1, ReleaseAuthoritativePreserves DEF StoreInv
<1>4. Registered' = Registered \ {k} /\ \A j \in Registered' : chunks'[j] = chunks[j]
    BY <1>1 DEF Registered
<1>5. ChunksOK'
  <2>1. \A j \in Registered' : chunks'[j] \in Image /\ Truthful(chunks'[j])
      BY <1>4 DEF StoreInv, ChunksOK
  <2>2. chunks' \in [Registered' -> Image]
      BY <1>1, <1>4, <2>1
  <2> QED BY <1>4, <2>1, <2>2 DEF StoreInv, ChunksOK, Truthful
<1>6. OpsOK'
  <2>1. ASSUME NEW d \in Client
        PROVE  OpOK(op[d])'
    <3>1. OpOK(op[d])
        BY AnOp
    <3> QED BY <1>2, <1>4, <3>1 DEF OpOK, Started, FollowsChunk, Built, Entering, Truthful
  <2>2. \A d \in Client : Alone(d)'
      BY <1>2 DEF StoreInv, OpsOK, Alone
  <2> QED BY <1>2, <2>1, <2>2 DEF StoreInv, OpsOK
<1> QED BY <1>3, <1>5, <1>6 DEF StoreInv

LEMMA StoreStep == StoreInv /\ [Next]_vars => StoreInv'
<1> SUFFICES ASSUME StoreInv, [Next]_vars PROVE StoreInv'
    OBVIOUS
<1>1. ASSUME NEW c \in Client, Step(c)
      PROVE  StoreInv'
  <2>1. ASSUME BuildFails(c) \/ CommitStale(c) \/ EnterFails(c)
        PROVE  StoreInv'
      BY <2>1, GivingUpKeeps DEF BuildFails, CommitStale, EnterFails
  <2> QED BY <1>1, <2>1, StartKeeps, StartRegisterKeeps, ReserveFirstKeeps, ReserveFailsKeeps,
             BuildKeeps, CommitExistingKeeps, EnterKeeps, EraseKeeps DEF Step
<1>2. ASSUME UNCHANGED vars
      PROVE  StoreInv'
  <2>1. LedgerInv'
      BY <1>2, UnchangedLedger DEF vars, ledgerVars
  <2>2. chunks' = chunks /\ op' = op /\ Registered' = Registered
      BY <1>2 DEF vars, Registered
  <2>3. ChunksOK' /\ OpsOK'
      BY <2>2 DEF StoreInv, ChunksOK, OpsOK, OpOK, Alone, Started, FollowsChunk, Built,
                  Entering, Truthful
  <2> QED BY <2>1, <2>3 DEF StoreInv
<1> QED BY <1>1, <1>2 DEF Next

LEMMA StoreAlways == Spec => []StoreInv
BY InitStore, StoreStep, PTL DEF Spec

-----------------------------------------------------------------------------
(* Whatever the threads do, the store stays within its host budget, the     *)
(* budget is balanced and every image is what its representation says.      *)
THEOREM StoreSafe == Spec => []StoreTruthful
<1>1. StoreInv => StoreTruthful
  <2> SUFFICES ASSUME StoreInv
               PROVE  StoreTruthful
      OBVIOUS
  <2>1. LedgerTypeOK /\ WithinLimit /\ Balanced
      BY DEF StoreInv, LedgerInv
  <2>2. Registered \subseteq Key /\ \A k \in Registered : chunks[k] \in Image
      BY DEF StoreInv, ChunksOK
  <2>3. RepresentationTruthful
      BY DEF StoreInv, ChunksOK, RepresentationTruthful
  <2>4. \A c \in Client : op[c] \in OpRec
      BY AnOp
  <2>5. StoreTypeOK
      BY <2>1, <2>2, <2>4 DEF StoreTypeOK, OpRec
  <2> QED BY <2>1, <2>3, <2>5 DEF StoreTruthful
<1> QED BY <1>1, StoreAlways, PTL

(* No update is lost: a commit applies its operation to what the chunk      *)
(* holds at that moment, however its snapshot and its commit interleave     *)
(* with other operations on the chunk.                                      *)
THEOREM NoLostUpdate == Spec => CommitsApply
<1>1. ASSUME StoreInv, [Next]_vars
      PROVE  [\A c \in Client : op'[c] # op[c] => CommitApplies(c)]_vars
  <2> SUFFICES ASSUME Next, NEW c \in Client, op'[c] # op[c], op[c].pc = "commit",
                      op[c].kind # "register", chunks' # chunks
               PROVE  LET k == op[c].key IN
                        /\ chunks'[k].content = Effect(op[c].kind, op[c].arg, chunks[k].content)
                        /\ chunks'[k].generation = chunks[k].generation + 1
      BY <1>1 DEF CommitApplies
  <2>1. PICK a \in Client : Step(a)
      BY DEF Next
  <2>2. op \in [Client -> OpRec]
      BY <1>1 DEF StoreInv, OpsOK
  <2>3. CommitExisting(a) \/ Enter(a) \/ Erase(a)
      BY <2>1 DEF Step, Start, StartRegister, ReserveFirst, ReserveFails, Build, BuildFails,
                  CommitStale, EnterFails
  <2>4. ~Erase(a)
      BY DEF Erase
  <2>5. CASE Enter(a)
    <3>1. op' = [op EXCEPT ![a] = Idle] /\ op[a].kind = "register"
        BY <2>5 DEF Enter
    <3>2. a = c
        BY <2>2, <3>1
    <3> QED BY <3>1, <3>2
  <2>6. CASE CommitExisting(a)
    <3>1. /\ op' = [op EXCEPT ![a] = Idle] /\ Current(a)
          /\ chunks' = [chunks EXCEPT ![op[a].key] = op[a].new]
        BY <2>6 DEF CommitExisting
    <3>2. a = c
        BY <2>2, <3>1
    <3>3. op[c].key \in Registered /\ op[c].prev = chunks[op[c].key] /\ Built(op[c])
        BY <1>1, <3>1, <3>2, SnapshotIsCurrent
    <3>4. chunks'[op[c].key] = op[c].new
        BY <3>1, <3>2, <3>3 DEF Registered
    <3> QED BY <3>3, <3>4 DEF Built
  <2> QED BY <2>3, <2>4, <2>5, <2>6
<1> QED BY <1>1, StoreAlways, PTL DEF Spec, CommitsApply

-----------------------------------------------------------------------------
(* The accounts. What an operation was given is what it holds until it      *)
(* ends, and is enough for any image it can build; nobody else holds it.    *)
Holds(o) ==
  /\ IF o.res.bytes = 0 THEN o.res.id = 0 ELSE Known(o.res)
  /\ o.pc \in {"idle", "reserve"} => o.res = Nothing
  /\ o.pc \in {"build", "commit"} => o.res.category \in Convertible
  /\ o.pc = "build" => o.res.bytes = Need(o.kind)
  /\ o.pc = "commit" => o.res.bytes >= o.new.charge

Holding ==
  /\ \A c \in Client : Holds(op[c])
  /\ Live = {op[c].res.id : c \in Client} \ {0}
  /\ \A c, d \in Client : c # d /\ op[c].res.id # 0 => op[c].res.id # op[d].res.id

Charge == [k \in Registered |-> chunks[k].charge]
Charged ==
  /\ IsFiniteSet(BytesOf(Charge, Registered))
  /\ counters["authoritative"] = Cardinality(BytesOf(Charge, Registered))

AccountsInv == Holding /\ Charged

LEMMA NothingHolds == Nothing.id = 0 /\ Nothing.bytes = 0 /\ Holds(Idle) /\ Idle.res = Nothing
BY DEF Nothing, Holds, Idle, Operation

LEMMA InitAccounts == Init => AccountsInv
<1> SUFFICES ASSUME Init PROVE AccountsInv
    OBVIOUS
<1>1. op = [c \in Client |-> Idle] /\ Live = {} /\ Registered = {}
    BY DEF Init, LedgerInit, Live, Registered
<1>2. counters["authoritative"] = 0
    BY DEF Init, LedgerInit, Category
<1>3. Holding
    BY <1>1, NothingHolds DEF Holding
<1>4. BytesOf(Charge, Registered) = {}
    BY <1>1 DEF BytesOf
<1> QED BY <1>2, <1>3, <1>4, FS_EmptySet DEF AccountsInv, Charged

-----------------------------------------------------------------------------
(* Reservations. *)

LEMMA OneOpChanges ==
  ASSUME StoreInv, NEW c \in Client, NEW x, op' = [op EXCEPT ![c] = x]
  PROVE  op'[c] = x /\ \A d \in Client \ {c} : op'[d] = op[d]
BY DEF StoreInv, OpsOK

LEMMA HoldingUntouched ==
  ASSUME Holding, op' = op, reserved' = reserved
  PROVE  Holding'
<1>1. Live' = Live
    BY DEF Live
<1>2. \A a \in Client : Known(op[a].res)' <=> Known(op[a].res)
    BY <1>1 DEF Known
<1>3. \A a \in Client : Holds(op[a])'
    BY <1>2 DEF Holding, Holds
<1> QED BY <1>1, <1>3 DEF Holding

LEMMA HoldingStays ==
  ASSUME StoreInv, Holding, NEW c \in Client, NEW x, op' = [op EXCEPT ![c] = x],
         x.res.id = op[c].res.id, Holds(x), reserved' = reserved
  PROVE  Holding'
<1>1. op'[c] = x /\ \A d \in Client \ {c} : op'[d] = op[d]
    BY OneOpChanges
<1>2. \A d \in Client : op'[d].res.id = op[d].res.id
    BY <1>1
<1>3. Live' = Live
    BY DEF Live
<1>4. ASSUME NEW d \in Client
      PROVE  Holds(op[d])'
  <2>1. Holds(op'[d])
      BY <1>1 DEF Holding
  <2> QED BY <2>1, <1>3 DEF Holds, Known
<1>5. {op'[d].res.id : d \in Client} = {op[d].res.id : d \in Client}
    BY <1>2
<1> QED BY <1>2, <1>3, <1>4, <1>5 DEF Holding

LEMMA HoldingBegins ==
  ASSUME StoreInv, Holding, NEW c \in Client, NEW x, op' = [op EXCEPT ![c] = x],
         op[c].res = Nothing, NEW n, n = next_id, x.res.id = n, x.res.bytes # 0,
         reserved' = [i \in Live \union {n} |->
                        IF i = n THEN [category |-> x.res.category, bytes |-> x.res.bytes]
                        ELSE reserved[i]],
         x.pc \in {"build", "commit"}, x.res.category \in Convertible,
         x.pc = "build" => x.res.bytes = Need(x.kind),
         x.pc = "commit" => x.res.bytes >= x.new.charge
  PROVE  Holding'
<1>1. op'[c] = x /\ \A d \in Client \ {c} : op'[d] = op[d]
    BY OneOpChanges
<1>2. n \in Nat /\ n # 0 /\ n \notin Live
    BY DEF StoreInv, LedgerInv, LedgerTypeOK
<1>3. /\ Live' = Live \union {n}
      /\ reserved'[n] = [category |-> x.res.category, bytes |-> x.res.bytes]
      /\ \A i \in Live : reserved'[i] = reserved[i]
    BY <1>2 DEF Live
<1>4. Known(x.res)'
    BY <1>3 DEF Known
<1>5. \A d \in Client : op[d].res.id # 0 => op[d].res.id \in Live
    BY DEF Holding
<1>6. ASSUME NEW d \in Client
      PROVE  Holds(op[d])'
  <2>1. CASE d = c
    <3>1. op'[d] = x
        BY <1>1, <2>1
    <3> QED BY <1>4, <3>1 DEF Holds, Known
  <2>2. CASE d # c
    <3>1. op'[d] = op[d] /\ Holds(op[d])
        BY <1>1, <2>2 DEF Holding
    <3>2. Known(op[d].res) => Known(op[d].res)'
        BY <1>3, <3>1 DEF Known
    <3> QED BY <3>1, <3>2 DEF Holds, Known
  <2> QED BY <2>1, <2>2
<1>7. {op'[d].res.id : d \in Client} \ {0} = Live \union {n}
  <2>1. op[c].res.id = 0
      BY NothingHolds
  <2> QED BY <1>1, <1>2, <2>1 DEF Holding
<1>8. ASSUME NEW a \in Client, NEW b \in Client, a # b, op'[a].res.id # 0
      PROVE  op'[a].res.id # op'[b].res.id
    BY <1>1, <1>2, <1>5, <1>8 DEF Holding
<1> QED BY <1>3, <1>6, <1>7, <1>8 DEF Holding

(* Where an operation ends its reservation does, and no other.              *)
Spent(r) ==
  reserved' = IF r.bytes = 0 THEN reserved ELSE [i \in Live \ {r.id} |-> reserved[i]]

LEMMA HoldingEnds ==
  ASSUME StoreInv, Holding, NEW c \in Client, op' = [op EXCEPT ![c] = Idle], Spent(op[c].res)
  PROVE  Holding'
<1> DEFINE r == op[c].res
<1>1. op'[c] = Idle /\ \A d \in Client \ {c} : op'[d] = op[d]
    BY OneOpChanges
<1>2. Holds(op[c])
    BY DEF Holding
<1>3. CASE r.bytes = 0
  <2>1. Idle.res.id = op[c].res.id /\ Holds(Idle) /\ reserved' = reserved
      BY <1>2, <1>3, NothingHolds DEF Holds, Spent
  <2> QED BY <2>1, HoldingStays
<1>4. CASE r.bytes # 0
  <2>1. r.id \in Live /\ r.id # 0
      BY <1>2, <1>4 DEF Holds, Known, StoreInv, LedgerInv, LedgerTypeOK
  <2>2. Live' = Live \ {r.id} /\ \A i \in Live \ {r.id} : reserved'[i] = reserved[i]
      BY <1>4 DEF Live, Spent
  <2>3. \A d \in Client \ {c} : op[d].res.id # r.id
      BY <2>1 DEF Holding
  <2>4. ASSUME NEW d \in Client
        PROVE  Holds(op[d])'
    <3>1. CASE d = c
      <4>1. op'[d] = Idle
          BY <1>1, <3>1
      <4> QED BY <4>1, NothingHolds DEF Holds
    <3>2. CASE d # c
      <4>1. op'[d] = op[d] /\ Holds(op[d]) /\ op[d].res.id # r.id
          BY <1>1, <2>3, <3>2 DEF Holding
      <4>2. Known(op[d].res) => Known(op[d].res)'
          BY <2>2, <4>1 DEF Known
      <4> QED BY <4>1, <4>2 DEF Holds, Known
    <3> QED BY <3>1, <3>2
  <2>5. {op'[d].res.id : d \in Client} \ {0} = Live \ {r.id}
    <3>1. op'[c].res.id = 0
        BY <1>1, NothingHolds
    <3> QED BY <1>1, <2>1, <2>3, <3>1 DEF Holding
  <2>6. ASSUME NEW a \in Client, NEW b \in Client, a # b, op'[a].res.id # 0
        PROVE  op'[a].res.id # op'[b].res.id
      BY <1>1, <2>6, NothingHolds DEF Holding
  <2> QED BY <2>2, <2>4, <2>5, <2>6 DEF Holding
<1> QED BY <1>3, <1>4

-----------------------------------------------------------------------------
(* Charges. *)

LEMMA ChargesAreNat == StoreInv => \A k \in Registered : Charge[k] \in Nat
BY Sizes DEF StoreInv, ChunksOK, Image, Charge

LEMMA ChargedStays ==
  ASSUME Charged, chunks' = chunks, counters'["authoritative"] = counters["authoritative"]
  PROVE  Charged'
BY DEF Charged, Charge, Registered

(* The image of k is replaced, or is the first. *)
LEMMA ChargedWith ==
  ASSUME NEW k, NEW S, k \notin S, NEW n \in Nat,
         IsFiniteSet(BytesOf(Charge, S)),
         Registered' = S \union {k}, chunks'[k].charge = n,
         \A j \in S : j \in Registered /\ chunks'[j] = chunks[j],
         counters'["authoritative"] = Cardinality(BytesOf(Charge, S)) + n
  PROVE  Charged'
<1>1. Charge' = [j \in Registered' |-> chunks'[j].charge]
    BY DEF Charge
<1>2. Charge'[k] = n /\ \A j \in S : Charge'[j] = Charge[j]
    BY <1>1 DEF Charge
<1>3. BytesOf(Charge', S) = BytesOf(Charge, S)
    BY <1>2, SameBytes
<1>4. /\ IsFiniteSet(BytesOf(Charge', S \union {k}))
      /\ Cardinality(BytesOf(Charge', S \union {k})) = Cardinality(BytesOf(Charge, S)) + n
    BY <1>2, <1>3, HolderJoins
<1> QED BY <1>4 DEF Charged, BytesOf, Charge

(* What is charged without the image of k. *)
LEMMA ChargedWithout ==
  ASSUME StoreInv, Charged, NEW k \in Registered
  PROVE  /\ IsFiniteSet(BytesOf(Charge, Registered \ {k}))
         /\ Cardinality(BytesOf(Charge, Registered \ {k}))
              = counters["authoritative"] - chunks[k].charge
         /\ chunks[k].charge <= counters["authoritative"]
         /\ chunks[k].charge \in Nat /\ counters["authoritative"] \in Nat
<1>1. Charge[k] \in Nat /\ Charge[k] = chunks[k].charge
    BY ChargesAreNat DEF Charge
<1>2. counters["authoritative"] \in Nat
    BY FS_CardinalityType DEF Charged
<1>3. /\ IsFiniteSet(BytesOf(Charge, Registered))
      /\ counters["authoritative"] = Cardinality(BytesOf(Charge, Registered))
    BY DEF Charged
<1>4. /\ IsFiniteSet(BytesOf(Charge, Registered \ {k}))
      /\ Cardinality(BytesOf(Charge, Registered \ {k}))
           = Cardinality(BytesOf(Charge, Registered)) - Charge[k]
      /\ Charge[k] <= Cardinality(BytesOf(Charge, Registered))
    BY <1>1, <1>3, HolderLeaves
<1> QED BY <1>1, <1>2, <1>3, <1>4

(* What a reservation, a release and a commit do to the charge. *)
LEMMA ReserveCharge ==
  ASSUME StoreInv, NEW c \in Category \ {"authoritative"}, NEW b \in Nat, NEW r, Reserve(c, b, r)
  PROVE  counters'["authoritative"] = counters["authoritative"]
<1>1. counters \in [Places -> Int] /\ "authoritative" \in Places
    BY DEF StoreInv, LedgerInv, LedgerTypeOK, Places, Category
<1>2. c # "authoritative" /\ "total" # "authoritative"
    OBVIOUS
<1> QED BY <1>1, <1>2 DEF Reserve, ledgerVars

LEMMA ReleaseCharge ==
  ASSUME StoreInv, NEW r, Release(r)
  PROVE  counters'["authoritative"] = counters["authoritative"] /\ Spent(r)
<1>1. counters \in [Places -> Int] /\ "authoritative" \in Places
    BY DEF StoreInv, LedgerInv, LedgerTypeOK, Places, Category
<1>2. CASE r.bytes = 0
    BY <1>2 DEF Release, ledgerVars, Spent
<1>3. CASE r.bytes # 0
  <2>1. /\ Known(r) /\ reserved' = [i \in Live \ {r.id} |-> reserved[i]]
        /\ counters' = [counters EXCEPT !["total"] = @ - r.bytes, ![r.category] = @ - r.bytes]
      BY <1>3 DEF Release, Releasable
  <2>2. r.category # "authoritative" /\ "total" # "authoritative"
    <3>1. reserved[r.id] \in [category : Category \ {"authoritative"}, bytes : Nat]
        BY <2>1 DEF Known, StoreInv, LedgerInv, LedgerTypeOK
    <3>2. reserved[r.id].category = r.category
        BY <2>1 DEF Known
    <3> QED BY <3>1, <3>2
  <2> QED BY <1>1, <1>3, <2>1, <2>2 DEF Spent
<1> QED BY <1>2, <1>3

LEMMA CommitCharge ==
  ASSUME NEW r, NEW old, NEW new, Commit(r, old, new)
  PROVE  counters'["authoritative"] = counters["authoritative"] - old + new /\ Spent(r)
<1>1. r.category # "authoritative" /\ "authoritative" \in Category \union {"total"}
    BY DEF Commit, MayCommit, Convertible, Category
<1> QED BY <1>1 DEF Commit, Spent

-----------------------------------------------------------------------------
(* One lemma for each kind of step. *)

LEMMA StartAccounts ==
  ASSUME StoreInv, AccountsInv, NEW c \in Client, Start(c) \/ StartRegister(c)
  PROVE  AccountsInv'
<1>1. PICK kind, k, prev, new : op' = [op EXCEPT ![c] = Operation("reserve", kind, k, prev, new)]
    BY DEF Start, StartRegister
<1>2. op[c] = Idle /\ UNCHANGED <<ledgerVars, chunks>>
    BY DEF Start, StartRegister
<1> DEFINE x == Operation("reserve", kind, k, prev, new)
<1>3. x.res = Nothing /\ x.pc = "reserve"
    BY DEF Operation
<1>4. op' = [op EXCEPT ![c] = x]
    BY <1>1
<1> HIDE DEF x
<1>5. Holds(x) /\ x.res.id = op[c].res.id
    BY <1>2, <1>3, NothingHolds DEF Holds
<1>6. Holding'
    BY <1>2, <1>4, <1>5, HoldingStays DEF ledgerVars, AccountsInv
<1> QED BY <1>2, <1>6, ChargedStays DEF AccountsInv, ledgerVars

LEMMA NeedSuffices ==
  ASSUME NEW kind \in Kinds, NEW representation, NEW generation, NEW content,
         NEW i \in Images(Made(kind, representation), generation, content)
  PROVE  Need(kind) >= i.charge
<1>1. i.charge \in ChargesOf(Made(kind, representation))
    BY DEF Images
<1> QED BY <1>1, Sizes DEF ChargesOf, Made, WriteMakes, Kinds, Need

LEMMA ReserveFirstAccounts ==
  ASSUME StoreInv, AccountsInv, NEW c \in Client, ReserveFirst(c)
  PROVE  AccountsInv'
<1>1. PICK id \in {0, next_id} :
        /\ Reserve(Handed(c, id).category, Handed(c, id).bytes, Handed(c, id))
        /\ op' = [op EXCEPT ![c].pc = Next1(c), ![c].res = Handed(c, id)]
    BY DEF ReserveFirst, Handed
<1> DEFINE h == Handed(c, id)
           x == [op[c] EXCEPT !.pc = Next1(c), !.res = h]
<1>2. chunks' = chunks /\ op[c].pc = "reserve"
    BY DEF ReserveFirst
<1>3. /\ h.category \in {"spill", "conversion_scratch"} /\ h.bytes = Amount(c)
      /\ Amount(c) \in Nat /\ h.id = id
    BY <1>2, AmountIsNat DEF Handed
<1>4. op[c] \in OpRec /\ OpOK(op[c]) /\ op[c].res = Nothing
    BY <1>2, AnOp DEF AccountsInv, Holding, Holds
<1>5. op' = [op EXCEPT ![c] = x]
    BY <1>1 DEF StoreInv, OpsOK
<1>6. x.res = h /\ x.pc = Next1(c) /\ x.kind = op[c].kind /\ x.new = op[c].new
    BY <1>4 DEF OpRec
<1> HIDE DEF x
<1>7. /\ h.category \in Convertible /\ h.category \in Category \ {"authoritative"}
      /\ x.pc \in {"build", "commit"}
    BY <1>3, <1>6 DEF Convertible, Category, Next1
<1>8. x.pc = "build" => h.bytes = Need(x.kind)
    BY <1>3, <1>6 DEF Next1, Amount
<1>9. x.pc = "commit" => h.bytes >= x.new.charge
  <2>1. x.pc = "commit" => h.bytes = x.new.charge
      BY <1>3, <1>6 DEF Next1, Amount
  <2> QED BY <1>3, <2>1
<1>10. Reserve(h.category, h.bytes, h)
    BY <1>1
<1> HIDE DEF h
<1>11. Holding'
  <2>1. CASE h.bytes = 0
    <3>1. h.id = 0 /\ reserved' = reserved
      <4>1. h = [id |-> 0, category |-> h.category, bytes |-> 0] /\ UNCHANGED ledgerVars
          BY <1>10, <2>1 DEF Reserve
      <4> QED BY <4>1 DEF ledgerVars
    <3>2. Holds(x)
        BY <1>6, <1>7, <1>8, <1>9, <2>1, <3>1 DEF Holds
    <3> QED BY <1>4, <1>5, <1>6, <3>1, <3>2, NothingHolds, HoldingStays DEF AccountsInv
  <2>2. CASE h.bytes # 0
    <3>1. /\ h = [id |-> next_id, category |-> h.category, bytes |-> h.bytes]
          /\ reserved' = [i \in Live \union {next_id} |->
                            IF i = next_id THEN [category |-> h.category, bytes |-> h.bytes]
                            ELSE reserved[i]]
        BY <1>10, <2>2 DEF Reserve
    <3>2. h.id = next_id
        BY <3>1
    <3>3. /\ x.res.id = next_id /\ x.res.bytes # 0
          /\ reserved' = [i \in Live \union {next_id} |->
                            IF i = next_id
                            THEN [category |-> x.res.category, bytes |-> x.res.bytes]
                            ELSE reserved[i]]
        BY <1>6, <2>2, <3>1, <3>2
    <3>4. /\ x.res.category \in Convertible /\ x.pc \in {"build", "commit"}
          /\ x.pc = "build" => x.res.bytes = Need(x.kind)
          /\ x.pc = "commit" => x.res.bytes >= x.new.charge
        BY <1>6, <1>7, <1>8, <1>9
    <3> QED BY <1>4, <1>5, <3>3, <3>4, HoldingBegins DEF AccountsInv
  <2> QED BY <2>1, <2>2
<1>12. counters'["authoritative"] = counters["authoritative"]
    BY <1>3, <1>7, <1>10, ReserveCharge
<1> QED BY <1>2, <1>11, <1>12, ChargedStays DEF AccountsInv

LEMMA ReserveFailsAccounts ==
  ASSUME StoreInv, AccountsInv, NEW c \in Client, ReserveFails(c)
  PROVE  AccountsInv'
<1>1. /\ op[c].pc = "reserve" /\ op' = [op EXCEPT ![c] = Idle]
      /\ chunks' = chunks /\ reserved' = reserved /\ counters' = counters
    BY DEF ReserveFails, ReserveThrows, ledgerVars
<1>2. op[c].res = Nothing
    BY <1>1 DEF AccountsInv, Holding, Holds
<1>3. Holding'
    BY <1>1, <1>2, NothingHolds, HoldingStays DEF AccountsInv
<1> QED BY <1>1, <1>3, ChargedStays DEF AccountsInv

LEMMA BuildAccounts ==
  ASSUME StoreInv, AccountsInv, NEW c \in Client, Build(c)
  PROVE  AccountsInv'
<1>1. op[c] \in OpRec /\ OpOK(op[c]) /\ op[c].pc = "build" /\ Holds(op[c])
    BY AnOp DEF Build, AccountsInv, Holding
<1>2. op[c].kind \in Kinds
    BY <1>1 DEF OpOK, Entering, Started
<1>3. PICK arg \in Args(op[c].kind) :
        \E i \in Images(Made(op[c].kind, op[c].prev.representation), op[c].prev.generation + 1,
                        Effect(op[c].kind, arg, op[c].prev.content)) :
          op' = [op EXCEPT ![c].pc = "commit", ![c].new = i, ![c].arg = arg]
    BY DEF Build
<1>4. PICK i \in Images(Made(op[c].kind, op[c].prev.representation), op[c].prev.generation + 1,
                        Effect(op[c].kind, arg, op[c].prev.content)) :
        op' = [op EXCEPT ![c].pc = "commit", ![c].new = i, ![c].arg = arg]
    BY <1>3
<1>5. Need(op[c].kind) >= i.charge
    BY <1>2, NeedSuffices
<1> DEFINE x == [op[c] EXCEPT !.pc = "commit", !.new = i, !.arg = arg]
<1>6. op' = [op EXCEPT ![c] = x]
    BY <1>4 DEF StoreInv, OpsOK
<1>7. x.pc = "commit" /\ x.new = i /\ x.res = op[c].res
    BY <1>1 DEF OpRec
<1> HIDE DEF x
<1>8. Holds(x)
    BY <1>1, <1>5, <1>7 DEF Holds
<1>9. UNCHANGED <<ledgerVars, chunks>>
    BY DEF Build
<1>10. Holding'
    BY <1>6, <1>7, <1>8, <1>9, HoldingStays DEF AccountsInv, ledgerVars
<1> QED BY <1>9, <1>10, ChargedStays DEF AccountsInv, ledgerVars

LEMMA GivingUpAccounts ==
  ASSUME StoreInv, AccountsInv, NEW c \in Client, GiveBack(op[c].res), UNCHANGED chunks,
         op' = [op EXCEPT ![c] = Idle]
  PROVE  AccountsInv'
<1>1. counters'["authoritative"] = counters["authoritative"] /\ Spent(op[c].res)
    BY ReleaseCharge DEF GiveBack
<1>2. Holding'
    BY <1>1, HoldingEnds DEF AccountsInv
<1> QED BY <1>1, <1>2, ChargedStays DEF AccountsInv

LEMMA CommitExistingAccounts ==
  ASSUME StoreInv, AccountsInv, NEW c \in Client, CommitExisting(c)
  PROVE  AccountsInv'
<1> DEFINE k == op[c].key
           new == op[c].new
<1>1. /\ op[c].pc = "commit" /\ op[c].kind # "register" /\ Current(c)
      /\ Commit(op[c].res, chunks[k].charge, new.charge)
      /\ chunks' = [chunks EXCEPT ![k] = new] /\ op' = [op EXCEPT ![c] = Idle]
    BY DEF CommitExisting
<1>2. k \in Registered /\ new \in Image
    BY <1>1, SnapshotIsCurrent DEF Built
<1>3. new.charge \in Nat
    BY <1>2, Sizes DEF Image
<1>4. /\ counters'["authoritative"] = counters["authoritative"] - chunks[k].charge + new.charge
      /\ Spent(op[c].res)
    BY <1>1, CommitCharge
<1>5. Holding'
    BY <1>1, <1>4, HoldingEnds DEF AccountsInv
<1>6. /\ Registered' = (Registered \ {k}) \union {k} /\ chunks'[k] = new
      /\ \A j \in Registered \ {k} : chunks'[j] = chunks[j]
    BY <1>1, <1>2 DEF Registered
<1>7. /\ IsFiniteSet(BytesOf(Charge, Registered \ {k}))
      /\ Cardinality(BytesOf(Charge, Registered \ {k}))
           = counters["authoritative"] - chunks[k].charge
    BY <1>2, ChargedWithout DEF AccountsInv
<1> HIDE DEF k, new
<1>8. counters'["authoritative"] = Cardinality(BytesOf(Charge, Registered \ {k})) + new.charge
    BY <1>4, <1>7
<1>9. Charged'
    BY <1>3, <1>6, <1>7, <1>8, ChargedWith
<1> QED BY <1>5, <1>9 DEF AccountsInv

LEMMA EnterAccounts ==
  ASSUME StoreInv, AccountsInv, NEW c \in Client, Enter(c)
  PROVE  AccountsInv'
<1> DEFINE k == op[c].key
           new == op[c].new
<1>1. /\ op[c].kind = "register" /\ Commit(op[c].res, 0, new.charge)
      /\ chunks' = [j \in Registered \union {k} |-> IF j = k THEN new ELSE chunks[j]]
      /\ op' = [op EXCEPT ![c] = Idle]
    BY DEF Enter
<1>2. k \notin Registered /\ new \in Image
    BY <1>1, AnOp DEF OpOK, Entering
<1>3. new.charge \in Nat
    BY <1>2, Sizes DEF Image
<1>4. /\ counters'["authoritative"] = counters["authoritative"] - 0 + new.charge
      /\ Spent(op[c].res)
    BY <1>1, CommitCharge
<1>5. Holding'
    BY <1>1, <1>4, HoldingEnds DEF AccountsInv
<1>6. /\ Registered' = Registered \union {k} /\ chunks'[k] = new
      /\ \A j \in Registered : chunks'[j] = chunks[j]
    BY <1>1, <1>2 DEF Registered
<1>7. /\ IsFiniteSet(BytesOf(Charge, Registered))
      /\ counters["authoritative"] = Cardinality(BytesOf(Charge, Registered))
      /\ counters["authoritative"] \in Nat
    BY FS_CardinalityType DEF AccountsInv, Charged
<1> HIDE DEF k, new
<1>8. counters'["authoritative"] = Cardinality(BytesOf(Charge, Registered)) + new.charge
    BY <1>3, <1>4, <1>7
<1>9. Charged'
    BY <1>2, <1>3, <1>6, <1>7, <1>8, ChargedWith
<1> QED BY <1>5, <1>9 DEF AccountsInv

LEMMA EraseAccounts ==
  ASSUME StoreInv, AccountsInv, NEW c \in Client, Erase(c)
  PROVE  AccountsInv'
<1>1. PICK k \in Registered :
        /\ ReleaseAuthoritative(ErasedCharge(chunks[k]))
        /\ chunks' = [j \in Registered \ {k} |-> chunks[j]]
    BY DEF Erase
<1>2. op' = op /\ reserved' = reserved
    BY <1>1 DEF Erase, ReleaseAuthoritative
<1>3. Holding'
    BY <1>2, HoldingUntouched DEF AccountsInv
<1>4. counters'["authoritative"] = counters["authoritative"] - chunks[k].charge
  <2>1. counters \in [Places -> Int] /\ "authoritative" \in Places
      BY DEF StoreInv, LedgerInv, LedgerTypeOK, Places, Category
  <2> QED BY <1>1, <2>1 DEF ReleaseAuthoritative, ErasedCharge
<1>5. Registered' = Registered \ {k} /\ \A j \in Registered' : chunks'[j] = chunks[j]
    BY <1>1 DEF Registered
<1>6. /\ IsFiniteSet(BytesOf(Charge, Registered \ {k}))
      /\ Cardinality(BytesOf(Charge, Registered \ {k}))
           = counters["authoritative"] - chunks[k].charge
    BY ChargedWithout DEF AccountsInv
<1>7. BytesOf(Charge', Registered') = BytesOf(Charge, Registered \ {k})
  <2>1. \A j \in Registered \ {k} : Charge'[j] = Charge[j]
      BY <1>5 DEF Charge
  <2> QED BY <1>5, <2>1, SameBytes
<1>8. Charged'
    BY <1>4, <1>6, <1>7 DEF Charged
<1> QED BY <1>3, <1>8 DEF AccountsInv

LEMMA AccountsStep == StoreInv /\ AccountsInv /\ [Next]_vars => AccountsInv'
<1> SUFFICES ASSUME StoreInv, AccountsInv, [Next]_vars PROVE AccountsInv'
    OBVIOUS
<1>1. ASSUME NEW c \in Client, Step(c)
      PROVE  AccountsInv'
  <2>1. ASSUME BuildFails(c) \/ CommitStale(c) \/ EnterFails(c)
        PROVE  AccountsInv'
      BY <2>1, GivingUpAccounts DEF BuildFails, CommitStale, EnterFails
  <2> QED BY <1>1, <2>1, StartAccounts, ReserveFirstAccounts, ReserveFailsAccounts,
             BuildAccounts, CommitExistingAccounts, EnterAccounts, EraseAccounts DEF Step
<1>2. ASSUME UNCHANGED vars
      PROVE  AccountsInv'
  <2>1. Holding'
      BY <1>2, HoldingUntouched DEF vars, AccountsInv
  <2>2. Charged'
      BY <1>2, ChargedStays DEF vars, AccountsInv
  <2> QED BY <2>1, <2>2 DEF AccountsInv
<1> QED BY <1>1, <1>2 DEF Next

(* Every byte of the budget has its owner: the counters are what the live   *)
(* reservations hold and the images are charged, each live reservation is   *)
(* of one operation under way, and what that operation reserved first is    *)
(* enough for its commit.                                                   *)
THEOREM StoreIsAccounted == Spec => []StoreAccounts
<1>1. ASSUME StoreInv, AccountsInv
      PROVE  StoreAccounts
  <2>1. CountersMatchReservations
      BY <1>1 DEF StoreInv, LedgerInv, Backed, CountersMatchReservations
  <2>2. AuthoritativeMatchesImages
      BY <1>1 DEF AccountsInv, Charged, Charge, AuthoritativeMatchesImages
  <2>3. NoLeakedReservation
    <3>1. \A c \in Client : op[c].res.id # 0 => op[c].pc \in {"build", "commit"}
      <4>1. ASSUME NEW c \in Client
            PROVE  op[c].pc \in {"idle", "reserve", "build", "commit"} /\ Holds(op[c])
          BY <1>1, AnOp DEF AccountsInv, Holding, OpRec
      <4> QED BY <4>1, NothingHolds DEF Holds
    <3> QED BY <1>1, <3>1 DEF AccountsInv, Holding, NoLeakedReservation
  <2>4. ASSUME NEW c \in Client, op[c].pc = "commit"
        PROVE  IF op[c].kind = "register" THEN MayCommit(op[c].res, 0, op[c].new.charge)
               ELSE Current(c) => MayCommit(op[c].res, chunks[op[c].key].charge, op[c].new.charge)
    <3>1. /\ op[c].res.category \in Convertible /\ op[c].res.bytes >= op[c].new.charge
          /\ op[c].res.bytes # 0 => Known(op[c].res)
        BY <1>1, <2>4 DEF AccountsInv, Holding, Holds
    <3>2. 0 <= counters["authoritative"]
        BY <1>1, FS_CardinalityType DEF AccountsInv, Charged
    <3>3. Current(c) => chunks[op[c].key].charge <= counters["authoritative"]
        BY <1>1, ChargedWithout DEF AccountsInv, Current
    <3> QED BY <3>1, <3>2, <3>3 DEF MayCommit
  <2> QED BY <2>1, <2>2, <2>3, <2>4 DEF StoreAccounts, AdmittedCommitFits
<1>2. Spec => []AccountsInv
    BY InitAccounts, AccountsStep, StoreAlways, PTL DEF Spec
<1> QED BY <1>1, <1>2, StoreAlways, PTL
=============================================================================
