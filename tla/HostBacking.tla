---------------------------- MODULE HostBacking ----------------------------
(***************************************************************************)
(* The host backing store (HostBackingStore in                             *)
(* src/residency/compression.cpp) over its ledger.                         *)
(*                                                                         *)
(* A chunk is one immutable image. An operation takes a snapshot of it,    *)
(* reserves the largest charge its result can need, builds the result      *)
(* outside of the lock, and commits it only if the chunk still has the     *)
(* generation of the snapshot.                                             *)
(* Blocks hold one value each; what LZ4 makes of them is any charge        *)
(* between the metadata alone and the raw size. Checksums are left out: a  *)
(* block that does not decode ends the operation (BuildFails).             *)
(***************************************************************************)
EXTENDS HostBudget

CONSTANTS
  Key,        (* Chunks. An allocation's identifier is never given again, so
                 no operation meets another chunk under its key.             *)
  Client,     (* Threads that use the store.                                 *)
  Block, Data,
  Meta,       (* Charge of an image's metadata (base and blocks together).   *)
  MaxGeneration,
  NoKey, NoContent, NoImage

Zero == CHOOSE d \in Data : TRUE     (* The value of a block nobody wrote. *)
Content == [Block -> Data]
ZeroContent == [b \in Block |-> Zero]
RawCharge == Meta + Cardinality(Block)

ASSUME BackingAssumption ==
  /\ Meta \in Nat \ {0} /\ MaxGeneration \in Nat \ {0} /\ NoKey \notin Key
  /\ IsFiniteSet(Block) /\ Data # {} /\ NoContent \notin Content

VARIABLES
  chunks,    (* chunks: the current image of every registered key.           *)
  op         (* The operation each client is in.                             *)

vars == <<counters, reserved, next_id, chunks, op>>

Representation == {"invalid", "implicit_zero", "raw", "lz4_blocks"}
Image == [representation : Representation, generation : 1..MaxGeneration,
          content : Content \union {NoContent}, charge : 0..RawCharge]

Registered == DOMAIN chunks
Operation(pc, kind, key, prev, new) ==
  [pc |-> pc, kind |-> kind, key |-> key, prev |-> prev, new |-> new,
   arg |-> NoContent, res |-> Nothing]
Idle == Operation("idle", "none", NoKey, NoImage, NoImage)

Init ==
  /\ LedgerInit
  /\ chunks = [k \in {} |-> NoImage]
  /\ op = [c \in Client |-> Idle]

-----------------------------------------------------------------------------
(* The images an operation may build. *)

ChargesOf(representation) ==
  CASE representation = "invalid" -> {0}
    [] representation = "implicit_zero" -> {Meta}
    [] representation = "raw" -> {RawCharge}
    [] OTHER -> Meta..RawCharge

Images(representation, generation, content) ==
  {[representation |-> representation, generation |-> generation, content |-> content,
    charge |-> n] : n \in ChargesOf(representation)}

(* write keeps a raw image raw; any other becomes LZ4 blocks, those that    *)
(* are still zero without a payload.                                        *)
WriteKeeps(prev) == prev  \* mutant
WriteMakes(prev) == IF prev = "raw" THEN "raw" ELSE "lz4_blocks"

Made(kind, prev) ==
  CASE kind \in {"replace", "prepared", "materialize"} -> "raw"
    [] kind = "write" -> WriteMakes(prev)
    [] kind = "zero" -> "implicit_zero"
    [] kind = "invalidate" -> "invalid"
    [] kind \in {"compress", "commit_lz4"} -> "lz4_blocks"

(* What an operation makes of the content. A partial write names only the   *)
(* blocks it writes.                                                        *)
Effect(kind, arg, content) ==
  CASE kind \in {"replace", "prepared", "commit_lz4"} -> arg
    [] kind = "write" -> [b \in Block |-> IF b \in DOMAIN arg THEN arg[b] ELSE content[b]]
    [] kind = "zero" -> ZeroContent
    [] kind = "invalidate" -> NoContent
    [] kind \in {"compress", "materialize"} -> content

(* What is reserved first: the largest image, or as much as is needed. *)
Need(kind) ==
  CASE kind = "zero" -> Meta
    [] kind = "invalidate" -> 0
    [] OTHER -> RawCharge

(* write-backs of dirty chunks spend the spill reserved before the kernel. *)
CategoryOf(kind) == IF kind = "prepared" THEN "spill" ELSE "conversion_scratch"

Allowed(kind, image) ==
  CASE kind = "write" -> image.representation # "invalid"
    [] kind = "compress" -> image.representation = "raw"
    [] kind = "materialize" -> image.representation \in {"implicit_zero", "lz4_blocks"}
    [] OTHER -> TRUE

Kinds == {"replace", "prepared", "write", "zero", "invalidate", "compress", "materialize",
          "commit_lz4"}
Partial == UNION {[B -> Data] : B \in SUBSET Block \ {{}, Block}}
Args(kind) ==
  CASE kind \in {"replace", "prepared", "commit_lz4"} -> Content
    [] kind = "write" -> Partial
    [] OTHER -> {NoContent}

-----------------------------------------------------------------------------
(* A call takes its snapshot. The generation it was given is that of the    *)
(* snapshot: with an older one it returns stale_generation here.            *)
Start(c) ==
  /\ op[c] = Idle
  /\ \E k \in Registered, kind \in Kinds :
       /\ Allowed(kind, chunks[k])
       /\ chunks[k].generation < MaxGeneration
       /\ op' = [op EXCEPT ![c] = Operation("reserve", kind, k, chunks[k], NoImage)]
  /\ UNCHANGED <<ledgerVars, chunks>>

StartRegister(c) ==
  /\ op[c] = Idle
  /\ \E k \in Key \ Registered :
       /\ \A d \in Client : op[d].key # k
       /\ \E r \in Representation \ {"lz4_blocks"} :
          \E i \in Images(r, 1, IF r = "invalid" THEN NoContent ELSE ZeroContent) :
            op' = [op EXCEPT ![c] = Operation("reserve", "register", k, NoImage, i)]
  /\ UNCHANGED <<ledgerVars, chunks>>

Amount(c) == IF op[c].kind = "register" THEN op[c].new.charge ELSE Need(op[c].kind)
Next1(c) == IF op[c].kind = "register" THEN "commit" ELSE "build"

ReserveFirst(c) ==
  /\ op[c].pc = "reserve"
  /\ \E id \in {0, next_id} :
       LET r == [id |-> id, category |-> CategoryOf(op[c].kind), bytes |-> Amount(c)] IN
       /\ Reserve(r.category, r.bytes, r)
       /\ op' = [op EXCEPT ![c].pc = Next1(c), ![c].res = r]
  /\ UNCHANGED chunks

ReserveFails(c) ==
  /\ op[c].pc = "reserve"
  /\ \/ Refused(CategoryOf(op[c].kind), Amount(c)) /\ UNCHANGED ledgerVars
     \/ ReserveThrows(CategoryOf(op[c].kind), Amount(c))
  /\ op' = [op EXCEPT ![c] = Idle]
  /\ UNCHANGED chunks

(* compress gives up unless something was gained; every other result is     *)
(* never larger than the reservation.                                       *)
Build(c) ==
  /\ op[c].pc = "build"
  /\ \E arg \in Args(op[c].kind) :
     \E i \in Images(Made(op[c].kind, op[c].prev.representation), op[c].prev.generation + 1,
                     Effect(op[c].kind, arg, op[c].prev.content)) :
       /\ op[c].kind = "compress" => i.charge < RawCharge
       /\ op' = [op EXCEPT ![c].pc = "commit", ![c].new = i, ![c].arg = arg]
  /\ UNCHANGED <<ledgerVars, chunks>>

(* No memory, a codec that fails, data that does not decode, no gain: the   *)
(* reservation goes back.                                                   *)
GiveUpQuietly(r) == UNCHANGED ledgerVars  \* mutant
GiveBack(r) == Release(r)

BuildFails(c) ==
  /\ op[c].pc = "build"
  /\ GiveBack(op[c].res)
  /\ op' = [op EXCEPT ![c] = Idle]
  /\ UNCHANGED chunks

CurrentIfThere(c) == op[c].key \in Registered  \* mutant
Current(c) ==
  /\ op[c].key \in Registered
  /\ chunks[op[c].key].generation = op[c].prev.generation

(* commit_existing, under the store's mutex. *)
CommitExisting(c) ==
  /\ op[c].pc = "commit" /\ op[c].kind # "register"
  /\ Current(c)
  /\ Commit(op[c].res, chunks[op[c].key].charge, op[c].new.charge)
  /\ chunks' = [chunks EXCEPT ![op[c].key] = op[c].new]
  /\ op' = [op EXCEPT ![c] = Idle]

(* The chunk is gone or has another generation. *)
CommitStale(c) ==
  /\ op[c].pc = "commit" /\ op[c].kind # "register"
  /\ ~Current(c)
  /\ GiveBack(op[c].res)
  /\ op' = [op EXCEPT ![c] = Idle]
  /\ UNCHANGED chunks

(* The chunk enters the map before its charge is committed, under one lock. *)
Enter(c) ==
  /\ op[c].pc = "commit" /\ op[c].kind = "register"
  /\ Commit(op[c].res, 0, op[c].new.charge)
  /\ chunks' = [k \in Registered \union {op[c].key} |->
                  IF k = op[c].key THEN op[c].new ELSE chunks[k]]
  /\ op' = [op EXCEPT ![c] = Idle]

EnterFails(c) ==
  /\ op[c].pc = "commit" /\ op[c].kind = "register"
  /\ GiveBack(op[c].res)
  /\ op' = [op EXCEPT ![c] = Idle]
  /\ UNCHANGED chunks

ErasedCharge(image) == image.charge

(* erase_chunk *)
Erase(c) ==
  /\ op[c] = Idle
  /\ \E k \in Registered :
       /\ ReleaseAuthoritative(ErasedCharge(chunks[k]))
       /\ chunks' = [j \in Registered \ {k} |-> chunks[j]]
  /\ UNCHANGED op

Step(c) ==
  \/ Start(c) \/ StartRegister(c) \/ ReserveFirst(c) \/ ReserveFails(c) \/ Build(c)
  \/ BuildFails(c) \/ CommitExisting(c) \/ CommitStale(c) \/ Enter(c) \/ EnterFails(c)
  \/ Erase(c)

Next == \E c \in Client : Step(c)

Spec == Init /\ [][Next]_vars

-----------------------------------------------------------------------------
(* The types of the store's state. *)
StoreTypeOK ==
  /\ LedgerTypeOK
  /\ Registered \subseteq Key /\ \A k \in Registered : chunks[k] \in Image
  /\ \A c \in Client :
       /\ op[c].pc \in {"idle", "reserve", "build", "commit"}
       /\ op[c].new \in Image \union {NoImage} /\ op[c].prev \in Image \union {NoImage}
       /\ op[c].res \in Handle

(* The authoritative bytes of the ledger are what the images are charged.   *)
AuthoritativeMatchesImages ==
  counters["authoritative"]
    = Cardinality(BytesOf([k \in Registered |-> chunks[k].charge], Registered))

(* Every reservation belongs to an operation under way: however operations  *)
(* overtake each other and fail, none is left behind.                       *)
NoLeakedReservation ==
  /\ Live = {op[c].res.id : c \in {d \in Client : op[d].pc \in {"build", "commit"}}} \ {0}
  /\ \A c, d \in Client : c # d /\ op[c].res.id # 0 => op[c].res.id # op[d].res.id

(* An operation that reserved first never fails for the ledger's sake: at   *)
(* the commit internal_failure does not happen, so a write-back whose spill *)
(* is reserved can always be stored.                                        *)
AdmittedCommitFits ==
  \A c \in Client :
    op[c].pc = "commit" =>
      IF op[c].kind = "register" THEN MayCommit(op[c].res, 0, op[c].new.charge)
      ELSE Current(c) => MayCommit(op[c].res, chunks[op[c].key].charge, op[c].new.charge)

(* The budget's four counters are what its users did: operations that       *)
(* overtake each other, fail half way or come back late neither leak nor    *)
(* double a byte, and one that was admitted can always commit.              *)
StoreAccounts ==
  /\ CountersMatchReservations /\ AuthoritativeMatchesImages
  /\ NoLeakedReservation /\ AdmittedCommitFits

(* An image is what its representation says: no chunk that was written is   *)
(* still called zero, none without content is read as if it had some.       *)
Truthful(image) ==
  /\ image.representation = "implicit_zero" => image.content = ZeroContent
  /\ image.representation = "invalid" <=> image.content = NoContent
  /\ image.representation # "invalid" => image.charge >= Meta
RepresentationTruthful == \A k \in Registered : Truthful(chunks[k])

(* Together with the ledger's own promises, in any order of operations: no *)
(* category goes below zero, the sum stays under the limit, and the total  *)
(* is the sum of its parts.                                                *)
StoreTruthful == StoreTypeOK /\ WithinLimit /\ Balanced /\ RepresentationTruthful

(* A commit applies its operation to what the chunk holds at that moment:   *)
(* no update is lost between a snapshot and its commit, a conversion        *)
(* changes no byte, and the generation grows by one.                        *)
CommitApplies(c) ==
  op[c].pc = "commit" /\ op[c].kind # "register" /\ chunks' # chunks =>
    LET k == op[c].key IN
      /\ chunks'[k].content = Effect(op[c].kind, op[c].arg, chunks[k].content)
      /\ chunks'[k].generation = chunks[k].generation + 1
CommitsApply == [][\A c \in Client : op'[c] # op[c] => CommitApplies(c)]_vars
=============================================================================
