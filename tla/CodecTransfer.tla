--------------------------- MODULE CodecTransfer ---------------------------
(***************************************************************************)
(* How the residency runtime moves a chunk between device and host when    *)
(* compression is on (residency/runtime.cpp): the spill credit a write     *)
(* needs, the write-back with its verified codec candidate and its raw     *)
(* fallback, and the upload that decodes on the device or on the CPU.      *)
(*                                                                         *)
(* Module ResidencyRuntime has these as single transfers; here they are    *)
(* taken apart, and the frames, mappings and leases around them are only   *)
(* the states a chunk is in.  The calls run under the runtime's mutex, one *)
(* at a time.  HostBudget's ledger is its total: authorities, spill        *)
(* credits and conversion scratch; NvcompPipeline is the one ticket whose  *)
(* encoded candidate has reached the host and awaits its acknowledgement.  *)
(***************************************************************************)
EXTENDS Integers, FiniteSets, FiniteSetsExt

CONSTANTS
  Chunk,        \* chunks, numbered in the order of ChunkKey
  Raw, Lz4,     \* charge of a raw chunk; charges a compressed one may have
  Block,        \* charge of a block of decode or verification scratch
  Limit,        \* the host budget
  Writes,       \* writes by kernels (bound)
  MaxFaults, None

CodecAssumption ==
  /\ Chunk \subseteq Nat /\ Raw \in Nat \ {0} /\ Lz4 \subseteq 1 .. Raw /\ Block \in Nat \ {0}
  /\ Limit \in Nat /\ Writes \in Nat /\ MaxFaults \in Nat /\ None \notin Chunk

VARIABLES
  gpu,      \* state and contents of a chunk on the device
  host,     \* its authority: representation, generation, contents, charge
  spill,    \* spill credit of a chunk: the generation its buffer was prepared for, or -1
  scratch,  \* conversion scratch: the candidate's or the export's, and the block's
  ticket,   \* the chunk whose candidate awaits acknowledgement
  call,     \* the call that runs
  rt,       \* poisoned_, async_resources_quarantined_, and the pipeline's quarantine
  latest,   \* what each chunk should contain: a count of its writes
  faults

vars == <<gpu, host, spill, scratch, ticket, call, rt, latest, faults>>

NoCall == [op |-> "none", chunk |-> None, key |-> None, step |-> "none", decided |-> FALSE]
NoScratch == [whole |-> 0, block |-> 0]

Init ==
  /\ gpu = [c \in Chunk |-> [st |-> "out", ver |-> 0]]
  /\ host = [c \in Chunk |-> [rep |-> "zero", gen |-> 0, ver |-> 0, bytes |-> 0]]
  /\ spill = [c \in Chunk |-> -1]
  /\ scratch = NoScratch /\ ticket = None /\ call = NoCall
  /\ rt = [poisoned |-> FALSE, asyncQ |-> FALSE, codecQ |-> FALSE]
  /\ latest = [c \in Chunk |-> 0]
  /\ faults = 0

Fault == faults < MaxFaults /\ faults' = faults + 1
Calm == UNCHANGED faults
Idle == call.op = "none"
Ready == Idle /\ ~rt.poisoned

Holders == {c \in Chunk : spill[c] # -1}
Charged ==
  MapThenSumSet(LAMBDA c : host[c].bytes, Chunk) + Raw * Cardinality(Holders)
    + scratch.whole + scratch.block
Fits(bytes) == Charged + bytes <= Limit

Ends == call' = NoCall
Goes(step) == call' = [call EXCEPT !.step = step]
Poison(q) == rt' = [rt EXCEPT !.poisoned = TRUE, !.asyncQ = @ \/ q]

-----------------------------------------------------------------------------
(* A write-capable acquisition: reserve_spill, then the kernel.            *)

Write(c) ==
  /\ Ready /\ gpu[c].st \in {"clean", "dirty"} /\ latest[c] < Writes
  /\ call' = [NoCall EXCEPT !.op = "write", !.chunk = c, !.step = "admit"]
  /\ UNCHANGED <<gpu, host, spill, scratch, ticket, rt, latest>> /\ Calm

NeedsCredit(c) == spill[c] = -1

(* Dirty frames at rest outside the working set give their credit back,    *)
(* the lowest key first.                                                   *)
Reclaimable(c) == {k \in Holders \ {c} : gpu[k].st = "dirty"}

BeginWriteback(k) ==
  /\ gpu' = [gpu EXCEPT ![k].st = "d2h"]
  /\ call' = [call EXCEPT !.key = k, !.step = "probe", !.decided = FALSE]

Prepared(c) == host[c].gen

Admits == Fits(Raw)

Admit ==
  /\ call.op = "write" /\ call.step = "admit"
  /\ LET c == call.chunk IN
     IF NeedsCredit(c) /\ ~Admits
     THEN IF Reclaimable(c) # {}
          THEN BeginWriteback(Min(Reclaimable(c))) /\ UNCHANGED <<spill, latest>>
          ELSE Ends /\ UNCHANGED <<gpu, spill, latest>>       (* host_oom: no kernel *)
     ELSE /\ spill' = [spill EXCEPT ![c] = IF NeedsCredit(c) THEN Prepared(c) ELSE @]
          /\ latest' = [latest EXCEPT ![c] = @ + 1]
          /\ gpu' = [gpu EXCEPT ![c] = [st |-> "dirty", ver |-> latest'[c]]]
          /\ Ends
  /\ UNCHANGED <<host, scratch, ticket, rt>> /\ Calm

-----------------------------------------------------------------------------
(* writeback.  First the codec, unless it is off or the cost model has     *)
(* learned that this content is better left raw.                           *)

InWriteback(step) == call.key # None /\ call.step = step

SkipCodec ==
  /\ InWriteback("probe")
  /\ \E learned \in BOOLEAN : call' = [call EXCEPT !.step = "copy", !.decided = learned]
  /\ UNCHANGED <<gpu, host, spill, scratch, ticket, rt, latest>> /\ Calm

(* The candidate and its verification need scratch; without it the chunk   *)
(* goes raw.                                                               *)
Probe ==
  /\ InWriteback("probe")
  /\ IF Fits(Raw + Block)
     THEN scratch' = [whole |-> Raw, block |-> Block] /\ Goes("encode")
     ELSE UNCHANGED scratch /\ Goes("copy")
  /\ UNCHANGED <<gpu, host, spill, ticket, rt, latest>> /\ Calm

Encoded ==
  /\ InWriteback("encode")
  /\ scratch' = [scratch EXCEPT !.block = 0]
  /\ ticket' = call.key /\ Goes("select")
  /\ UNCHANGED <<gpu, host, spill, rt, latest>> /\ Calm

ReleasesAll == NoScratch

EncodeFails ==
  /\ InWriteback("encode") /\ Fault
  /\ scratch' = ReleasesAll
  /\ \/ Goes("copy") /\ UNCHANGED rt
     \/ /\ Ends
        /\ rt' = [poisoned |-> TRUE, asyncQ |-> TRUE, codecQ |-> TRUE]
  /\ UNCHANGED <<gpu, host, spill, ticket, latest>>

(* commit_lz4_blocks: the candidate's reservation becomes the charge of    *)
(* the new authority, the old one's is freed with the spill credit.        *)
Commit(k, rep, bytes) ==
  host' = [host EXCEPT ![k] = [rep |-> rep, gen |-> @.gen + 1, ver |-> gpu[k].ver, bytes |-> bytes]]

Select ==
  /\ InWriteback("select")
  /\ \E bytes \in Lz4 : Commit(call.key, "lz4", bytes)
  /\ scratch' = NoScratch /\ spill' = [spill EXCEPT ![call.key] = -1]
  /\ call' = [call EXCEPT !.step = "acknowledge", !.decided = TRUE]
  /\ UNCHANGED <<gpu, ticket, rt, latest>> /\ Calm

(* The cost model prefers raw, or the commit fails: the slot stays taken   *)
(* until the raw authority is committed.                                   *)
\* mutant: the slot of a candidate that is not wanted is freed at once
FreedEarly == None
StillPending == ticket

\* mutant: the credit goes with the candidate
CreditDropped == [spill EXCEPT ![call.key] = -1]
CreditKept == spill

Decline ==
  /\ InWriteback("select")
  /\ scratch' = NoScratch /\ ticket' = StillPending /\ spill' = CreditKept
  /\ \/ call' = [call EXCEPT !.step = "copy", !.decided = TRUE] /\ Calm
     \/ Goes("copy") /\ Fault
  /\ UNCHANGED <<gpu, host, rt, latest>>

Copied ==
  /\ InWriteback("copy") /\ Goes("commit")
  /\ UNCHANGED <<gpu, host, spill, scratch, ticket, rt, latest>> /\ Calm

(* The copy cannot be enqueued or recorded, or its event fails or times    *)
(* out.                                                                    *)
CopyFails ==
  /\ InWriteback("copy") /\ Fault
  /\ Poison(TRUE) /\ Ends
  /\ UNCHANGED <<gpu, host, spill, scratch, ticket, latest>>

(* The spill credit pays for the raw authority; without one the exact      *)
(* charge must be found in the budget.                                     *)
SpendsCredit(k) == [spill EXCEPT ![k] = -1]

Affordable(k) == IF spill[k] # -1 THEN spill[k] = host[k].gen ELSE Fits(Raw)

(* A refused commit: a pending candidate is quarantined with the mapping.  *)
(* Without one the call fails and the chunk stays where it is.             *)
RefusesRaw ==
  /\ IF ticket # None
     THEN rt' = [poisoned |-> TRUE, asyncQ |-> TRUE, codecQ |-> TRUE]
     ELSE UNCHANGED rt
  /\ Ends /\ UNCHANGED <<host, spill>>

CommitRaw ==
  /\ InWriteback("commit")
  /\ LET k == call.key IN
     IF Affordable(k)
     THEN /\ Commit(k, "raw", Raw) /\ spill' = SpendsCredit(k)
          /\ Goes("acknowledge") /\ UNCHANGED rt
     ELSE RefusesRaw
  /\ UNCHANGED <<gpu, scratch, ticket, latest>> /\ Calm

CommitFails ==
  /\ InWriteback("commit") /\ Fault /\ RefusesRaw
  /\ UNCHANGED <<gpu, scratch, ticket, latest>>

FillFails ==
  /\ InWriteback("commit") /\ spill[call.key] # -1 /\ Fault
  /\ Poison(FALSE) /\ Ends
  /\ UNCHANGED <<gpu, host, spill, scratch, ticket, latest>>

Retired(k) == [gpu EXCEPT ![k].st = "clean"]

(* The slot is acknowledged, the chunk is clean; a raw authority may be    *)
(* compressed by the CPU, within the budget; and the caller goes on.       *)
Acknowledge ==
  /\ InWriteback("acknowledge")
  /\ ticket' = None /\ gpu' = Retired(call.key)
  /\ LET k == call.key IN
     \/ UNCHANGED host
     \/ /\ host[k].rep = "raw" /\ ~call.decided /\ Fits(Raw + Block)
        /\ \E bytes \in Lz4 : host' = [host EXCEPT ![k].rep = "lz4", ![k].gen = @ + 1,
                                                  ![k].bytes = bytes]
  /\ IF call.op = "write" THEN call' = [call EXCEPT !.key = None, !.step = "admit"]
     ELSE call' = [call EXCEPT !.key = None, !.step = "unmap"]
  /\ UNCHANGED <<spill, scratch, rt, latest>> /\ Calm

(* The write-back is done, the compression after it fails, and the call    *)
(* with it.                                                                *)
CompressFails ==
  /\ InWriteback("acknowledge") /\ host[call.key].rep = "raw" /\ ~call.decided /\ Fault
  /\ ticket' = None /\ gpu' = Retired(call.key) /\ Ends
  /\ UNCHANGED <<host, spill, scratch, rt, latest>>

AcknowledgeFails ==
  /\ InWriteback("acknowledge") /\ ticket # None /\ Fault
  /\ Poison(rt.codecQ) /\ Ends
  /\ UNCHANGED <<gpu, host, spill, scratch, ticket, latest>>

-----------------------------------------------------------------------------
(* Eviction writes a dirty chunk back and unmaps it.                       *)

NeedsWriteback(c) == gpu[c].st = "dirty"

Evict(c) ==
  /\ Ready /\ gpu[c].st \in {"clean", "dirty"}
  /\ IF NeedsWriteback(c)
     THEN /\ gpu' = [gpu EXCEPT ![c].st = "d2h"]
          /\ call' = [NoCall EXCEPT !.op = "evict", !.chunk = c, !.key = c, !.step = "probe"]
     ELSE /\ UNCHANGED gpu
          /\ call' = [NoCall EXCEPT !.op = "evict", !.chunk = c, !.step = "unmap"]
  /\ UNCHANGED <<host, spill, scratch, ticket, rt, latest>> /\ Calm

Unmap ==
  /\ call.step = "unmap" /\ Ends
  /\ gpu' = [gpu EXCEPT ![call.chunk] = [st |-> "out", ver |-> 0]]
  /\ UNCHANGED <<host, spill, scratch, ticket, rt, latest>> /\ Calm

-----------------------------------------------------------------------------
(* The upload of ensure_resident.                                          *)

Fetch(c) ==
  /\ Ready /\ gpu[c].st = "out"
  /\ gpu' = [gpu EXCEPT ![c].st = "h2d"]
  /\ call' = [NoCall EXCEPT !.op = "fetch", !.chunk = c, !.step = "source"]
  /\ UNCHANGED <<host, spill, scratch, ticket, rt, latest>> /\ Calm

Refused == gpu' = [gpu EXCEPT ![call.chunk] = [st |-> "out", ver |-> 0]] /\ Ends

(* A compressed authority is exported for the device to decode, unless     *)
(* there is no pipeline or the path is raw; what the CPU decodes needs a   *)
(* block of scratch.  Without scratch the upload is taken back.            *)
Source ==
  /\ call.op = "fetch" /\ call.step = "source"
  /\ IF host[call.chunk].rep # "lz4" THEN Goes("upload") /\ UNCHANGED <<gpu, scratch>>
     ELSE \/ IF Fits(Raw)
             THEN scratch' = [scratch EXCEPT !.whole = Raw] /\ Goes("decode") /\ UNCHANGED gpu
             ELSE Refused /\ UNCHANGED scratch
          \/ Goes("cpu") /\ UNCHANGED <<gpu, scratch>>
  /\ UNCHANGED <<host, spill, ticket, rt, latest>> /\ Calm

Decoded(c) == host[c].ver

Arrives(c) == gpu' = [gpu EXCEPT ![c] = [st |-> "clean", ver |-> Decoded(c)]]

Decode ==
  /\ call.step = "decode"
  /\ scratch' = NoScratch /\ Arrives(call.chunk) /\ Ends
  /\ UNCHANGED <<host, spill, ticket, rt, latest>> /\ Calm

DecodeFails ==
  /\ call.step = "decode" /\ Fault
  /\ scratch' = NoScratch
  /\ \/ Goes("cpu") /\ UNCHANGED rt
     \/ Ends /\ rt' = [poisoned |-> TRUE, asyncQ |-> TRUE, codecQ |-> TRUE]
  /\ UNCHANGED <<gpu, host, spill, ticket, latest>>

(* Decoded into the pinned staging slot: block is charged and given back.  *)
CpuDecode ==
  /\ call.step = "cpu"
  /\ IF Fits(Block) THEN Goes("upload") /\ UNCHANGED gpu ELSE Refused
  /\ UNCHANGED <<host, spill, scratch, ticket, rt, latest>> /\ Calm

Upload ==
  /\ call.step = "upload" /\ Arrives(call.chunk) /\ Ends
  /\ UNCHANGED <<host, spill, scratch, ticket, rt, latest>> /\ Calm

(* The authority cannot be read (the mapping is retired and taken back),   *)
(* or the copy or its event fails.                                         *)
UploadFails ==
  /\ call.step = "upload" /\ Fault
  /\ \/ Refused /\ UNCHANGED rt
     \/ Ends /\ Poison(TRUE) /\ UNCHANGED gpu
  /\ UNCHANGED <<host, spill, scratch, ticket, latest>>

Next ==
  \/ \E c \in Chunk : Write(c) \/ Evict(c) \/ Fetch(c)
  \/ Admit \/ SkipCodec \/ Probe \/ Encoded \/ EncodeFails \/ Select \/ Decline
  \/ Copied \/ CopyFails \/ CommitRaw \/ CommitFails \/ FillFails
  \/ Acknowledge \/ CompressFails \/ AcknowledgeFails \/ Unmap
  \/ Source \/ Decode \/ DecodeFails \/ CpuDecode \/ Upload \/ UploadFails

Step ==
  \/ Admit \/ SkipCodec \/ Probe \/ Encoded \/ Select \/ Decline \/ Copied \/ CommitRaw
  \/ Acknowledge \/ Unmap \/ Source \/ Decode \/ CpuDecode \/ Upload

Spec == Init /\ [][Next]_vars

-----------------------------------------------------------------------------
(* The states of chunks, credits, scratch and calls.                       *)
CodecTypeOK ==
  /\ \A c \in Chunk : /\ gpu[c].st \in {"out", "clean", "dirty", "h2d", "d2h"}
                      /\ host[c].rep \in {"zero", "raw", "lz4"}
                      /\ spill[c] \in -1 .. host[c].gen
  /\ scratch.whole \in {0, Raw} /\ scratch.block \in {0, Block}
  /\ ticket \in Chunk \union {None} /\ call.chunk \in Chunk \union {None}

(* The latest contents of a chunk are in its authority or in a frame that  *)
(* is still mapped, whatever failed in the middle of a transfer.           *)
NothingIsLost ==
  \A c \in Chunk :
    \/ host[c].ver = latest[c]
    \/ gpu[c].st \in {"dirty", "d2h"} /\ gpu[c].ver = latest[c]

(* A clean frame and its authority agree, whichever path filled either.    *)
CleanIsCurrent ==
  \A c \in Chunk : gpu[c].st = "clean" => gpu[c].ver = latest[c] /\ host[c].ver = latest[c]

(* The ledger: authorities, spill credits and scratch never exceed the     *)
(* budget together, at any step of a write-back.                           *)
WithinBudget == Charged <= Limit

(* "Before a write-capable lease first dirties a chunk, the runtime        *)
(* reserves a full raw spill credit" (docs/adaptive-compression.md:149):   *)
(* what is dirty has one, prepared for the generation it will replace, and *)
(* a credit is held for nothing else.                                      *)
DirtyHasCredit ==
  \A c \in Chunk :
    /\ gpu[c].st = "dirty" => spill[c] = host[c].gen
    /\ spill[c] # -1 => gpu[c].st \in {"dirty", "d2h"}

(* So a raw write-back never has to ask the budget for room.               *)
CreditPaysForRaw == InWriteback("commit") => spill[call.key] = host[call.key].gen

(* "A slot cannot be reused until ... a D2H candidate has been atomically  *)
(* committed when applicable" (docs/adaptive-compression.md:139): outside  *)
(* a write-back no candidate is pending unless the runtime is poisoned,    *)
(* and within one the slot is kept until the authority has the contents.   *)
CandidateIsSettled ==
  /\ ticket # None => ticket = call.key \/ rt.poisoned
  /\ InWriteback("acknowledge") => host[call.key].ver = gpu[call.key].ver

(* A slot is given back only when the chunk's newest contents are the      *)
(* authority.                                                              *)
SlotHeldUntilCommit ==
  ticket # None /\ ticket' = None => host[ticket].ver = latest[ticket]

(* Scratch is borrowed for one conversion: no way out of a call keeps it,  *)
(* poisoned or not.                                                        *)
ScratchIsReturned == Idle => scratch = NoScratch

(* A call that fails softly leaves no chunk in transit but one whose       *)
(* commit was refused.                                                     *)
NothingLeftInTransit ==
  Ready => \A c \in Chunk : gpu[c].st # "h2d" /\ (gpu[c].st = "d2h" => faults > 0)
=============================================================================
