------------------------------ MODULE MCCodecs ------------------------------
(***************************************************************************)
(* The compressed backing tier, for TLC: the nvCOMP pipeline and the       *)
(* layout of its workspace, a chunk's way between its three copies, the    *)
(* cost model that chooses the way, and the control of the VRAM budget.    *)
(*                                                                         *)
(* The components share no state: "focus" names the one that moves. A      *)
(* variable is that of the component in focus; the others rest, the        *)
(* pipeline in its initial state.                                          *)
(***************************************************************************)
EXTENDS NvcompPipeline, Integers

CONSTANTS Nobody, None

VARIABLES
  focus,                                         \* the component that moves
  dims, request, placed,                         \* of the layout
  gpu, spill, scratch, ticket, rt, latest,       \* of the transfers, with host, call, faults
  host, call, faults,                            \* of several
  model, frame, reuse, try, seen, ops,           \* of the cost model, with host
  others, hostload, b                    \* of the budget, with call, faults

layout == <<dims, request, placed>>
transfer == <<gpu, spill, scratch, ticket, rt, latest>>
choice == <<model, frame, reuse, try, seen, ops>>
budget == <<others, hostload, b>>
suite == <<focus, pipelineVars, layout, transfer, choice, budget, host, call, faults>>

Layout == INSTANCE CodecLayout WITH
  BlockBytes <- 4, MaxBlocks <- 3, Alignments <- {1, 2, 3, 4, 8}, MaxExpansion <- 3
(* Two chunks, room for both and two faults; three, short of memory.       *)
Faulty == INSTANCE CodecTransfer WITH
  Chunk <- {1, 2}, Raw <- 3, Lz4 <- {1, 2}, Block <- 1, Limit <- 9, Writes <- 2, MaxFaults <- 2
Tight == INSTANCE CodecTransfer WITH
  Chunk <- {1, 2, 3}, Raw <- 3, Lz4 <- {1, 2}, Block <- 1, Limit <- 7, Writes <- 1, MaxFaults <- 0

(* Zeroes, a content that shrinks to a fifth, and one that does not shrink: *)
(* a raw copy takes 200 us, an encode 20 or 300.                            *)
Sizes == <<4, 4, 20>>
Adaptive == INSTANCE CompressionChoice WITH
  Content <- {1, 2, 3}, Stored <- Sizes, Raw <- 20, Encode <- {2, 30}, Decode <- 1,
  Mode <- "adaptive", Nvcomp <- TRUE, Scale <- 4, MaxReuse <- 2, Ops <- 4
Slow == INSTANCE CompressionChoice WITH
  Content <- {1, 2, 3}, Stored <- Sizes, Raw <- 20, Encode <- {30}, Decode <- 1,
  Mode <- "adaptive", Nvcomp <- TRUE, Scale <- 4, MaxReuse <- 2, Ops <- 6
CpuOnly == INSTANCE CompressionChoice WITH
  Content <- {1, 2, 3}, Stored <- Sizes, Raw <- 20, Encode <- {2, 30}, Decode <- 1,
  Mode <- "adaptive", Nvcomp <- FALSE, Scale <- 4, MaxReuse <- 3, Ops <- 4
Capacity == INSTANCE CompressionChoice WITH
  Content <- {1, 2, 3}, Stored <- Sizes, Raw <- 20, Encode <- {2, 30}, Decode <- 1,
  Mode <- "capacity", Nvcomp <- TRUE, Scale <- 4, MaxReuse <- 2, Ops <- 5

(* Fourteen units, of which twelve may be used: three frames of two beside *)
(* a pipeline of three and a reserve of two.                               *)
Budget == INSTANCE BudgetControl WITH
  Device <- 14, Limit <- 12, Headroom <- 2, Chunk <- 2, Codec <- 3, Reserve <- 2, Pinned <- 1,
  HostLimit <- 2, HasCodec <- TRUE, Loads <- {0, 4}, HostLoads <- {0, 2}, SetupLoad <- 0,
  Requests <- {2}, Workspaces <- {0, 2}, GrowSamples <- 2, RestoreSamples <- 2,
  PrefetchInLease <- TRUE, MaxFaults <- 1

ASSUME /\ Layout!LayoutAssumption
       /\ Faulty!CodecAssumption /\ Tight!CodecAssumption
       /\ Adaptive!ChoiceAssumption /\ Slow!ChoiceAssumption
       /\ CpuOnly!ChoiceAssumption /\ Capacity!ChoiceAssumption
       /\ Budget!BudgetAssumption

-----------------------------------------------------------------------------
NoLayout == dims = Nobody /\ request = Nobody /\ placed = Nobody
NoTransfer ==
  /\ gpu = Nobody /\ spill = Nobody /\ scratch = Nobody /\ ticket = Nobody
  /\ rt = Nobody /\ latest = Nobody
NoChoice ==
  /\ model = Nobody /\ frame = Nobody /\ reuse = Nobody /\ try = Nobody
  /\ seen = Nobody /\ ops = Nobody
NoBudget == others = Nobody /\ hostload = Nobody /\ b = Nobody
NoCalls == call = Nobody /\ faults = Nobody

CodecsInit ==
  /\ PipelineInit
  /\ \/ /\ focus = "pipeline"
        /\ NoLayout /\ NoTransfer /\ NoChoice /\ NoBudget /\ NoCalls /\ host = Nobody
     \/ /\ focus = "layout" /\ Layout!LayoutInit
        /\ NoTransfer /\ NoChoice /\ NoBudget /\ NoCalls /\ host = Nobody
     \/ /\ \/ focus = "faulty" /\ Faulty!Init
           \/ focus = "tight" /\ Tight!Init
        /\ NoLayout /\ NoChoice /\ NoBudget
     \/ /\ \/ focus = "adaptive" /\ Adaptive!Init
           \/ focus = "slow" /\ Slow!Init
           \/ focus = "cpu only" /\ CpuOnly!Init
           \/ focus = "capacity" /\ Capacity!Init
        /\ NoLayout /\ NoTransfer /\ NoBudget /\ NoCalls
     \/ /\ focus = "budget" /\ Budget!Init
        /\ NoLayout /\ NoTransfer /\ NoChoice /\ host = Nobody

PipelineStep ==
  /\ focus = "pipeline" /\ PipelineNext
  /\ UNCHANGED <<focus, layout, transfer, choice, budget, host, call, faults>>

LayoutStep ==
  /\ focus = "layout" /\ Layout!LayoutNext
  /\ UNCHANGED <<focus, pipelineVars, transfer, choice, budget, host, call, faults>>

TransferStep ==
  /\ \/ focus = "faulty" /\ Faulty!Next
     \/ focus = "tight" /\ Tight!Next
  /\ UNCHANGED <<focus, pipelineVars, layout, choice, budget>>

ChoiceStep ==
  /\ \/ focus = "adaptive" /\ Adaptive!Next
     \/ focus = "slow" /\ Slow!Next
     \/ focus = "cpu only" /\ CpuOnly!Next
     \/ focus = "capacity" /\ Capacity!Next
  /\ UNCHANGED <<focus, pipelineVars, layout, transfer, budget, call, faults>>

BudgetStep ==
  /\ focus = "budget" /\ Budget!Next
  /\ UNCHANGED <<focus, pipelineVars, layout, transfer, choice, host>>

CodecsNext == PipelineStep \/ LayoutStep \/ TransferStep \/ ChoiceStep \/ BudgetStep

CodecsSpec == CodecsInit /\ [][CodecsNext]_suite

-----------------------------------------------------------------------------
(* No fault, fallback or lack of host memory loses the only current copy   *)
(* of a chunk: a dirty one keeps the credit that pays for its raw copy,    *)
(* and what a call borrowed it gives back. The path the cost model takes   *)
(* is one it has measured to pay, and only the content that earned the     *)
(* mark "never compress" is skipped for it. Every shape the validation     *)
(* accepts has room for its parts, disjoint and aligned.                   *)
CompressionSafe ==
  /\ focus = "layout" =>
       /\ Layout!LayoutTypeOK /\ Layout!ValidatedAlwaysFits /\ Layout!RangesAreDisjoint
       /\ Layout!RangesAreUsable /\ Layout!CandidateIsAContainer /\ Layout!MetadataIsSound
  /\ focus = "faulty" =>
       /\ Faulty!CodecTypeOK /\ Faulty!NothingIsLost /\ Faulty!CleanIsCurrent
       /\ Faulty!WithinBudget /\ Faulty!DirtyHasCredit /\ Faulty!CreditPaysForRaw
       /\ Faulty!CandidateIsSettled /\ Faulty!ScratchIsReturned /\ Faulty!NothingLeftInTransit
  /\ focus = "tight" =>
       /\ Tight!NothingIsLost /\ Tight!WithinBudget /\ Tight!DirtyHasCredit
       /\ Tight!CreditPaysForRaw
  /\ focus = "adaptive" =>
       /\ Adaptive!ChoiceTypeOK /\ Adaptive!SkipIsLearned /\ Adaptive!CalibratedByOneCall
  /\ focus = "slow" => Slow!MarkSkipsOneContent /\ Slow!SkipIsLearned
  /\ focus = "cpu only" => CpuOnly!ChosenPathPays
  /\ focus = "capacity" => Capacity!CapacityCompresses

(* However the free memory of the device moves between samples, and        *)
(* whatever allocation fails, frames and pipeline leave the headroom and   *)
(* the reserve alone, pinned frames stay, and the host budget is charged   *)
(* for the pipeline exactly while that exists.                             *)
BudgetSafe ==
  focus = "budget" =>
    /\ Budget!TypeOK /\ Budget!HeadroomKept /\ Budget!ChargedWhileItExists
    /\ Budget!SuspendedOwnsNothing /\ Budget!ReserveCountsPipeline
    /\ Budget!NothingBeyondCapacity /\ Budget!PinnedFramesStay

(* What a step may not do: give out an operation number after the last one, *)
(* end a device candidate before the host has the chunk's bytes, mark a     *)
(* content before three probes of it failed, drop frames for a shrink that  *)
(* is refused, or raise the capacity beyond what fits - but for restoring   *)
(* the pipeline.                                                            *)
CodecSteps ==
  [][/\ focus = "pipeline" => ExhaustedIsFinal
     /\ focus = "faulty" => Faulty!SlotHeldUntilCommit
     /\ focus = "tight" => Tight!SlotHeldUntilCommit
     /\ focus = "adaptive" => Adaptive!MarkIsEarned
     /\ focus = "slow" => Slow!MarkIsEarned
     /\ focus = "budget" => Budget!RefusedShrinkDropsNothing /\ Budget!CapacityFitsButForRestore
    ]_suite
=============================================================================
