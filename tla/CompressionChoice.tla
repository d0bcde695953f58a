------------------------- MODULE CompressionChoice -------------------------
(***************************************************************************)
(* Whether a chunk is stored raw or compressed: the cost model             *)
(* (residency/compression.cpp, CompressionCostModel) and the three places  *)
(* of the runtime that feed and ask it (residency/runtime.cpp): the CPU's  *)
(* attempts after a host write or a raw write-back, the probe of a         *)
(* write-back by the GPU codec with the skip it may have learned, and the  *)
(* raw upload that is timed.                                               *)
(*                                                                         *)
(* One chunk and its model; no path is forced.  Contents are what          *)
(* content_identity tells apart.  Costs are in units of ten microseconds,  *)
(* a unit of data takes one to cross the bus; averages are kept in steps   *)
(* of 1/Scale and rounded down.  Codec availability, staging, queueing and *)
(* SM time are what the runtime passes on one thread: none.                *)
(***************************************************************************)
EXTENDS Integers, Sequences

CONSTANTS
  Content,     \* contents of the chunk, 1 being all zeroes
  Stored,      \* size of each content once compressed, Raw when it does not shrink
  Raw,         \* size of the chunk
  Encode,      \* times an encode may take
  Decode,      \* time a decode takes
  Mode,        \* "adaptive" or "capacity"
  Nvcomp,      \* whether the GPU codec is available
  Scale,       \* steps of an average (bound)
  MaxReuse,    \* counted reuses (bound)
  Ops          \* operations on the chunk (bound)

ChoiceAssumption ==
  /\ Content \subseteq Nat \ {0} /\ 1 \in Content /\ Raw \in Nat \ {0}
  /\ Stored \in [Content -> 1 .. Raw] /\ Encode \subseteq Nat /\ Decode \in Nat
  /\ Mode \in {"adaptive", "capacity"} /\ Nvcomp \in BOOLEAN
  /\ Scale \in Nat \ {0} /\ MaxReuse \in Nat /\ Ops \in Nat

VARIABLES
  model,   \* cost_models_[key]: the content it is about, its probes and its averages
  host,    \* content and representation of the authority
  frame,   \* content and state of the chunk on the device
  reuse,   \* chunk_reuse_counts_[key]
  try,     \* attempt of consider_compression that runs (0: none), how the last choice ended
  seen,    \* the probes so far, the newest last; skips of another content since
  ops

vars == <<model, host, frame, reuse, try, seen, ops>>

Unseen == [samples |-> 0, stored |-> Raw * Scale, encode |-> 0, reuse |-> 0, dirty |-> 0]

Init ==
  /\ model = [content |-> 0, unfavorable |-> 0, never |-> FALSE,
              path |-> [p \in {"raw", "cpu", "gpu"} |-> Unseen]]
  /\ host = [content |-> 1, rep |-> "zero"]
  /\ frame = [content |-> 1, st |-> "out"]
  /\ reuse = 0
  /\ try = [attempt |-> 0, ended |-> "none", by |-> "none", pays |-> TRUE]
  /\ seen = [probes |-> <<>>, gpu |-> 0, skips |-> 0]
  /\ ops = 0

-----------------------------------------------------------------------------
(* CompressionCostModel.                                                   *)

Reset(m, c) == [m EXCEPT !.content = c, !.unfavorable = 0, !.never = FALSE]

About(m, c) == IF m.content = c THEN m ELSE Reset(m, c)

(* An average moves a quarter of the way to the sample.                    *)
Average(old, sample, first) ==
  IF first THEN sample * Scale ELSE (sample * Scale + 3 * old) \div 4

Observe(m, c, p, o) ==
  LET a == About(m, c)
      Mix(x) == [samples |-> IF x.samples = 2 THEN 2 ELSE x.samples + 1,
                 stored |-> Average(x.stored, o.stored, x.samples = 0),
                 encode |-> Average(x.encode, o.encode, x.samples = 0),
                 reuse |-> Average(x.reuse, o.reuse, x.samples = 0),
                 dirty |-> Average(x.dirty, o.dirty, x.samples = 0)]
  IN  [a EXCEPT !.path[p] = Mix(@)]

RawSample(uses, dirty) == [stored |-> Raw, encode |-> 0, reuse |-> uses, dirty |-> dirty]

(* max(10 %, 50 us), unit being the scale of both totals.                  *)
Beats(candidate, raw, unit) == 10 * candidate <= 9 * raw /\ candidate + 5 * unit <= raw

RecordProbe(m, c, raw, candidate) ==
  LET a == About(m, c)
      n == IF Beats(candidate, raw, 1) THEN 0 ELSE a.unfavorable + 1
  IN  IF a.never THEN a ELSE [a EXCEPT !.unfavorable = n, !.never = n >= 3]

Confident(m, p) == m.path[p].samples >= 2

(* A reuse reads the chunk again, a dirty one writes it back as well: raw  *)
(* over the bus for the CPU codec, compressed for the GPU's.               *)
Estimate(m, p) ==
  LET x == m.path[p]
      cycles == Scale + x.reuse
      dirty == cycles * x.dirty
  IN  IF p = "raw" THEN cycles * x.stored * Scale + dirty * Raw * Scale
      ELSE x.encode * Scale * Scale
           + cycles * (Decode * Scale + x.stored) * Scale
           + dirty * (x.encode + (IF p = "cpu" THEN Raw * Scale ELSE x.stored))

Candidates(m, allowed) ==
  {p \in {"cpu", "gpu"} \intersect allowed : Confident(m, p) /\ m.path[p].stored < Raw * Scale}

CalibrationRequired(m, allowed) == ~Confident(m, "raw") \/ Candidates(m, allowed) = {}

(* The cheapest of the candidates that beat raw, and the CPU at a tie.     *)
Decide(m, allowed) ==
  LET good == {p \in Candidates(m, allowed) :
                 ~m.never /\ Beats(Estimate(m, p), Estimate(m, "raw"), Scale * Scale * Scale)}
  IN  IF ~Confident(m, "raw") \/ good = {} THEN "raw"
      ELSE IF good = {"cpu", "gpu"}
           THEN IF Estimate(m, "cpu") <= Estimate(m, "gpu") THEN "cpu" ELSE "gpu"
           ELSE CHOOSE p \in good : TRUE

-----------------------------------------------------------------------------
Idle == try.attempt = 0
Operates == Idle /\ ops < Ops /\ ops' = ops + 1

Probed(c, good) ==
  [seen EXCEPT !.probes = Append(IF Len(@) = 3 THEN Tail(@) ELSE @, [content |-> c, good |-> good])]

(* Whether the path that was chosen is calibrated and predicted to pay.    *)
Pays(m, p) ==
  LET r == Estimate(m, "raw")
      e == Estimate(m, p)
  IN  /\ m.path["raw"].samples = 2 /\ m.path[p].samples = 2
      /\ e + r \div 10 <= r /\ e + 5 * Scale * Scale * Scale <= r

Ends(how, by, pays) == try' = [attempt |-> 0, ended |-> how, by |-> by, pays |-> pays]

(* consider_compression: the model is turned to the content, raw has one   *)
(* sample, and the attempts begin.                                         *)
Consider(m, c) ==
  /\ model' = Observe(m, c, "raw", RawSample(reuse, 0))
  /\ try' = [attempt |-> 1, ended |-> "none", by |-> "none", pays |-> TRUE]

Attempts == IF Mode = "capacity" THEN 1 ELSE 3

Wants(good, decided) == Mode = "capacity" \/ (good /\ decided)

Attempt ==
  /\ ~Idle
  /\ \E e \in Encode :
       LET c == host.content
           cycles == 1 + reuse
           raw == cycles * Raw
           candidate == e + cycles * (Decode + Stored[c])
           sampled == Observe(Observe(model, c, "raw", RawSample(reuse, 0)), c, "cpu",
                              [stored |-> Stored[c], encode |-> e, reuse |-> reuse, dirty |-> 0])
           m == RecordProbe(sampled, c, raw, candidate)
           allowed == {"cpu"} \union (IF Nvcomp THEN {"gpu"} ELSE {})
           decided == ~CalibrationRequired(m, allowed) /\ Decide(m, allowed) # "raw"
       IN  /\ model' = m
           /\ seen' = Probed(c, Beats(candidate, raw, 1))
           /\ IF Stored[c] < Raw /\ Wants(Beats(candidate, raw, 1), decided)
              THEN host' = [host EXCEPT !.rep = "lz4"] /\ Ends("committed", "cpu", Pays(m, "cpu"))
              ELSE /\ UNCHANGED host
                   /\ IF try.attempt < Attempts
                      THEN try' = [try EXCEPT !.attempt = @ + 1]
                      ELSE Ends("exhausted", "cpu", TRUE)
  /\ UNCHANGED <<frame, reuse, ops>>

(* No room for the candidate, or the codec fails: raw it stays.            *)
AttemptFails ==
  /\ ~Idle /\ Ends("failed", "cpu", TRUE)
  /\ model' = Observe(model, host.content, "raw", RawSample(reuse, 0))
  /\ UNCHANGED <<host, frame, reuse, seen, ops>>

(* write by the host.  The chunk is not on the device: what is dirty has   *)
(* been written back.                                                      *)
HostWrite(c) ==
  /\ Operates /\ frame.st # "dirty"
  /\ host' = [content |-> c, rep |-> "raw"] /\ frame' = [content |-> c, st |-> "out"]
  /\ Consider(About(model, c), c)
  /\ seen' = [seen EXCEPT !.skips = 0]
  /\ UNCHANGED reuse

(* A cache hit: the chunk is used again.                                   *)
Hit == reuse' = IF reuse < MaxReuse THEN reuse + 1 ELSE reuse

Read ==
  /\ Operates /\ frame.st # "out" /\ reuse < MaxReuse /\ Hit
  /\ UNCHANGED <<model, host, frame, try, seen>>

KernelWrite(c) ==
  /\ Operates /\ frame.st # "out" /\ Hit
  /\ frame' = [content |-> c, st |-> "dirty"]
  /\ UNCHANGED <<model, host, try, seen>>

(* A write-only access maps the chunk without an upload.                   *)
Overwrite(c) ==
  /\ Operates /\ frame.st = "out"
  /\ frame' = [content |-> c, st |-> "dirty"]
  /\ UNCHANGED <<model, host, reuse, try, seen>>

(* The upload; one that crosses the bus raw is a sample.                   *)
Upload ==
  /\ Operates /\ frame.st = "out"
  /\ frame' = [content |-> host.content, st |-> "clean"]
  /\ model' = IF host.rep = "lz4" /\ Nvcomp THEN model
              ELSE Observe(model, host.content, "raw", RawSample(0, 0))
  /\ UNCHANGED <<host, reuse, try, seen>>

Evict ==
  /\ Operates /\ frame.st = "clean"
  /\ frame' = [frame EXCEPT !.st = "out"]
  /\ UNCHANGED <<model, host, reuse, try, seen>>

-----------------------------------------------------------------------------
(* writeback.  The model may have learned that raw is better, from what it *)
(* knows about the content that the authority still has.                   *)

Learned(m) ==
  /\ m.content = host.content
  /\ m.never \/ (Decide(m, {"cpu", "gpu"}) = "raw" /\ Confident(m, "raw") /\ Confident(m, "gpu"))

Skips == Mode = "adaptive" /\ Nvcomp /\ Learned(model)

Stores(rep) ==
  /\ host' = [content |-> frame.content, rep |-> rep]
  /\ frame' = [frame EXCEPT !.st = "clean"]

SkipCodec ==
  /\ Operates /\ frame.st = "dirty" /\ Skips
  /\ Stores("raw") /\ Ends("skipped", IF model.never THEN "mark" ELSE "samples", TRUE)
  /\ seen' = [seen EXCEPT !.skips =
                IF model.never /\ frame.content # model.content /\ @ < 2 THEN @ + 1 ELSE @]
  /\ UNCHANGED <<model, reuse>>

GpuProbe ==
  /\ Operates /\ frame.st = "dirty" /\ Nvcomp /\ ~Skips
  /\ \E e \in Encode :
       LET c == frame.content
           candidate == e + Stored[c] + Decode
           sampled == Observe(Observe(model, c, "raw", RawSample(reuse, 1)), c, "gpu",
                              [stored |-> Stored[c], encode |-> e, reuse |-> reuse, dirty |-> 1])
           m == RecordProbe(sampled, c, Raw, candidate)
           good == Beats(candidate, Raw, 1)
           decided == ~CalibrationRequired(m, {"cpu", "gpu"}) /\ Decide(m, {"cpu", "gpu"}) = "gpu"
       IN  /\ model' = m
           /\ seen' = [Probed(c, good) EXCEPT !.gpu = IF @ = 2 THEN 2 ELSE @ + 1, !.skips = 0]
           /\ IF Wants(good, decided)
              THEN Stores("lz4") /\ Ends("committed", "gpu", Pays(m, "gpu"))
              ELSE Stores("raw") /\ Ends("declined", "gpu", TRUE)
  /\ UNCHANGED reuse

(* Without the codec, or when it fails softly, the chunk goes raw and the  *)
(* CPU has its attempts.                                                   *)
RawWriteback ==
  /\ Operates /\ frame.st = "dirty" /\ ~Skips
  /\ Stores("raw") /\ Consider(About(model, frame.content), frame.content)
  /\ seen' = [seen EXCEPT !.skips = 0]
  /\ UNCHANGED reuse

Next ==
  \/ \E c \in Content : HostWrite(c) \/ KernelWrite(c) \/ Overwrite(c)
  \/ Attempt \/ AttemptFails \/ Read \/ Upload \/ Evict
  \/ SkipCodec \/ GpuProbe \/ RawWriteback

Spec == Init /\ [][Next]_vars

-----------------------------------------------------------------------------
(* Averages are of possible samples, a mark keeps its count.               *)
ChoiceTypeOK ==
  /\ model.content \in Content \union {0}
  /\ model.unfavorable \in Nat /\ (model.never => model.unfavorable >= 3)
  /\ \A p \in {"raw", "cpu", "gpu"} :
       /\ model.path[p].samples \in 0 .. 2 /\ model.path[p].stored \in 1 .. Raw * Scale
       /\ model.path[p].reuse \in 0 .. MaxReuse * Scale /\ model.path[p].dirty \in 0 .. Scale
  /\ host.rep \in {"zero", "raw", "lz4"} /\ frame.st \in {"out", "clean", "dirty"}
  /\ try.attempt \in 0 .. 3

(* "Three consecutive unfavorable probes mark the current content          *)
(* generation" (docs/adaptive-compression.md:192): probes of one content,  *)
(* none of them good, whichever codec made them and whatever was observed  *)
(* between them.                                                           *)
MarkIsEarned ==
  ~model.never /\ model'.never =>
    /\ Len(seen'.probes) = 3
    /\ \A i \in 1 .. 3 : seen'.probes[i] = [content |-> model'.content, good |-> FALSE]

(* The mark of a content keeps the codec from at most one write-back of    *)
(* another before the chunk is probed or the host writes it: the model is  *)
(* about the marked content, the authority has the other one now.          *)
MarkSkipsOneContent == seen.skips <= 1

(* "a raw decision caused merely by missing GPU calibration must not       *)
(* disable compression" (runtime.cpp:3944): the codec is skipped only      *)
(* after it was measured twice, or for a mark.                             *)
SkipIsLearned ==
  try.ended = "skipped" /\ try.by = "samples" => seen.gpu = 2 /\ model.path["raw"].samples = 2

(* One call of consider_compression that nothing interrupts leaves the CPU *)
(* path calibrated: compressible data is not left raw for want of samples. *)
CalibratedByOneCall ==
  try.ended = "exhausted" => \A p \in {"raw", "cpu"} : model.path[p].samples = 2

(* capacity leaves nothing raw that shrinks, but for a codec that failed.  *)
CapacityCompresses ==
  Idle /\ host.rep = "raw" => try.ended = "failed" \/ Stored[host.content] = Raw

(* "adaptive chooses a compressed path only when its predicted total time  *)
(* beats raw by at least max(10 %, 50 us)", two observations of either     *)
(* being required (docs/adaptive-compression.md:185-189).                  *)
ChosenPathPays == try.ended = "committed" => try.pays
=============================================================================
