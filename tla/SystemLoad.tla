----------------------------- MODULE SystemLoad -----------------------------
(***************************************************************************)
(* The header's CPU reading: one sampler takes the difference of two looks *)
(* at cumulative counters, while some page polls; a reading is made of the *)
(* samples it kept.  A tick runs in a thread, so time passes between its   *)
(* decision and its look at the counters.                                  *)
(***************************************************************************)
EXTENDS Integers, Sequences, FiniteSets, Folds

CONSTANTS
  Busy,                  \* what the CPU is at, in tenths, but for a lull
  Lulls,                 \* bound: [from, to], when the CPU may be at rest
  TickSeconds, FirstWindow, DemandWindow, Sustain,
  Attention, Danger,     \* thresholds, in tenths
  MaxUptime, MaxLate,    \* bounds: the clock, how long a tick takes
  MaxFailures            \* bound: samples that raise

VARIABLES
  uptime,
  lull,         \* when the CPU was at rest
  baseline,     \* [at, look], or NoBaseline
  samples,      \* _history: [at, window, from, to]: from and to are the looks it compares
  ticking,      \* [does, now] of the tick under way
  undemanded,   \* the time since _last_demand, up to just over DemandWindow
  sampleError,  \* _last_error is set
  raised        \* bound

vars == <<uptime, lull, baseline, samples, ticking, undemanded, sampleError, raised>>

NoBaseline == [at |-> -1]
NoTick == [does |-> "nothing", now |-> 0]

\* _cpu_busy_total: CPU time spent by then, in tenths.
BusyTotal(t) == Busy * Cardinality({u \in 0..(t - 1) : ~(lull.from <= u /\ u < lull.to)})
MaxAge == 3 * TickSeconds

Init ==
  /\ uptime = 0 /\ lull \in Lulls
  /\ baseline = NoBaseline /\ samples = <<>>
  /\ ticking = NoTick /\ undemanded = 0
  /\ sampleError = FALSE /\ raised = 0

Passes ==
  /\ uptime < MaxUptime
  /\ ticking # NoTick => uptime < ticking.now + MaxLate
  /\ uptime' = uptime + 1
  /\ undemanded' = IF undemanded > DemandWindow THEN undemanded ELSE undemanded + 1
  /\ UNCHANGED <<lull, baseline, samples, ticking, sampleError, raised>>

\* tick_forever wakes; tick_once decides what is due.
TickBegins ==
  /\ ticking = NoTick
  /\ undemanded <= DemandWindow
  /\ LET stale == baseline = NoBaseline \/ uptime - baseline.at > 2 * TickSeconds
         due == IF samples # <<>> THEN TickSeconds ELSE FirstWindow
     IN  /\ stale \/ uptime - baseline.at >= due
         /\ ticking' = [does |-> IF stale THEN "baseline" ELSE "sample", now |-> uptime]
  /\ UNCHANGED <<uptime, lull, baseline, samples, undemanded, sampleError, raised>>

\* Mutant of TakeBaseline: the samples before the gap stay.
TakeBaselineKeeps ==
  /\ ticking.does = "baseline" /\ ticking' = NoTick
  /\ baseline' = [at |-> ticking.now, look |-> uptime]
  /\ UNCHANGED <<uptime, lull, samples, undemanded, sampleError, raised>>

TakeBaseline ==
  /\ ticking.does = "baseline" /\ ticking' = NoTick
  /\ baseline' = [at |-> ticking.now, look |-> uptime]
  /\ samples' = <<>>
  /\ UNCHANGED <<uptime, lull, undemanded, sampleError, raised>>

\* The samples from the first on that is no older than that.
Recent(history, oldest) ==
  LET kept == {i \in DOMAIN history : \A k \in 1 .. i - 1 : history[k].at < oldest}
      first == CHOOSE i \in kept : history[i].at >= oldest
  IN  SubSeq(history, first, Len(history))

TakeSample ==
  /\ ticking.does = "sample" /\ ticking' = NoTick
  /\ LET sample == [at |-> ticking.now, window |-> ticking.now - baseline.at,
                    from |-> baseline.look, to |-> uptime]
     IN  samples' = Recent(Append(samples, sample), ticking.now - Sustain - 2 * TickSeconds)
  /\ baseline' = [at |-> ticking.now, look |-> uptime]
  /\ sampleError' = FALSE
  /\ UNCHANGED <<uptime, lull, undemanded, raised>>

\* A failed tick must not end the loop.
TickFails ==
  /\ ticking # NoTick /\ ticking' = NoTick
  /\ raised < MaxFailures /\ raised' = raised + 1
  /\ sampleError' = TRUE
  /\ UNCHANGED <<uptime, lull, baseline, samples, undemanded>>

\* A page reads the cache and keeps the sampler awake.
ReadLoad ==
  /\ undemanded' = 0
  /\ UNCHANGED <<uptime, lull, baseline, samples, ticking, sampleError, raised>>

Next ==
  \/ Passes \/ TickBegins \/ TakeBaseline \/ TakeSample \/ TickFails \/ ReadLoad

Spec == Init /\ [][Next]_vars

-----------------------------------------------------------------------------
\* The CPU percentage between two looks, against a threshold.
Averaged(from, to, threshold) ==
  to > from /\ BusyTotal(to) - BusyTotal(from) >= threshold * (to - from)
Reaches(sample, threshold) == Averaged(sample.from, sample.to, threshold)

Latest == samples[Len(samples)]
\* level_for walks back over samples that all reach Attention until they cover
\* Sustain, half a second less included.
From(first) == {i \in DOMAIN samples : i >= first}
LongEnough(walked) ==
  2 * MapThenFoldSet(+, 0, LAMBDA i : samples[i].window, LAMBDA S : CHOOSE i \in S : TRUE, walked)
    >= 2 * Sustain - 1
Covering(first) ==
  /\ \A i \in From(first) : Reaches(samples[i], Attention)
  /\ LongEnough(From(first))

LevelFor ==
  CASE samples = <<>> -> "unknown"
    [] samples # <<>> /\ Reaches(Latest, Danger) -> "danger"
    [] samples # <<>> /\ ~Reaches(Latest, Danger) ->
         IF \E first \in DOMAIN samples : Covering(first) THEN "attention" ELSE "normal"

Reading ==
  IF sampleError \/ samples = <<>> THEN "unknown"
  ELSE IF uptime - Latest.at > MaxAge THEN "unknown" ELSE LevelFor

-----------------------------------------------------------------------------
TypeOK ==
  /\ uptime \in 0..MaxUptime /\ undemanded \in 0..DemandWindow + 1 /\ sampleError \in BOOLEAN
  /\ ticking.does \in {"nothing", "baseline", "sample"}
  /\ \A i \in DOMAIN samples : samples[i].at <= uptime /\ samples[i].window > 0

(* A reading of "attention" is a load that lasted: from the first look it   *)
(* rests on to the last the CPU really averaged that much, whatever pauses  *)
(* in demand, failed ticks and slow samples lie between (tick_once: "a      *)
(* sustained reading never spans an idle gap").                             *)
LoadHonest ==
  Reading = "attention" =>
    \E first \in DOMAIN samples :
      /\ Covering(first)
      /\ \A i \in first..Len(samples) : Averaged(samples[i].from, Latest.to, Attention)
=============================================================================
