-------------------------------- MODULE Runner --------------------------------
(***************************************************************************)
(* benchmark/runner.py and metrics.py: the repeats of one workload for one *)
(* model, each of them a stream through the gateway, and the medians that  *)
(* are taken of them.  A repeat may wait in the line, be refused, break,   *)
(* or end with an error event, which the gateway sends under status 200.   *)
(***************************************************************************)
EXTENDS Integers, Sequences, FiniteSets, Functions

CONSTANTS
  Repeats,   \* --repeats
  MaxTime,   \* bound on the time a stream takes
  MaxTexts,  \* bound on its chunks with text
  Tokens,    \* how many tokens the text of a chunk may have
  Scale,     \* speeds are kept as multiples of 1/Scale; each time divides it
  None

VARIABLES
  gate,      \* where the request is: "idle", "line", "rig", or "over"
  clock,     \* the time since it was sent
  chunks,    \* the lines of the stream that were read
  truth,     \* history: what became of the request
  samples,   \* what was measured of each repeat
  happened,  \* history: the truth about each
  row        \* what is written about the workload

vars == <<gate, clock, chunks, truth, samples, happened, row>>
rows == <<samples, happened, row>>

Asked == [long |-> FALSE, raised |-> FALSE, failed |-> FALSE, first |-> None, last |-> None, after |-> 0]

Init ==
  /\ gate = "idle" /\ clock = 0 /\ chunks = <<>> /\ truth = Asked
  /\ samples = <<>> /\ happened = <<>> /\ row = None

-----------------------------------------------------------------------------
(* metrics.py *)

(* The values of a function, a sequence or another one, from the least on. *)
Sorted(values) ==
  LET n == Cardinality(DOMAIN values)
      order == CHOOSE p \in Bijection(1..n, DOMAIN values) :
                 \A k \in 1..n - 1 : values[p[k]] <= values[p[k + 1]]
  IN [k \in 1..n |-> values[order[k]]]

(* A hundred times the percentile of the values, between two of which it   *)
(* may lie.                                                                *)
Percentile(values, p) ==
  LET xs == Sorted(values)
      k == (Len(xs) - 1) * p
      lo == k \div 100
      hi == (k + 99) \div 100
  IN IF values = <<>> THEN None
     ELSE IF lo = hi THEN 100 * xs[lo + 1]
     ELSE xs[lo + 1] * (100 * hi - k) + xs[hi + 1] * (k - 100 * lo)

HasText(chunk) == chunk.tokens > 0
Texts(lines) ==
  LET texts[n \in 0..Len(lines)] ==
        IF n = 0 THEN <<>>
        ELSE IF HasText(lines[n]) THEN Append(texts[n - 1], lines[n]) ELSE texts[n - 1]
  IN texts[Len(lines)]
Gaps(texts) == [n \in 1..Len(texts) - 1 |-> texts[n + 1].t - texts[n].t]

(* Fault: the tokens of the first chunk count too. *)
TokensAfterAll(texts) ==
  LET sum[n \in 0..Len(texts)] == IF n = 0 THEN 0 ELSE sum[n - 1] + texts[n].tokens
  IN sum[Len(texts)]

TokensAfter(texts) ==
  LET sum[n \in 0..Len(texts) - 1] == IF n = 0 THEN 0 ELSE sum[n - 1] + texts[n + 1].tokens
  IN sum[Len(texts) - 1]

(* Output speed, if there is more than one moment. *)
Speed(texts) ==
  LET elapsed == texts[Len(texts)].t - texts[1].t IN
    IF TokensAfter(texts) > 0 /\ elapsed > 0
    THEN (TokensAfter(texts) * Scale) \div elapsed ELSE None

Measure(lines) ==
  LET texts == Texts(lines) IN
    [queued |-> \E n \in 1..Len(lines) : lines[n].queued, error |-> FALSE,
     ttft |-> IF texts = <<>> THEN None ELSE texts[1].t,
     speed |-> IF texts = <<>> THEN None ELSE Speed(texts)]

-----------------------------------------------------------------------------
(* The stream, as gateway/main.py sends it. *)

Line(t, queued, tokens) == [t |-> t, queued |-> queued, tokens |-> tokens]

Ask ==
  /\ gate = "idle" /\ Len(samples) < Repeats
  /\ gate' = "line"
  /\ UNCHANGED <<clock, chunks, truth, rows>>

(* A wait that is shorter than the interval leaves no trace. *)
Keepalive ==
  /\ gate = "line" /\ clock < MaxTime
  /\ clock' = clock + 1
  /\ chunks' = Append(chunks, Line(clock', TRUE, 0))
  /\ truth' = [truth EXCEPT !.long = TRUE]
  /\ UNCHANGED <<gate, rows>>

TakeSlot ==
  /\ gate = "line" /\ gate' = "rig"
  /\ UNCHANGED <<clock, chunks, truth, rows>>

Text ==
  /\ gate = "rig" /\ Len(Texts(chunks)) < MaxTexts
  /\ clock' \in clock..MaxTime
  /\ \E n \in Tokens :
       /\ chunks' = Append(chunks, Line(clock', FALSE, n))
       /\ truth' = IF truth.first = None
                   THEN [truth EXCEPT !.first = clock', !.last = clock']
                   ELSE [truth EXCEPT !.last = clock', !.after = @ + n]
  /\ UNCHANGED <<gate, rows>>

(* [DONE], after the last text or after an error event. *)
StreamEnds ==
  /\ gate = "rig" /\ gate' = "over"
  /\ chunks' = Append(chunks, Line(clock, FALSE, 0))
  /\ truth' \in {truth, [truth EXCEPT !.failed = TRUE]}
  /\ UNCHANGED <<clock, rows>>

-----------------------------------------------------------------------------
(* run_benchmark *)

Sampled(sample, what) ==
  /\ samples' = Append(samples, sample)
  /\ happened' = Append(happened, what)
  /\ gate' = "idle" /\ clock' = 0 /\ chunks' = <<>> /\ truth' = Asked
  /\ UNCHANGED row

Record == gate = "over" /\ Sampled(Measure(chunks), truth)

(* A status of 400 or more, or an exception while the lines are read. *)
Raise ==
  /\ gate \in {"line", "rig"}
  /\ Sampled([queued |-> FALSE, error |-> TRUE, ttft |-> None, speed |-> None],
           [truth EXCEPT !.raised = TRUE])

(* median, in halves *)
Median(values) ==
  LET xs == Sorted(values)
      mid == Len(xs) \div 2
  IN IF Len(xs) = 0 THEN None
     ELSE IF Len(xs) % 2 = 1 THEN 2 * xs[mid + 1] ELSE xs[mid] + xs[mid + 1]

Repeated == 1..Len(samples)
Usable == {n \in Repeated : ~samples[n].queued /\ ~samples[n].error}

MedianOf(field) ==
  Median([n \in {u \in Usable : samples[u][field] # None} |-> samples[n][field]])

Aggregate ==
  /\ gate = "idle" /\ Len(samples) = Repeats /\ row = None
  /\ row' =
       [status |-> IF Usable # {} THEN "measured" ELSE "error",
        used |-> Cardinality(Usable),
        excluded_queue |-> Cardinality({n \in Repeated : samples[n].queued}),
        errors |-> Cardinality({n \in Repeated : samples[n].error}),
        ttft |-> MedianOf("ttft"),
        speed |-> MedianOf("speed")]
  /\ UNCHANGED <<gate, clock, chunks, truth, samples, happened>>

Next ==
  Ask \/ Keepalive \/ TakeSlot \/ Text \/ StreamEnds \/ Record \/ Raise \/ Aggregate

Spec == Init /\ [][Next]_vars

-----------------------------------------------------------------------------
(* m, in halves, is in the middle of the values of these repeats. *)
InTheMiddle(m, S, value) ==
  IF S = {} THEN m = None
  ELSE /\ 2 * Cardinality({n \in S : 2 * value[n] <= m}) >= Cardinality(S)
       /\ 2 * Cardinality({n \in S : 2 * value[n] >= m}) >= Cardinality(S)

(* Every repeat is counted once; the medians are in the middle of what the *)
(* repeats really took that neither sat out a keepalive nor raised, and    *)
(* one that never spoke, or spoke once, does not move them (measure,       *)
(* aggregate, run_benchmark).                                              *)
MedianHonest ==
  row # None =>
    LET used == {n \in 1..Repeats : ~happened[n].raised /\ ~happened[n].long}
        spoke == {n \in used : happened[n].first # None}
        went == {n \in spoke : happened[n].last > happened[n].first}
    IN /\ row.used = Cardinality(used)
       /\ row.used + row.excluded_queue + row.errors = Repeats
       /\ row.status = "measured" <=> used # {}
       /\ InTheMiddle(row.ttft, spoke, [n \in spoke |-> happened[n].first])
       /\ InTheMiddle(row.speed, went, [n \in went |->
            (happened[n].after * Scale) \div (happened[n].last - happened[n].first)])

(* The percentiles of the gaps agree with the median and the largest of    *)
(* them (percentile, median).                                              *)
PercentilesAgree ==
  LET gaps == Gaps(Texts(chunks)) IN
    gate = "over" /\ gaps # <<>> =>
      /\ Percentile(gaps, 50) = 50 * Median(gaps)
      /\ Percentile(gaps, 95) >= Percentile(gaps, 50)
      /\ \E n \in 1..Len(gaps) : Percentile(gaps, 95) <= 100 * gaps[n]

(* Both together: what is measured of a stream, and what is made of all    *)
(* the repeats (metrics.py, runner.py).                                    *)
MeasuresRight == MedianHonest /\ PercentilesAgree

(* "Median of samples that did not wait in the gateway queue and did not   *)
(* error": a repeat whose stream ended with an error event is not used.    *)
UsedDidNotErr ==
  row # None =>
    row.used <= Cardinality({n \in 1..Repeats : ~happened[n].raised /\ ~happened[n].failed})
=============================================================================
